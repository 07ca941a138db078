--------------------------- MODULE MCProxyServer ---------------------------
(* Instances of ProxyServer for TLC. *)
EXTENDS ProxyServer

(* Every configuration of the capture backends with both servers, and every
   configuration of the servers with WFP or without a capture. *)
AllConfigs ==
  {c \in Config :
     \/ c.tcp_enabled /\ c.udp_enabled /\ c.capture_enabled
     \/ /\ ~c.dry_run
        /\ c.capture_enabled = c.use_wfp
        /\ c.redirect_enabled = c.use_wfp
        /\ c.channel /\ c.filter
        /\ ~c.allow_startup_fallback /\ ~c.allow_runtime_fallback}

(* WFP with WinDivert behind it, and a redirect that cannot be set up. *)
FallbackConfigs ==
  {c \in Config : /\ c.capture_enabled /\ c.use_wfp /\ c.use_windivert
                  /\ c.redirect_enabled /\ c.allow_startup_fallback
                  /\ c.tcp_enabled /\ c.udp_enabled
                  /\ ~c.channel /\ ~c.dry_run /\ ~c.timed}

=============================================================================
