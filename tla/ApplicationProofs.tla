-------------------------- MODULE ApplicationProofs --------------------------
(***************************************************************************)
(* Proofs about Application.  First the loaders: they make of every file   *)
(* of the configuration and of the rules what a person reads in it, and    *)
(* refuse one for a cause only.  Then the patches: one that is about       *)
(* nothing changes nothing, and the HTTP adapter keeps a message whole and *)
(* the headers that no rule sets.  A file, a set of rules and a head are   *)
(* read by folds.  A fold is first unfolded, by an induction over sets of  *)
(* indices, into a function after, where after[i] is what there is behind  *)
(* the i-th element; the rest goes from element to element.                *)
(***************************************************************************)
EXTENDS Application, SequenceTheorems, FiniteSetTheorems, WellFoundedInduction, TLAPS

(* A function overwritten by another. *)
LEMMA Overwritten ==
  ASSUME NEW f, NEW g
  PROVE  /\ DOMAIN (f ++ g) = (DOMAIN f) \cup (DOMAIN g)
         /\ f ++ g = [x \in DOMAIN (f ++ g) |-> (f ++ g)[x]]
BY DEF ++

(* A set of naturals that is not empty has a least element, and Min is it. *)
LEMMA SmallestExists ==
  ASSUME NEW I \in SUBSET Nat, I # {}
  PROVE  Min(I) \in I /\ \A i \in I : Min(I) <= i
<1> DEFINE R == OpToRel(<, Nat)
<1>1. \E x \in I : \A y \in I : ~ (<<y, x>> \in R)
  <2>1. IsWellFoundedOn(R, Nat)
    BY NatLessThanWellFounded, Zenon
  <2> HIDE DEF R
  <2> QED
    BY <2>1, WFMin, Zenon
<1>2. \A x, y \in Nat : x < y => <<x, y>> \in R
  BY DEF OpToRel
<1>3. PICK x \in I : \A y \in I : ~ (<<y, x>> \in R)
  BY <1>1
<1>4. \A y \in I : ~ (y < x)
  BY <1>2, <1>3, Zenon
<1>5. \A y \in I : x <= y
  BY <1>4
<1> QED
  BY <1>5 DEF Min

(* One with nothing beyond n has a greatest, and Max is it. *)
LEMMA LargestExists ==
  ASSUME NEW n \in Nat, NEW I \in SUBSET (0..n), I # {}
  PROVE  Max(I) \in I /\ \A i \in I : i <= Max(I)
<1> DEFINE J == {n - i : i \in I}
<1>1. J \in SUBSET Nat /\ J # {}
  OBVIOUS
<1>2. Min(J) \in J /\ \A j \in J : Min(J) <= j
  <2> HIDE DEF J
  <2> QED
    BY <1>1, SmallestExists
<1>3. PICK x \in I : Min(J) = n - x
  BY <1>2
<1>4. \A i \in I : n - x <= n - i
  BY <1>2, <1>3
<1>5. \A i \in I : x >= i
  BY <1>4
<1> QED
  BY <1>5 DEF Max

(* What holds of 0 and of every successor up to n holds of all up to n: a
   set of counterexamples would have a least one. *)
LEMMA UpTo ==
  ASSUME NEW n \in Nat, NEW G \in SUBSET (0..n), 0 \in G,
         \A i \in 1..n : i - 1 \in G => i \in G
  PROVE  G = 0..n
<1> SUFFICES ASSUME (0..n) \ G # {} PROVE FALSE
  OBVIOUS
<1>1. PICK x : x = Min((0..n) \ G)
  OBVIOUS
<1>2. x \in (0..n) \ G /\ \A i \in (0..n) \ G : x <= i
  <2>1. (0..n) \ G \in SUBSET Nat
    OBVIOUS
  <2> QED
    BY <1>1, <2>1, SmallestExists
<1>3. x \in 1..n /\ x - 1 \in 0..n /\ ~ (x <= x - 1)
  BY <1>2
<1> QED
  BY <1>2, <1>3

(* after[i] is what a table has for the run from 1 to i. *)
Runs(n, table, after) ==
  /\ after[0] = table[{}] /\ after[n] = table[1..n]
  /\ \A i \in 1..n : /\ 1..i # {} /\ 1..i \in SUBSET (1..n) /\ Max(1..i) = i
                    /\ after[i] = table[1..i]
                    /\ after[i - 1] = table[(1..i) \ {i}]

LEMMA RunsFromOne ==
  ASSUME NEW n \in Nat, NEW table
  PROVE  \E after : Runs(n, table, after)
<1> DEFINE after == [i \in 0..n |-> table[1..i]]
<1>1. ASSUME NEW i \in 1..n PROVE Max(1..i) = i
  <2>1. 1..i \in SUBSET (0..n) /\ 1..i # {} /\ i \in 1..i
    OBVIOUS
  <2>2. PICK m : m = Max(1..i)
    OBVIOUS
  <2>3. m \in 1..i /\ \A j \in 1..i : j <= m
    BY <2>1, <2>2, LargestExists
  <2>4. m = i
    BY <2>1, <2>3
  <2> QED
    BY <2>2, <2>4
<1>2. ASSUME NEW i \in 1..n
      PROVE  /\ 1..i # {} /\ 1..i \in SUBSET (1..n)
             /\ after[i] = table[1..i] /\ after[i - 1] = table[(1..i) \ {i}]
  <2>1. 1..i # {} /\ 1..i \in SUBSET (1..n) /\ (1..i) \ {i} = 1..(i - 1)
    OBVIOUS
  <2>2. i \in 0..n /\ i - 1 \in 0..n
    OBVIOUS
  <2>3. after[i] = table[1..i] /\ after[i - 1] = table[1..(i - 1)]
    BY <2>2
  <2> HIDE DEF after
  <2> QED
    BY <2>1, <2>3
<1>3. after[0] = table[{}] /\ after[n] = table[1..n]
  <2>1. 0 \in 0..n /\ n \in 0..n /\ 1..0 = {}
    OBVIOUS
  <2>2. after[0] = table[1..0] /\ after[n] = table[1..n]
    BY <2>1
  <2> QED
    BY <2>1, <2>2
<1> HIDE DEF after
<1> QED
  BY <1>1, <1>2, <1>3 DEF Runs

(* The table that the definition of a fold makes of the sets of places of a
   sequence of n elements; step is told the place. *)
FoldTable(n, V, base, step, f) ==
  /\ f \in [SUBSET (1..n) -> V]
  /\ \A s \in SUBSET (1..n) :
       /\ f[s] = IF s = {} THEN base ELSE step[<<Max(s), f[s \ {Max(s)}]>>]
       /\ s # {} => Max(s) \in 1..n /\ f[s \ {Max(s)}] \in V

(* A fold is well defined: there is such a table. *)
LEMMA FoldExists ==
  ASSUME NEW n \in Nat, NEW V, NEW base \in V, NEW step \in [(1..n) \X V -> V]
  PROVE  \E f : FoldTable(n, V, base, step, f)
<1> DEFINE Table(k, f) ==
             \A s \in SUBSET (1..k) :
               f[s] = IF s = {} THEN base ELSE step[<<Max(s), f[s \ {Max(s)}]>>]
           G == {k \in 0..n : \E f \in [SUBSET (1..k) -> V] : Table(k, f)}
<1>1. 0 \in G
  <2> DEFINE f == [s \in SUBSET (1..0) |-> base]
  <2>1. f \in [SUBSET (1..0) -> V]
    OBVIOUS
  <2>2. Table(0, f)
    OBVIOUS
  <2>3. 0 \in 0..n
    OBVIOUS
  <2> HIDE DEF f, Table
  <2> QED
    BY <2>1, <2>2, <2>3
<1>2. ASSUME NEW k \in 1..n, k - 1 \in G
      PROVE  k \in G
  <2>1. PICK g \in [SUBSET (1..(k - 1)) -> V] : Table(k - 1, g)
    BY <1>2
  <2> DEFINE f == [s \in SUBSET (1..k) |->
                     IF k \in s THEN step[<<k, g[s \ {k}]>>] ELSE g[s]]
  <2>2. ASSUME NEW s \in SUBSET (1..k)
        PROVE  /\ k \in s => Max(s) = k /\ s \ {k} \in SUBSET (1..(k - 1))
               /\ k \notin s => s \in SUBSET (1..(k - 1))
    <3>1. PICK m : m = Max(s)
      OBVIOUS
    <3>2. k \in s => m \in 1..k /\ k <= m
      <4>1. s \in SUBSET (0..n)
        OBVIOUS
      <4>2. k \in s => m \in s /\ k <= m
        BY <3>1, <4>1, LargestExists
      <4> QED
        BY <4>2
    <3>3. k \in s => Max(s) = k
      BY <3>1, <3>2
    <3> QED
      BY <3>3
  <2>3. f \in [SUBSET (1..k) -> V]
    <3>1. \A s \in SUBSET (1..k) : f[s] \in V
      <4> SUFFICES ASSUME NEW s \in SUBSET (1..k) PROVE f[s] \in V
        OBVIOUS
      <4>1. CASE k \in s
        <5>1. g[s \ {k}] \in V
          BY <2>2, <4>1
        <5> QED
          BY <4>1, <5>1
      <4>2. CASE k \notin s
        BY <2>2, <4>2
      <4> QED
        BY <4>1, <4>2
    <3> QED
      BY <3>1
  <2>4. ASSUME NEW s \in SUBSET (1..k)
        PROVE  f[s] = IF s = {} THEN base ELSE step[<<Max(s), f[s \ {Max(s)}]>>]
    <3>1. CASE k \in s
      <4>1. Max(s) = k /\ s \ {k} \in SUBSET (1..(k - 1)) /\ s # {} /\ k \notin s \ {k}
        BY <2>2, <3>1
      <4>2. s \ {k} \in SUBSET (1..k)
        OBVIOUS
      <4>3. f[s \ {k}] = g[s \ {k}]
        BY <4>1, <4>2
      <4> QED
        BY <3>1, <4>1, <4>3
    <3>2. CASE k \notin s
      <4>1. s \in SUBSET (1..(k - 1)) /\ f[s] = g[s]
        BY <2>2, <3>2
      <4>2. s # {} => Max(s) \in s
        <5>1. s \in SUBSET (0..n)
          OBVIOUS
        <5> QED
          BY <5>1, LargestExists
      <4>3. s # {} => f[s \ {Max(s)}] = g[s \ {Max(s)}]
        BY <3>2
      <4>4. g[s] = IF s = {} THEN base ELSE step[<<Max(s), g[s \ {Max(s)}]>>]
        BY <2>1, <4>1
      <4> HIDE DEF f
      <4> QED
        BY <4>1, <4>3, <4>4
    <3> QED
      BY <3>1, <3>2
  <2>5. Table(k, f)
    BY <2>4
  <2> HIDE DEF f, Table
  <2> QED
    BY <2>3, <2>5
<1>3. n \in G
  <2> HIDE DEF G
  <2>1. G \in SUBSET (0..n)
    BY DEF G
  <2>2. G = 0..n
    BY <1>1, <1>2, <2>1, UpTo
  <2> QED
    BY <2>2
<1>4. PICK f \in [SUBSET (1..n) -> V] : Table(n, f)
  BY <1>3
<1>5. ASSUME NEW s \in SUBSET (1..n), s # {}
      PROVE  Max(s) \in 1..n /\ f[s \ {Max(s)}] \in V
  <2>1. s \in SUBSET (0..n)
    OBVIOUS
  <2>2. Max(s) \in s
    BY <1>5, <2>1, LargestExists
  <2> QED
    BY <2>2
<1> QED
  BY <1>4, <1>5 DEF FoldTable

(* The loader of the configuration, line by line: after[i] is the loader, or
   nothing, behind line i. *)
ConfigLoaders(lines, after) ==
  /\ after[0] = {[section |-> NoText, config |-> Defaults]}
  /\ \A i \in 1..Len(lines) : after[i] = UNION {LoadConfigLine(l, lines[i]) : l \in after[i - 1]}

LEMMA ConfigSteps ==
  ASSUME NEW n \in Nat, NEW lines, Len(lines) = n, DOMAIN lines = 1..n
  PROVE  \E after : /\ ConfigLoaders(lines, after)
                    /\ LoadConfig({lines}) = {l.config : l \in after[n]}
<1> DEFINE Sections == {NoText} \cup {SectionName(lines[i]) : i \in 1..n}
           Values == {Defaults[k] : k \in DOMAIN Defaults}
                     \cup UNION {ReadValue(p[1], lines[p[2]]) : p \in (DOMAIN Keys) \X (1..n)}
           Loaders == [section : Sections, config : [DOMAIN Defaults -> Values]]
           base == {[section |-> NoText, config |-> Defaults]}
           op(ls, i) == UNION {LoadConfigLine(l, lines[i]) : l \in ls}
           step == [p \in (1..n) \X SUBSET Loaders |-> op(p[2], p[1])]
<1>1. base \in SUBSET Loaders
  <2>1. Defaults \in [DOMAIN Defaults -> Values]
    <3>1. Defaults = [k \in DOMAIN Defaults |-> Defaults[k]]
      BY Overwritten, Zenon DEF Defaults
    <3> QED
      BY <3>1
  <2> QED
    BY <2>1
<1>2. ASSUME NEW l \in Loaders, NEW i \in 1..n
      PROVE  LoadConfigLine(l, lines[i]) \in SUBSET Loaders
  <2>1. [l EXCEPT !.section = SectionName(lines[i])] \in Loaders
    OBVIOUS
  <2>2. ASSUME NEW k \in DOMAIN Keys, NEW v \in ReadValue(k, lines[i])
        PROVE  [l EXCEPT !.config[k] = v] \in Loaders
    <3>1. v \in Values
      <4>1. ReadValue(k, lines[i]) \subseteq UNION {ReadValue(p[1], lines[p[2]]) : p \in (DOMAIN Keys) \X (1..n)}
        <5>1. <<k, i>> \in (DOMAIN Keys) \X (1..n)
          OBVIOUS
        <5>2. PICK p \in (DOMAIN Keys) \X (1..n) : p = <<k, i>>
          BY <5>1
        <5>3. ReadValue(p[1], lines[p[2]]) = ReadValue(k, lines[i])
          BY <5>2
        <5> QED
          BY <5>3
      <4> QED
        BY <4>1
    <3> HIDE DEF Values, Sections
    <3> QED
      BY <3>1
  <2> HIDE DEF Loaders
  <2> QED
    BY <2>1, <2>2 DEF LoadConfigLine
<1>3. step \in [(1..n) \X SUBSET Loaders -> SUBSET Loaders]
  <2> HIDE DEF Loaders
  <2>1. \A p \in (1..n) \X SUBSET Loaders : op(p[2], p[1]) \in SUBSET Loaders
    BY <1>2
  <2> QED
    BY <2>1
<1> HIDE DEF Loaders, Values, Sections
<1>4. PICK f : FoldTable(n, SUBSET Loaders, base, step, f)
  BY <1>1, <1>3, FoldExists
<1> DEFINE Entry(g, s) == IF s = {} THEN base ELSE op(g[s \ {Max(s)}], Max(s))
           table == CHOOSE g : g = [s \in SUBSET (1..n) |-> Entry(g, s)]
<1>5. f = [s \in SUBSET (1..n) |-> Entry(f, s)]
  <2>1. ASSUME NEW s \in SUBSET (1..n), s # {}
        PROVE  step[<<Max(s), f[s \ {Max(s)}]>>] = op(f[s \ {Max(s)}], Max(s))
    <3>1. Max(s) \in 1..n /\ f[s \ {Max(s)}] \in SUBSET Loaders
      BY <1>4, <2>1 DEF FoldTable
    <3> HIDE DEF Loaders, op
    <3> QED
      BY <3>1
  <2>2. \A s \in SUBSET (1..n) : f[s] = Entry(f, s)
    <3> HIDE DEF Loaders, op, step, base
    <3> QED
      BY <1>4, <2>1 DEF FoldTable
  <2> HIDE DEF Entry
  <2> QED
    BY <1>4, <2>2 DEF FoldTable
<1>6. table = [s \in SUBSET (1..n) |-> Entry(table, s)]
  <2> HIDE DEF Entry
  <2> QED
    BY <1>5
<1>7. LoadConfig({lines}) = {l.config : l \in table[1..n]}
  <2> DEFINE Read(ls) == FoldLeft(LAMBDA x, line : UNION {LoadConfigLine(l, line) : l \in x}, base, ls)
  <2>1. Read(lines) = table[1..n]
    BY DEF FoldLeft, MapThenFoldSet
  <2>2. LoadConfig({lines}) = {l.config : l \in UNION {Read(ls) : ls \in {lines}}}
    BY DEF LoadConfig
  <2> HIDE DEF Read, table
  <2> QED
    BY <2>1, <2>2
<1> HIDE DEF table
<1>8. PICK after : Runs(n, table, after)
  BY RunsFromOne
<1>9. after[0] = base
  <2> HIDE DEF op, base
  <2> QED
    BY <1>6, <1>8 DEF Runs
<1>10. ASSUME NEW i \in 1..n
      PROVE  after[i] = op(after[i - 1], i)
  <2>1. table[1..i] = op(table[(1..i) \ {Max(1..i)}], Max(1..i))
    <3> HIDE DEF op, base
    <3> QED
      BY <1>6, <1>8 DEF Runs
  <2> HIDE DEF op
  <2> QED
    BY <1>8, <2>1 DEF Runs
<1>11. ConfigLoaders(lines, after)
  BY <1>9, <1>10 DEF ConfigLoaders
<1> QED
  BY <1>7, <1>8, <1>11 DEF Runs

(* Every key has a default. *)
LEMMA KeysHaveDefaults == DOMAIN Keys \subseteq DOMAIN Defaults
<1> DEFINE Ports == {"tcp.listen_port", "tcp.upstream_port", "udp.listen_port", "udp.upstream_port"}
           Fine(f) == \A k \in DOMAIN f : \/ f[k] \in {"bool", "text"}
                                          \/ k \in Ports \cup {"runtime.max_runtime_seconds"}
<1>1. ASSUME NEW f, NEW g, Fine(f), Fine(g) PROVE Fine(f ++ g)
  BY <1>1 DEF ++
<1>2. \A S : Fine(Kind("bool", S)) /\ Fine(Kind("text", S))
  BY DEF Kind
<1>3. Fine(Kind("u16", {"tcp.listen_port", "tcp.upstream_port", "udp.listen_port", "udp.upstream_port"}))
  BY DEF Kind
<1>4. Fine(Kind("u32", {"runtime.max_runtime_seconds"}))
  BY DEF Kind
<1>5. Fine(Keys)
  <2> HIDE DEF Fine
  <2>1. Fine(CaptureKeys) /\ Fine(TransportKeys) /\ Fine(RuntimeKeys) /\ Fine(HttpsKeys) /\ Fine(PatchKeys)
    BY <1>1, <1>2, <1>3, <1>4 DEF CaptureKeys, TransportKeys, RuntimeKeys, HttpsKeys, PatchKeys
  <2> QED
    BY <1>1, <2>1 DEF Keys
<1>6. /\ Ports \cup {"runtime.max_runtime_seconds"} \subseteq DOMAIN Defaults
      /\ KeysOf("bool") \cup KeysOf("text") \subseteq DOMAIN Defaults
  <2>1. PICK a, b, c, d, e :
          /\ Defaults = a ++ b ++ c ++ d ++ e
          /\ DOMAIN a = KeysOf("bool") /\ b = DefaultPorts
          /\ c = Only("runtime.max_runtime_seconds", 0)
          /\ DOMAIN e = KeysOf("text")
    <3> DEFINE bools == [k \in KeysOf("bool") |->
                           k \notin {"capture.enabled", "capture.use_wfp", "capture.use_windivert",
                                     "capture.wfp_redirect_enabled", "https_mitm.enabled",
                                     "https_mitm.plaintext_test_mode", "patch.enable_hex_patch"}]
               texts == [k \in KeysOf("text") |-> <<>>]
    <3>1. DOMAIN bools = KeysOf("bool") /\ DOMAIN texts = KeysOf("text")
      OBVIOUS
    <3>2. Defaults = bools ++ DefaultPorts ++ Only("runtime.max_runtime_seconds", 0) ++ DefaultTexts ++ texts
      BY DEF Defaults
    <3> HIDE DEF bools, texts
    <3> QED
      BY <3>1, <3>2, Zenon
  <2>2. DOMAIN c = {"runtime.max_runtime_seconds"}
    BY <2>1 DEF Only
  <2>3. DOMAIN b = Ports
    <3> DEFINE f == Only("tcp.listen_port", 18080)
               g == Only("tcp.upstream_port", 28080)
               h == Only("udp.listen_port", 18081)
               k == Only("udp.upstream_port", 28081)
    <3>1. /\ DOMAIN f = {"tcp.listen_port"} /\ DOMAIN g = {"tcp.upstream_port"}
          /\ DOMAIN h = {"udp.listen_port"} /\ DOMAIN k = {"udp.upstream_port"}
      BY DEF Only
    <3>2. DefaultPorts = ((f ++ g) ++ h) ++ k
      BY DEF DefaultPorts
    <3> HIDE DEF f, g, h, k
    <3>3. DOMAIN (f ++ g) = (DOMAIN f) \cup (DOMAIN g)
      BY Overwritten
    <3>4. DOMAIN ((f ++ g) ++ h) = (DOMAIN (f ++ g)) \cup (DOMAIN h)
      BY Overwritten
    <3>5. DOMAIN (((f ++ g) ++ h) ++ k) = (DOMAIN ((f ++ g) ++ h)) \cup (DOMAIN k)
      BY Overwritten
    <3> QED
      BY <2>1, <3>1, <3>2, <3>3, <3>4, <3>5
  <2>4. DOMAIN (a ++ b) = (DOMAIN a) \cup (DOMAIN b)
    BY Overwritten
  <2>5. DOMAIN ((a ++ b) ++ c) = (DOMAIN (a ++ b)) \cup (DOMAIN c)
    BY Overwritten
  <2>6. DOMAIN (((a ++ b) ++ c) ++ d) = (DOMAIN ((a ++ b) ++ c)) \cup (DOMAIN d)
    BY Overwritten
  <2>7. DOMAIN ((((a ++ b) ++ c) ++ d) ++ e) = (DOMAIN (((a ++ b) ++ c) ++ d)) \cup (DOMAIN e)
    BY Overwritten
  <2> QED
    BY <2>1, <2>2, <2>3, <2>4, <2>5, <2>6, <2>7
<1> QED
  BY <1>5, <1>6 DEF KeysOf

(* The last place of those up to i, one line further on. *)
LEMMA LastPlace ==
  ASSUME NEW i \in Nat \ {0}, NEW S \in SUBSET (1..i)
  PROVE  /\ i \in S => S # {} /\ Max(S) = i
         /\ i \notin S => S \in SUBSET (1..(i - 1))
<1>1. CASE i \in S
  <2>1. S \in SUBSET (0..i)
    OBVIOUS
  <2>2. PICK m : m = Max(S)
    OBVIOUS
  <2>3. m \in 1..i /\ i <= m
    BY <1>1, <2>1, <2>2, LargestExists
  <2>4. m = i
    BY <2>3
  <2> QED
    BY <1>1, <2>2, <2>4
<1> QED
  BY <1>1

(* What the lines up to i say: the section they end in, and the value of a key. *)
SectionUpTo(lines, i) ==
  LET above == LastUpTo(i, LAMBDA j : lines[j].text = "name")
  IN  IF above = 0 THEN NoText ELSE lines[above].key

ValueUpTo(lines, i, key) ==
  LET says == SaidUpTo(lines, i, key)
  IN  IF says = 0 THEN {Defaults[key]} ELSE ReadValue(key, lines[says])

(* What holds of the loader behind line i of a tidy file. *)
LoaderMeant(lines, i, l) ==
  /\ l = [section |-> SectionUpTo(lines, i), config |-> l.config]
  /\ DOMAIN l.config = DOMAIN Defaults
  /\ \A key \in DOMAIN Keys : l.config[key] \in ValueUpTo(lines, i, key)

LEMMA MeantAtLine ==
  ASSUME NEW lines, NEW i \in Nat \ {0}
  PROVE  /\ lines[i].text = "name" => SectionUpTo(lines, i) = lines[i].key
         /\ lines[i].text # "name" => SectionUpTo(lines, i) = SectionUpTo(lines, i - 1)
         /\ \A key : IF lines[i].text = "pair" /\ MeantKey(lines, i) = key
                       THEN ValueUpTo(lines, i, key) = ReadValue(key, lines[i])
                       ELSE ValueUpTo(lines, i, key) = ValueUpTo(lines, i - 1, key)
<1>1. i # 0 /\ i \in 1..i
  OBVIOUS
<1>2. /\ lines[i].text = "name" => SectionUpTo(lines, i) = lines[i].key
      /\ lines[i].text # "name" => SectionUpTo(lines, i) = SectionUpTo(lines, i - 1)
  <2> DEFINE S(k) == {j \in 1..k : lines[j].text = "name"}
  <2>1. \A k : SectionUpTo(lines, k) = LET above == IF S(k) = {} THEN 0 ELSE Max(S(k))
                                       IN  IF above = 0 THEN NoText ELSE lines[above].key
    BY DEF SectionUpTo, LastUpTo
  <2>2. S(i) \in SUBSET (1..i)
    OBVIOUS
  <2>3. i \in S(i) <=> lines[i].text = "name"
    BY <1>1
  <2>4. i \notin S(i) => S(i) = S(i - 1)
    OBVIOUS
  <2> HIDE DEF S
  <2>5. i \in S(i) => S(i) # {} /\ Max(S(i)) = i
    BY <2>2, LastPlace
  <2> QED
    BY <1>1, <2>1, <2>3, <2>4, <2>5
<1>3. ASSUME NEW key
      PROVE  IF lines[i].text = "pair" /\ MeantKey(lines, i) = key
               THEN ValueUpTo(lines, i, key) = ReadValue(key, lines[i])
               ELSE ValueUpTo(lines, i, key) = ValueUpTo(lines, i - 1, key)
  <2> DEFINE S(k) == {j \in 1..k : lines[j].text = "pair" /\ MeantKey(lines, j) = key}
  <2>1. \A k : ValueUpTo(lines, k, key) = LET says == IF S(k) = {} THEN 0 ELSE Max(S(k))
                                          IN  IF says = 0 THEN {Defaults[key]} ELSE ReadValue(key, lines[says])
    BY DEF ValueUpTo, SaidUpTo, LastUpTo
  <2>2. S(i) \in SUBSET (1..i)
    OBVIOUS
  <2>3. i \in S(i) <=> lines[i].text = "pair" /\ MeantKey(lines, i) = key
    BY <1>1
  <2>4. i \notin S(i) => S(i) = S(i - 1)
    OBVIOUS
  <2> HIDE DEF S
  <2>5. i \in S(i) => S(i) # {} /\ Max(S(i)) = i
    BY <2>2, LastPlace
  <2> QED
    BY <1>1, <2>1, <2>3, <2>4, <2>5
<1> QED
  BY <1>2, <1>3

(* The key that the loader makes of a pair is the one that is meant. *)
LEMMA KeyAtLine ==
  ASSUME NEW lines, NEW n \in Nat, DOMAIN lines = 1..n, Tidy(lines),
         NEW i \in 1..n, lines[i].text = "pair"
  PROVE  FullKey(SectionUpTo(lines, i - 1), lines[i].key) = MeantKey(lines, i)
<1> DEFINE S == {j \in 1..i : lines[j].text = "name"}
           above == IF S = {} THEN 0 ELSE Max(S)
<1>1. S = {j \in 1..(i - 1) : lines[j].text = "name"}
  OBVIOUS
<1>2. SectionUpTo(lines, i - 1) = IF above = 0 THEN NoText ELSE lines[above].key
  BY <1>1 DEF SectionUpTo, LastUpTo
<1>3. MeantKey(lines, i) = IF lines[i].nested /\ above # 0 THEN lines[above].key \o "." \o lines[i].key
                           ELSE lines[i].key
  BY DEF MeantKey, LastUpTo
<1>4. S # {} => lines[i].nested /\ above \in S
  <2>1. S # {} => above \in S
    <3>1. S \in SUBSET (0..n)
      OBVIOUS
    <3> HIDE DEF S
    <3> QED
      BY <3>1, LargestExists
  <2>2. S # {} => lines[i].nested
    BY DEF Tidy
  <2> QED
    BY <2>1, <2>2
<1>5. S # {} => above # 0 /\ lines[above].key # NoText
  <2>0. \A j \in S : j \in 1..n /\ j # 0
    OBVIOUS
  <2>1. \A j \in S : j # 0 /\ lines[j].key # NoText
    BY <2>0 DEF Tidy
  <2> HIDE DEF S, above
  <2> QED
    BY <1>4, <2>1
<1> HIDE DEF S
<1> QED
  BY <1>2, <1>3, <1>4, <1>5 DEF FullKey

(* One line. *)
LEMMA ConfigLineMeant ==
  ASSUME NEW lines, NEW n \in Nat, DOMAIN lines = 1..n, Tidy(lines), NEW i \in 1..n,
         NEW l, LoaderMeant(lines, i - 1, l), NEW m \in LoadConfigLine(l, lines[i])
  PROVE  LoaderMeant(lines, i, m)
<1>0. i \in Nat \ {0}
  OBVIOUS
<1>1. l.section = SectionUpTo(lines, i - 1) /\ l = [section |-> l.section, config |-> l.config]
  BY DEF LoaderMeant
<1>2. CASE lines[i].text = "blank"
  <2>1. m = l
    BY <1>2 DEF LoadConfigLine
  <2> QED
    BY <1>0, <1>2, <2>1, MeantAtLine DEF LoaderMeant
<1>3. CASE lines[i].text = "name"
  <2>0. OpensSection(lines[i]) /\ SectionName(lines[i]) = lines[i].key
    BY <1>3 DEF OpensSection, SectionName, Tidy
  <2>1. m = [l EXCEPT !.section = lines[i].key]
    BY <1>3, <2>0 DEF LoadConfigLine
  <2>2. m = [section |-> lines[i].key, config |-> l.config]
    BY <1>1, <2>1
  <2> QED
    BY <1>0, <1>3, <2>2, MeantAtLine DEF LoaderMeant
<1>4. CASE lines[i].text = "pair"
  <2>1. ~OpensSection(lines[i])
    BY <1>4 DEF Tidy
  <2> DEFINE key == MeantKey(lines, i)
  <2>2. FullKey(l.section, lines[i].key) = key
    BY <1>1, <1>4, KeyAtLine
  <2>3. SectionUpTo(lines, i) = l.section
    BY <1>0, <1>1, <1>4, MeantAtLine
  <2>4. CASE key \in DOMAIN Keys
    <3>1. PICK v \in ReadValue(key, lines[i]) : m = [l EXCEPT !.config[key] = v]
      BY <1>4, <2>1, <2>2, <2>4 DEF LoadConfigLine
    <3>2. m = [section |-> l.section, config |-> [l.config EXCEPT ![key] = v]]
      BY <1>1, <3>1
    <3>3. key \in DOMAIN l.config
      BY <2>4, KeysHaveDefaults DEF LoaderMeant
    <3>4. ASSUME NEW k \in DOMAIN Keys
          PROVE  m.config[k] \in ValueUpTo(lines, i, k)
      <4>1. CASE k = key
        BY <1>0, <1>4, <3>2, <3>3, <4>1, MeantAtLine
      <4>2. CASE k # key
        <5>1. m.config[k] = l.config[k]
          <6>1. k \in DOMAIN l.config
            BY KeysHaveDefaults DEF LoaderMeant
          <6> QED
            BY <3>2, <4>2, <6>1
        <5>2. ValueUpTo(lines, i, k) = ValueUpTo(lines, i - 1, k)
          BY <1>0, <4>2, MeantAtLine
        <5> QED
          BY <5>1, <5>2 DEF LoaderMeant
      <4> QED
        BY <4>1, <4>2
    <3>5. DOMAIN m.config = DOMAIN Defaults /\ m.section = l.section
      BY <3>2 DEF LoaderMeant
    <3> QED
      BY <2>3, <3>2, <3>4, <3>5 DEF LoaderMeant
  <2>5. CASE key \notin DOMAIN Keys
    <3>1. m = l
      BY <1>4, <2>1, <2>2, <2>5 DEF LoadConfigLine
    <3>2. \A k \in DOMAIN Keys : ValueUpTo(lines, i, k) = ValueUpTo(lines, i - 1, k)
      BY <1>0, <2>5, MeantAtLine
    <3> QED
      BY <1>1, <2>3, <3>1, <3>2 DEF LoaderMeant
  <2> QED
    BY <2>4, <2>5
<1>5. CASE lines[i].text \notin {"blank", "name", "pair"}
  BY <1>5 DEF LoadConfigLine
<1> QED
  BY <1>2, <1>3, <1>4, <1>5

(* All of them. *)
LEMMA LoadersMeant ==
  ASSUME NEW n \in Nat, NEW lines, Len(lines) = n, DOMAIN lines = 1..n, Tidy(lines),
         NEW after, ConfigLoaders(lines, after)
  PROVE  \A i \in 0..n : \A l \in after[i] : LoaderMeant(lines, i, l)
<1> DEFINE G == {i \in 0..n : \A l \in after[i] : LoaderMeant(lines, i, l)}
<1>2. 0 \in G
  <2>1. after[0] = {[section |-> NoText, config |-> Defaults]}
    BY DEF ConfigLoaders
  <2>2. 0 \in 0..n
    OBVIOUS
  <2>3. SectionUpTo(lines, 0) = NoText /\ \A key : ValueUpTo(lines, 0, key) = {Defaults[key]}
    BY DEF SectionUpTo, ValueUpTo, SaidUpTo, LastUpTo
  <2>4. \A l \in after[0] : LoaderMeant(lines, 0, l)
    <3> DEFINE l == [section |-> NoText, config |-> Defaults]
    <3>1. l.config = Defaults /\ l = [section |-> SectionUpTo(lines, 0), config |-> l.config]
      BY <2>3
    <3> HIDE DEF l
    <3>2. LoaderMeant(lines, 0, l)
      BY <2>3, <3>1, Zenon DEF LoaderMeant
    <3> QED
      BY <2>1, <3>2 DEF l
  <2> QED
    BY <2>2, <2>4
<1>3. ASSUME NEW i \in 1..n, i - 1 \in G
      PROVE  i \in G
  <2>1. ASSUME NEW m \in after[i]
        PROVE  LoaderMeant(lines, i, m)
    <3>1. PICK l \in after[i - 1] : m \in LoadConfigLine(l, lines[i])
      <4>1. after[i] = UNION {LoadConfigLine(l, lines[i]) : l \in after[i - 1]}
        BY DEF ConfigLoaders
      <4> QED
        BY <2>1, <4>1
    <3> QED
      BY <1>3, <3>1, ConfigLineMeant
  <2> QED
    BY <2>1
<1>4. G = 0..n
  <2> HIDE DEF G
  <2>1. G \in SUBSET (0..n)
    BY DEF G
  <2> QED
    BY <1>2, <1>3, <2>1, UpTo
<1> QED
  BY <1>4

(* The four kinds of keys. *)
LEMMA KindsOfValues == \A k \in DOMAIN Keys : Keys[k] \in {"bool", "text", "u16", "u32"}
<1> DEFINE Fine(f) == \A k \in DOMAIN f : f[k] \in {"bool", "text", "u16", "u32"}
<1>1. ASSUME NEW f, NEW g, Fine(f), Fine(g) PROVE Fine(f ++ g)
  BY <1>1 DEF ++
<1>2. \A S : \A kind \in {"bool", "text", "u16", "u32"} : Fine(Kind(kind, S))
  BY DEF Kind
<1> HIDE DEF Fine
<1>3. Fine(CaptureKeys) /\ Fine(TransportKeys) /\ Fine(RuntimeKeys) /\ Fine(HttpsKeys) /\ Fine(PatchKeys)
  BY <1>1, <1>2 DEF CaptureKeys, TransportKeys, RuntimeKeys, HttpsKeys, PatchKeys
<1>4. Fine(Keys)
  BY <1>1, <1>3 DEF Keys
<1> QED
  BY <1>4 DEF Fine

(* What the loader reads in a plain value is what a reader does. *)
LEMMA PlainIsMeant ==
  ASSUME NEW key \in DOMAIN Keys, NEW line, PlainValue(key, line), NEW v \in ReadValue(key, line)
  PROVE  v \in MeantValue(key, line)
<1>1. CASE Keys[key] = "text"
  BY <1>1 DEF PlainValue, ReadValue, MeantValue
<1>2. CASE Keys[key] = "bool"
  <2>1. v \in ParseBool(line.value) /\ MeantBytes(line.value) = line.value
    BY <1>2 DEF PlainValue, ReadValue
  <2> QED
    BY <1>2, <2>1 DEF MeantValue, ParseBool
<1>3. CASE Keys[key] \in {"u16", "u32"}
  <2>1. MeantBytes(line.value) = <<Digits>> /\ line.number \subseteq Nat
    BY <1>3 DEF PlainValue
  <2>2. PICK n \in line.number : v \in StoUl(n)
    BY <1>3 DEF ReadValue, ParseU16, ParseU32
  <2>3. n \in Nat
    BY <2>1
  <2>4. n < UlongModulus /\ v = n % UlongModulus
    BY <2>2 DEF StoUl
  <2>5. v = n
    BY <2>3, <2>4, NumberAssumption
  <2> QED
    BY <1>3, <2>1, <2>5 DEF MeantValue
<1> QED
  BY <1>1, <1>2, <1>3, KindsOfValues

(* For every key, what the last line about it says, if its value is plain, and
   the default where there is none. *)
AsMeant(c, lines) ==
  \A key \in DOMAIN Keys :
    LET says == Said(lines, key)
    IN  IF says = 0 THEN c[key] = Defaults[key]
        ELSE PlainValue(key, lines[says]) => c[key] \in MeantValue(key, lines[says])

(* A configuration that was loaded from a tidy file is the one that is meant. *)
LEMMA LoadedAsMeant ==
  ASSUME NEW n \in Nat, NEW lines, Len(lines) = n, DOMAIN lines = 1..n, Tidy(lines),
         NEW c \in LoadConfig({lines})
  PROVE  AsMeant(c, lines)
<1>1. PICK after : /\ ConfigLoaders(lines, after)
                   /\ LoadConfig({lines}) = {l.config : l \in after[n]}
  BY ConfigSteps
<1>2. PICK l \in after[n] : c = l.config
  BY <1>1
<1>3. LoaderMeant(lines, n, l)
  <2>1. n \in 0..n
    OBVIOUS
  <2> QED
    BY <1>1, <1>2, <2>1, LoadersMeant
<1>4. \A key \in DOMAIN Keys :
        c[key] \in IF Said(lines, key) = 0 THEN {Defaults[key]} ELSE ReadValue(key, lines[Said(lines, key)])
  BY <1>2, <1>3 DEF LoaderMeant, ValueUpTo, Said
<1> QED
  BY <1>4, PlainIsMeant DEF AsMeant

(* A tidy file is given up on only where a line says nothing, or says
   something that cannot be read. *)
LEMMA GivenUpForCause ==
  ASSUME NEW n \in Nat, NEW lines, Len(lines) = n, DOMAIN lines = 1..n, Tidy(lines),
         \A i \in 1..n : /\ lines[i].text \in {"blank", "name", "pair"}
                         /\ lines[i].text = "pair" /\ MeantKey(lines, i) \in DOMAIN Keys
                              => ReadValue(MeantKey(lines, i), lines[i]) # {}
  PROVE  LoadConfig({lines}) # {}
<1>1. PICK after : /\ ConfigLoaders(lines, after)
                   /\ LoadConfig({lines}) = {l.config : l \in after[n]}
  BY ConfigSteps
<1>2. \A i \in 0..n : \A l \in after[i] : LoaderMeant(lines, i, l)
  BY <1>1, LoadersMeant
<1> DEFINE G == {i \in 0..n : after[i] # {}}
<1>3. 0 \in G
  <2>1. after[0] = {[section |-> NoText, config |-> Defaults]}
    BY <1>1 DEF ConfigLoaders
  <2>2. 0 \in 0..n
    OBVIOUS
  <2> QED
    BY <2>1, <2>2
<1>4. ASSUME NEW i \in 1..n, i - 1 \in G
      PROVE  i \in G
  <2>1. PICK l \in after[i - 1] : LoaderMeant(lines, i - 1, l)
    BY <1>2, <1>4
  <2>2. after[i] = UNION {LoadConfigLine(k, lines[i]) : k \in after[i - 1]}
    BY <1>1 DEF ConfigLoaders
  <2>3. LoadConfigLine(l, lines[i]) # {}
    <3>1. CASE lines[i].text \in {"blank", "name"}
      <4>1. lines[i].text = "name" => OpensSection(lines[i])
        BY DEF OpensSection, Tidy
      <4> QED
        BY <3>1, <4>1 DEF LoadConfigLine
    <3>2. CASE lines[i].text = "pair"
      <4>1. ~OpensSection(lines[i])
        BY <3>2 DEF Tidy
      <4>2. FullKey(l.section, lines[i].key) = MeantKey(lines, i)
        BY <2>1, <3>2, KeyAtLine DEF LoaderMeant
      <4>3. MeantKey(lines, i) \in DOMAIN Keys => ReadValue(MeantKey(lines, i), lines[i]) # {}
        BY <3>2
      <4> QED
        BY <3>2, <4>1, <4>2, <4>3 DEF LoadConfigLine
    <3> QED
      BY <3>1, <3>2
  <2> QED
    BY <2>2, <2>3
<1>5. n \in G
  <2> HIDE DEF G
  <2>1. G \in SUBSET (0..n)
    BY DEF G
  <2> QED
    BY <1>3, <1>4, <2>1, UpTo
<1> QED
  BY <1>1, <1>5

(* A file is none, or its lines. *)
LEMMA FileLines ==
  ASSUME setup \in Setups, NEW path
  PROVE  \/ File(path) = {}
         \/ \E lines : \E n \in Nat :
              /\ File(path) = {lines} /\ Len(lines) = n /\ DOMAIN lines = 1..n
              /\ \A i \in 1..n : IsRuleLine(lines[i])
<1>1. CASE path \in DOMAIN setup.disk
  <2>1. PICK lines : lines = setup.disk[path]
    OBVIOUS
  <2>2. File(path) = {lines}
    BY <1>1, <2>1 DEF File
  <2>3. lines \in Seq(Range(lines)) /\ \A i \in DOMAIN lines : IsRuleLine(lines[i])
    BY <1>1, <2>1, FilesAssumption
  <2>4. Len(lines) \in Nat /\ DOMAIN lines = 1..Len(lines)
    BY <2>3, LenProperties
  <2> QED
    BY <2>2, <2>3, <2>4
<1>2. CASE path \notin DOMAIN setup.disk
  BY <1>2 DEF File
<1> QED
  BY <1>1, <1>2

(* The rules that a file may make. *)
RuleKeys == DOMAIN EmptyRule(NoText)
HeaderSets == UNION {[D -> Nat] : D \in SUBSET STRING}
Texts == STRING \cup {NoText}
RuleValue(key) ==
  IF key \in {"name", "protocol", "direction"} THEN Texts
  ELSE IF key \in {"host_contains", "method", "path_contains", "process"} THEN Nat
  ELSE IF key \in ByteKeys THEN Seq(Token)
  ELSE IF key = "remote_port" THEN 0..PortMax
  ELSE HeaderSets
RuleValues == UNION {RuleValue(key) : key \in RuleKeys}
RuleSet == {r \in [RuleKeys -> RuleValues] : \A key \in RuleKeys : r[key] \in RuleValue(key)}

LEMMA KeysOfRules ==
  /\ RuleKeys = {"name", "header_set", "remote_port"} \cup WordKeys \cup ByteKeys
  /\ \A name : /\ DOMAIN EmptyRule(name) = RuleKeys
               /\ EmptyRule(name) = [key \in RuleKeys |-> EmptyRule(name)[key]]
<1>1. DOMAIN EmptyRule(NoText) = {"name", "header_set", "remote_port"} \cup WordKeys \cup ByteKeys
  BY DEF EmptyRule, WordKeys, ByteKeys
<1>2. ASSUME NEW name
      PROVE  /\ DOMAIN EmptyRule(name) = DOMAIN EmptyRule(NoText)
             /\ EmptyRule(name) = [key \in DOMAIN EmptyRule(NoText) |-> EmptyRule(name)[key]]
  BY DEF EmptyRule
<1> QED
  BY <1>1, <1>2 DEF RuleKeys

(* A rule is known by its values. *)
LEMMA RuleByValues ==
  ASSUME NEW r, DOMAIN r = RuleKeys, r = [key \in RuleKeys |-> r[key]],
         \A key \in RuleKeys : r[key] \in RuleValue(key)
  PROVE  r \in RuleSet
<1>1. \A key \in RuleKeys : r[key] \in RuleValues
  BY DEF RuleValues
<1>2. r \in [RuleKeys -> RuleValues]
  BY <1>1
<1> QED
  BY <1>2 DEF RuleSet

LEMMA ValueOfKey ==
  /\ \A key \in {"name", "protocol", "direction"} : RuleValue(key) = Texts
  /\ \A key \in {"host_contains", "method", "path_contains", "process"} : RuleValue(key) = Nat
  /\ \A key \in ByteKeys : RuleValue(key) = Seq(Token)
  /\ RuleValue("remote_port") = 0..PortMax
  /\ RuleValue("header_set") = HeaderSets
<1>1. \A key \in {"name", "protocol", "direction"} : RuleValue(key) = Texts
  BY DEF RuleValue
<1>2. \A key \in {"host_contains", "method", "path_contains", "process"} : RuleValue(key) = Nat
  BY DEF RuleValue
<1>3. \A key \in ByteKeys : RuleValue(key) = Seq(Token)
  <2>1. \A key \in ByteKeys : key \notin {"name", "protocol", "direction", "host_contains", "method",
                                        "path_contains", "process"}
    BY DEF ByteKeys
  <2> QED
    BY <2>1 DEF RuleValue
<1>4. RuleValue("remote_port") = 0..PortMax
  BY DEF RuleValue, ByteKeys
<1>5. RuleValue("header_set") = HeaderSets
  BY DEF RuleValue, ByteKeys
<1> QED
  BY <1>1, <1>2, <1>3, <1>4, <1>5

LEMMA EmptyRuleTyped ==
  ASSUME NEW name \in STRING
  PROVE  EmptyRule(name) \in RuleSet
<1>0. 0 \in 0..PortMax /\ 0 \in Nat
  BY NumberAssumption
<1>1. <<>> \in HeaderSets
  <2>1. <<>> \in [{} -> Nat] /\ {} \in SUBSET STRING
    OBVIOUS
  <2> QED
    BY <2>1 DEF HeaderSets
<1>2. <<>> \in Seq(Token)
  OBVIOUS
<1>4. /\ EmptyRule(name).name = name /\ EmptyRule(name).protocol = NoText
      /\ EmptyRule(name).direction = NoText /\ EmptyRule(name).host_contains = 0
      /\ EmptyRule(name).method = 0 /\ EmptyRule(name).path_contains = 0
      /\ EmptyRule(name).process = 0 /\ EmptyRule(name).remote_port = 0
      /\ EmptyRule(name).header_set = <<>> /\ EmptyRule(name).text_find = <<>>
      /\ EmptyRule(name).text_replace = <<>> /\ EmptyRule(name).hex_find = <<>>
      /\ EmptyRule(name).hex_replace = <<>> /\ EmptyRule(name).body_find = <<>>
      /\ EmptyRule(name).body_replace = <<>>
  BY DEF EmptyRule
<1>5. PICK r : r = EmptyRule(name)
  OBVIOUS
<1>7. ASSUME NEW key \in RuleKeys
      PROVE  r[key] \in RuleValue(key)
  <2>1. CASE key \in {"name", "protocol", "direction"}
    BY <1>4, <1>5, <2>1, ValueOfKey DEF Texts
  <2>2. CASE key \in {"host_contains", "method", "path_contains", "process"}
    BY <1>0, <1>4, <1>5, <2>2, ValueOfKey
  <2>3. CASE key \in ByteKeys
    <3>1. r[key] = <<>>
      BY <1>4, <1>5, <2>3 DEF ByteKeys
    <3>2. RuleValue(key) = Seq(Token)
      BY <2>3, ValueOfKey
    <3> QED
      BY <1>2, <3>1, <3>2
  <2>4. CASE key = "remote_port"
    BY <1>0, <1>4, <1>5, <2>4, ValueOfKey
  <2>5. CASE key = "header_set"
    BY <1>1, <1>4, <1>5, <2>5, ValueOfKey
  <2> QED
    BY <2>1, <2>2, <2>3, <2>4, <2>5, KeysOfRules DEF WordKeys
<1> QED
  BY <1>7, <1>4, <1>5, KeysOfRules, RuleByValues

(* The text of a line, read, is a text. *)
LEMMA BytesTyped ==
  ASSUME NEW text \in Seq(Token)
  PROVE  Unquote(StripComment(text)) \in Seq(Token)
<1> DEFINE I == {i \in 1..Len(text) : text[i] = Hash}
           at == IF I = {} THEN 0 ELSE Min(I)
<1>1. at \in 0..Len(text)
  <2>1. I \in SUBSET Nat
    OBVIOUS
  <2>2. I # {} => Min(I) \in I
    BY <2>1, SmallestExists
  <2> QED
    BY <2>2
<1>2. StripComment(text) = IF at = 0 THEN text ELSE SubSeq(text, 1, at - 1)
  BY DEF StripComment, SelectInSeq
<1>3. StripComment(text) \in Seq(Token)
  <2> HIDE DEF at
  <2> QED
    BY <1>1, <1>2
<1>4. PICK stripped \in Seq(Token) : stripped = StripComment(text)
  BY <1>3
<1>5. Unquote(stripped) \in Seq(Token)
  BY DEF Unquote
<1> QED
  BY <1>4, <1>5

(* One key of a rule is set: it alone changes, to what the line says. *)
SettingOf(rule, key, value) ==
  CASE key \in WordKeys -> {value}
    [] key \in ByteKeys -> {Unquote(StripComment(value))}
    [] key = "remote_port" -> ParseU16(value)
    [] key = "header_set" /\ value.name # NoText -> {Only(value.name, value.n) ++ rule.header_set}
    [] OTHER -> {}

LEMMA KeySet ==
  ASSUME NEW r \in RuleSet, NEW key, NEW value
  PROVE  /\ SetKey(r, key, value) = {[r EXCEPT ![key] = v] : v \in SettingOf(r, key, value)}
         /\ SettingOf(r, key, value) # {} => key \in RuleKeys \ {"name"}
<1> DEFINE With(S) == {[r EXCEPT ![key] = v] : v \in S}
<1>1. \A v : With({v}) = {[r EXCEPT ![key] = v]}
  OBVIOUS
<1>2. With({}) = {}
  OBVIOUS
<1> HIDE DEF With
<1>3. SetKey(r, key, value) = With(SettingOf(r, key, value))
  <2>1. CASE key \in WordKeys
    <3>1. SettingOf(r, key, value) = {value}
      BY <2>1 DEF SettingOf, ByteKeys, WordKeys
    <3>2. SetKey(r, key, value) = {[r EXCEPT ![key] = value]}
      BY <2>1 DEF SetKey
    <3> QED
      BY <1>1, <3>1, <3>2
  <2>2. CASE key \in ByteKeys /\ key \notin WordKeys
    <3>1. PICK v : v = Unquote(StripComment(value))
      OBVIOUS
    <3>2. SettingOf(r, key, value) = {v}
      BY <2>2, <3>1 DEF SettingOf, ByteKeys, WordKeys
    <3>3. SetKey(r, key, value) = {[r EXCEPT ![key] = v]}
      BY <2>2, <3>1 DEF SetKey
    <3> QED
      BY <1>1, <3>2, <3>3
  <2>3. CASE key = "remote_port" /\ key \notin WordKeys /\ key \notin ByteKeys
    <3>1. SettingOf(r, key, value) = ParseU16(value)
      BY <2>3 DEF SettingOf
    <3>2. SetKey(r, key, value) = {[r EXCEPT !["remote_port"] = n] : n \in ParseU16(value)}
      BY <2>3 DEF SetKey
    <3> QED
      BY <2>3, <3>1, <3>2 DEF With
  <2>4. CASE key = "header_set" /\ key \notin WordKeys /\ key \notin ByteKeys
    <3>1. CASE value.name = NoText
      BY <1>2, <2>4, <3>1 DEF SetKey, SettingOf
    <3>2. CASE value.name # NoText
      <4>1. PICK v : v = Only(value.name, value.n) ++ r.header_set
        OBVIOUS
      <4>2. SetKey(r, key, value) = {[r EXCEPT !["header_set"] = v]}
        BY <2>4, <3>2, <4>1 DEF SetKey
      <4>3. SettingOf(r, key, value) = {v}
        BY <2>4, <3>2, <4>1 DEF SettingOf
      <4> QED
        BY <1>1, <2>4, <4>2, <4>3
    <3> QED
      BY <3>1, <3>2
  <2>5. CASE key \notin WordKeys /\ key \notin ByteKeys /\ key # "remote_port" /\ key # "header_set"
    BY <1>2, <2>5 DEF SetKey, SettingOf
  <2> QED
    BY <2>1, <2>2, <2>3, <2>4, <2>5
<1>4. SettingOf(r, key, value) # {} => key \in RuleKeys \ {"name"}
  <2>1. SettingOf(r, key, value) # {} => key \in WordKeys \cup ByteKeys \cup {"remote_port", "header_set"}
    BY DEF SettingOf
  <2> QED
    BY <2>1, KeysOfRules DEF WordKeys, ByteKeys
<1> QED
  BY <1>3, <1>4 DEF With

LEMMA SettingTyped ==
  ASSUME NEW r \in RuleSet, NEW line, line.text = "set", IsRuleLine(line),
         NEW v \in SettingOf(r, line.key, line.value)
  PROVE  v \in RuleValue(line.key)
<1>1. CASE line.key \in WordKeys
  BY <1>1 DEF SettingOf, IsRuleLine, RuleValue, Texts, WordKeys, ByteKeys
<1>2. CASE line.key \in ByteKeys
  <2>1. v = Unquote(StripComment(line.value)) /\ line.value \in Seq(Token)
    BY <1>2 DEF SettingOf, IsRuleLine, WordKeys, ByteKeys
  <2> QED
    BY <1>2, <2>1, BytesTyped DEF RuleValue, ByteKeys
<1>3. CASE line.key = "remote_port"
  <2>1. v \in ParseU16(line.value) /\ line.value \in Int
    BY <1>3 DEF SettingOf, IsRuleLine, WordKeys, ByteKeys
  <2>2. v \in 0..PortMax
    <3>1. v = line.value % UlongModulus /\ v <= PortMax
      BY <2>1 DEF ParseU16, StoUl
    <3> QED
      BY <2>1, <3>1, NumberAssumption
  <2> QED
    BY <1>3, <2>2 DEF RuleValue, ByteKeys
<1>4. CASE line.key = "header_set"
  <2>1. /\ v = Only(line.value.name, line.value.n) ++ r.header_set
        /\ line.value.name \in STRING /\ line.value.n \in Nat
    BY <1>4 DEF SettingOf, IsRuleLine, WordKeys, ByteKeys
  <2>2. r.header_set \in HeaderSets
    <3>1. "header_set" \in RuleKeys
      BY KeysOfRules
    <3> QED
      BY <3>1 DEF RuleSet, RuleValue, ByteKeys
  <2>3. PICK D \in SUBSET STRING : r.header_set \in [D -> Nat]
    BY <2>2 DEF HeaderSets
  <2>4. v \in [D \cup {line.value.name} -> Nat] /\ D \cup {line.value.name} \in SUBSET STRING
    BY <2>1, <2>3 DEF ++, Only
  <2>5. v \in HeaderSets
    BY <2>4 DEF HeaderSets
  <2> QED
    BY <1>4, <2>5 DEF RuleValue, ByteKeys
<1> QED
  BY <1>1, <1>2, <1>3, <1>4 DEF SettingOf

(* The rule stays one that a file may make. *)
LEMMA SetKeyTyped ==
  ASSUME NEW r \in RuleSet, NEW line, line.text = "set", IsRuleLine(line)
  PROVE  SetKey(r, line.key, line.value) \in SUBSET RuleSet
<1> SUFFICES ASSUME NEW v \in SettingOf(r, line.key, line.value)
             PROVE  [r EXCEPT ![line.key] = v] \in RuleSet
  BY KeySet
<1>1. v \in RuleValue(line.key) /\ line.key \in RuleKeys
  BY KeySet, SettingTyped
<1>2. PICK m : m = [r EXCEPT ![line.key] = v]
  OBVIOUS
<1>3. r \in [RuleKeys -> RuleValues] /\ \A key \in RuleKeys : r[key] \in RuleValue(key)
  BY DEF RuleSet
<1>4. /\ DOMAIN m = RuleKeys /\ m = [key \in RuleKeys |-> m[key]]
      /\ \A key \in RuleKeys : m[key] = IF key = line.key THEN v ELSE r[key]
  BY <1>2, <1>3
<1> QED
  BY <1>1, <1>2, <1>3, <1>4, RuleByValues

(* The loader of the rules, line by line. *)
RuleLoaderSet == [rules : Seq(RuleSet), block : SUBSET RuleSet]

RuleLoaders(lines, after) ==
  /\ after[0] = {[rules |-> <<>>, block |-> {}]}
  /\ \A i \in 1..Len(lines) : after[i] = UNION {LoadRuleLine(l, lines[i]) : l \in after[i - 1]}

LEMMA RuleLineTyped ==
  ASSUME NEW l \in RuleLoaderSet, NEW line, IsRuleLine(line)
  PROVE  LoadRuleLine(l, line) \in SUBSET RuleLoaderSet
<1>1. CASE line.text = "rule"
  <2>1. EmptyRule(line.name) \in RuleSet
    BY <1>1, EmptyRuleTyped DEF IsRuleLine
  <2>2. [l EXCEPT !.block = {EmptyRule(line.name)}] \in RuleLoaderSet
    <3>1. PICK e \in RuleSet : e = EmptyRule(line.name)
      BY <2>1
    <3> QED
      BY <3>1 DEF RuleLoaderSet
  <2> QED
    BY <1>1, <2>2 DEF LoadRuleLine
<1>2. CASE line.text = "close"
  <2>1. ASSUME NEW r \in l.block
        PROVE  [rules |-> Append(l.rules, r), block |-> {}] \in RuleLoaderSet
    BY DEF RuleLoaderSet
  <2> QED
    BY <1>2, <2>1 DEF LoadRuleLine
<1>3. CASE line.text = "set"
  <2>1. ASSUME NEW b \in l.block, NEW r \in SetKey(b, line.key, line.value)
        PROVE  [l EXCEPT !.block = {r}] \in RuleLoaderSet
    <3>1. b \in RuleSet
      BY DEF RuleLoaderSet
    <3>2. r \in RuleSet
      BY <1>3, <3>1, SetKeyTyped
    <3> QED
      BY <3>2 DEF RuleLoaderSet
  <2>2. LoadRuleLine(l, line) =
          {[l EXCEPT !.block = {r}] : r \in UNION {SetKey(b, line.key, line.value) : b \in l.block}}
    BY <1>3 DEF LoadRuleLine
  <2> QED
    BY <2>1, <2>2
<1>4. CASE line.text \notin {"rule", "close", "set"}
  BY <1>4 DEF LoadRuleLine
<1> QED
  BY <1>1, <1>2, <1>3, <1>4

LEMMA RuleSteps ==
  ASSUME NEW n \in Nat, NEW lines, Len(lines) = n, DOMAIN lines = 1..n,
         \A i \in 1..n : IsRuleLine(lines[i])
  PROVE  \E after : /\ RuleLoaders(lines, after)
                    /\ \A i \in 0..n : after[i] \in SUBSET RuleLoaderSet
                    /\ LoadRules({lines}) = {l.rules : l \in {l \in after[n] : l.block = {}}}
<1> DEFINE base == {[rules |-> <<>>, block |-> {}]}
           op(ls, i) == UNION {LoadRuleLine(l, lines[i]) : l \in ls}
           step == [p \in (1..n) \X SUBSET RuleLoaderSet |-> op(p[2], p[1])]
<1>1. base \in SUBSET RuleLoaderSet
  BY DEF RuleLoaderSet
<1>2. step \in [(1..n) \X SUBSET RuleLoaderSet -> SUBSET RuleLoaderSet]
  <2>1. \A l \in RuleLoaderSet : \A i \in 1..n : LoadRuleLine(l, lines[i]) \in SUBSET RuleLoaderSet
    BY RuleLineTyped
  <2>2. \A p \in (1..n) \X SUBSET RuleLoaderSet : op(p[2], p[1]) \in SUBSET RuleLoaderSet
    BY <2>1
  <2> QED
    BY <2>2
<1>3. PICK f : FoldTable(n, SUBSET RuleLoaderSet, base, step, f)
  BY <1>1, <1>2, FoldExists
<1> DEFINE Entry(g, s) == IF s = {} THEN base ELSE op(g[s \ {Max(s)}], Max(s))
           table == CHOOSE g : g = [s \in SUBSET (1..n) |-> Entry(g, s)]
<1>4. f = [s \in SUBSET (1..n) |-> Entry(f, s)]
  <2>1. ASSUME NEW s \in SUBSET (1..n), s # {}
        PROVE  step[<<Max(s), f[s \ {Max(s)}]>>] = op(f[s \ {Max(s)}], Max(s))
    <3>1. Max(s) \in 1..n /\ f[s \ {Max(s)}] \in SUBSET RuleLoaderSet
      BY <1>3, <2>1 DEF FoldTable
    <3> HIDE DEF op
    <3> QED
      BY <3>1
  <2>2. \A s \in SUBSET (1..n) : f[s] = Entry(f, s)
    <3> HIDE DEF op, step, base
    <3> QED
      BY <1>3, <2>1 DEF FoldTable
  <2> HIDE DEF Entry
  <2> QED
    BY <1>3, <2>2 DEF FoldTable
<1>5. table = [s \in SUBSET (1..n) |-> Entry(table, s)]
  <2> HIDE DEF Entry
  <2> QED
    BY <1>4
<1>6. LoadRules({lines}) = {l.rules : l \in {l \in table[1..n] : l.block = {}}}
  <2> DEFINE Read(ls) == FoldLeft(LAMBDA x, line : UNION {LoadRuleLine(l, line) : l \in x}, base, ls)
  <2>1. Read(lines) = table[1..n]
    BY DEF FoldLeft, MapThenFoldSet
  <2>2. LoadRules({lines}) = {l.rules : l \in {l \in UNION {Read(ls) : ls \in {lines}} : l.block = {}}}
    BY DEF LoadRules
  <2> HIDE DEF Read, table
  <2> QED
    BY <2>1, <2>2
<1> HIDE DEF table
<1>7. PICK after : Runs(n, table, after)
  BY RunsFromOne
<1>8. after[0] = base
  <2> HIDE DEF op, base
  <2> QED
    BY <1>5, <1>7 DEF Runs
<1>9. ASSUME NEW i \in 1..n
      PROVE  after[i] = op(after[i - 1], i)
  <2>1. table[1..i] = op(table[(1..i) \ {Max(1..i)}], Max(1..i))
    <3> HIDE DEF op, base
    <3> QED
      BY <1>5, <1>7 DEF Runs
  <2> HIDE DEF op
  <2> QED
    BY <1>7, <2>1 DEF Runs
<1>10. RuleLoaders(lines, after)
  BY <1>8, <1>9 DEF RuleLoaders
<1>11. \A i \in 0..n : after[i] \in SUBSET RuleLoaderSet
  <2> DEFINE G == {i \in 0..n : after[i] \in SUBSET RuleLoaderSet}
  <2>1. 0 \in G
    <3>1. 0 \in 0..n
      OBVIOUS
    <3> HIDE DEF base
    <3> QED
      BY <1>1, <1>8, <3>1
  <2>2. ASSUME NEW i \in 1..n, i - 1 \in G
        PROVE  i \in G
    BY <1>9, <2>2, RuleLineTyped
  <2> HIDE DEF G
  <2>3. G = 0..n
    <3>1. G \in SUBSET (0..n)
      BY DEF G
    <3> QED
      BY <2>1, <2>2, <3>1, UpTo
  <2> QED
    BY <2>3 DEF G
<1> QED
  BY <1>6, <1>7, <1>10, <1>11 DEF Runs

(* One line further on in a file of rules. *)
LEMMA PlacesAtLine ==
  ASSUME NEW lines, NEW i \in Nat \ {0}
  PROVE  /\ Opened(lines, i + 1) = IF lines[i].text = "rule" THEN i ELSE Opened(lines, i)
         /\ Closed(lines, i + 1) = IF lines[i].text = "close" THEN i ELSE Closed(lines, i)
         /\ Opened(lines, i) \in 0..(i - 1) /\ Closed(lines, i) \in 0..(i - 1)
<1>1. ASSUME NEW word
      PROVE  LET found(k) == {j \in 1..k : lines[j].text = word}
                 last(k) == IF found(k) = {} THEN 0 ELSE Max(found(k))
             IN  /\ last(i) = IF lines[i].text = word THEN i ELSE last(i - 1)
                 /\ last(i - 1) \in 0..(i - 1)
  <2> DEFINE S(k) == {j \in 1..k : lines[j].text = word}
             last(k) == IF S(k) = {} THEN 0 ELSE Max(S(k))
  <2>1. \A k : last(k) = IF S(k) = {} THEN 0 ELSE Max(S(k))
    OBVIOUS
  <2>2. S(i) \in SUBSET (1..i)
    OBVIOUS
  <2>3. i \in 1..i /\ (i \in S(i) <=> lines[i].text = word)
    OBVIOUS
  <2>4. i \notin S(i) => S(i) = S(i - 1)
    OBVIOUS
  <2>5. S(i - 1) # {} => Max(S(i - 1)) \in 0..(i - 1)
    <3>1. S(i - 1) \in SUBSET (0..(i - 1)) /\ i - 1 \in Nat
      OBVIOUS
    <3> HIDE DEF S
    <3>2. S(i - 1) # {} => Max(S(i - 1)) \in S(i - 1)
      BY <3>1, LargestExists
    <3> QED
      BY <3>1, <3>2
  <2>6. 0 \in 0..(i - 1)
    OBVIOUS
  <2> HIDE DEF S, last
  <2>7. i \in S(i) => S(i) # {} /\ Max(S(i)) = i
    BY <2>2, LastPlace
  <2>8. /\ last(i) = IF lines[i].text = word THEN i ELSE last(i - 1)
        /\ last(i - 1) \in 0..(i - 1)
    BY <2>1, <2>3, <2>4, <2>5, <2>6, <2>7
  <2> QED
    BY <2>8 DEF last, S
<1>2. (i + 1) - 1 = i
  OBVIOUS
<1>3. /\ Opened(lines, i + 1) = IF lines[i].text = "rule" THEN i ELSE Opened(lines, i)
      /\ Opened(lines, i) \in 0..(i - 1)
  BY <1>1, <1>2, Zenon DEF Opened, LastUpTo
<1>4. /\ Closed(lines, i + 1) = IF lines[i].text = "close" THEN i ELSE Closed(lines, i)
      /\ Closed(lines, i) \in 0..(i - 1)
  BY <1>1, <1>2, Zenon DEF Closed, LastUpTo
<1> QED
  BY <1>3, <1>4

LEMMA SaysAtLine ==
  ASSUME NEW lines, NEW i \in Nat \ {0}, NEW from \in 1..i, NEW key
  PROVE  /\ Says(lines, from, i, key) \in SUBSET (1..i)
         /\ i \in Says(lines, from, i, key) <=> lines[i].text = "set" /\ lines[i].key = key
         /\ Says(lines, from, i, key) \ {i} = Says(lines, from, i - 1, key)
         /\ i \in Says(lines, from, i, key) => Max(Says(lines, from, i, key)) = i
<1>1. /\ Says(lines, from, i, key) \in SUBSET (1..i)
      /\ i \in Says(lines, from, i, key) <=> lines[i].text = "set" /\ lines[i].key = key
      /\ Says(lines, from, i, key) \ {i} = Says(lines, from, i - 1, key)
  BY DEF Says
<1> QED
  BY <1>1, LastPlace

(* A key of the rule that is meant depends on what the block says about it. *)
MeantHeaders(lines, S) ==
  [h \in {lines[i].value.name : i \in S} |-> lines[Max({i \in S : lines[i].value.name = h})].value.n]

MeantOfKey(lines, from, S, key) ==
  IF key = "name" THEN lines[from].name
  ELSE IF key = "header_set" THEN MeantHeaders(lines, S)
  ELSE IF key \in ByteKeys THEN IF S = {} THEN <<>> ELSE MeantBytes(lines[Max(S)].value)
  ELSE IF S = {} THEN EmptyRule(NoText)[key] ELSE lines[Max(S)].value

LEMMA RuleMeant ==
  ASSUME NEW lines, NEW from, NEW to
  PROVE  MeantRule(lines, from, to) =
           [key \in RuleKeys |-> MeantOfKey(lines, from, Says(lines, from, to, key), key)]
<1> DEFINE Of(key, default) ==
             LET says == Says(lines, from, to, key) IN IF says = {} THEN default ELSE lines[Max(says)].value
           BytesOf(key, default) ==
             LET says == Says(lines, from, to, key)
             IN  IF says = {} THEN default ELSE MeantBytes(lines[Max(says)].value)
           HeadersOf(key) ==
             [h \in {lines[i].value.name : i \in Says(lines, from, to, key)} |->
                lines[Max({i \in Says(lines, from, to, key) : lines[i].value.name = h})].value.n]
           empty == EmptyRule(lines[from].name)
           Value(key) ==
             CASE key \in WordKeys -> Of(key, empty[key])
               [] key \in ByteKeys -> BytesOf(key, empty[key])
               [] key = "remote_port" -> Of(key, 0)
               [] key = "header_set" -> HeadersOf(key)
               [] OTHER -> empty[key]
<1>1. MeantRule(lines, from, to) = [key \in DOMAIN EmptyRule(lines[from].name) |-> Value(key)]
  BY DEF MeantRule
<1> HIDE DEF Of, BytesOf, HeadersOf, empty
<1>2. ASSUME NEW key \in RuleKeys
      PROVE  Value(key) = MeantOfKey(lines, from, Says(lines, from, to, key), key)
  <2>1. CASE key = "name"
    <3>1. key \notin WordKeys /\ key \notin ByteKeys
      BY <2>1 DEF WordKeys, ByteKeys
    <3>2. Value(key) = empty[key]
      BY <2>1, <3>1
    <3>3. EmptyRule(lines[from].name).name = lines[from].name
      BY DEF EmptyRule
    <3> HIDE DEF Value
    <3> QED
      BY <2>1, <3>2, <3>3 DEF MeantOfKey, empty
  <2>2. CASE key = "header_set"
    <3>1. key \notin WordKeys /\ key \notin ByteKeys
      BY <2>2 DEF WordKeys, ByteKeys
    <3>2. Value(key) = HeadersOf(key)
      BY <2>2, <3>1
    <3> HIDE DEF Value
    <3> QED
      BY <2>2, <3>2 DEF MeantOfKey, MeantHeaders, HeadersOf
  <2>3. CASE key \in ByteKeys
    <3>1. key \notin WordKeys /\ key \notin {"name", "header_set", "remote_port"}
      BY <2>3 DEF WordKeys, ByteKeys
    <3>2. Value(key) = BytesOf(key, empty[key])
      BY <2>3, <3>1
    <3>3. EmptyRule(lines[from].name)[key] = <<>>
      BY <2>3 DEF EmptyRule, ByteKeys
    <3> HIDE DEF Value
    <3> QED
      BY <2>3, <3>1, <3>2, <3>3 DEF MeantOfKey, BytesOf, empty
  <2>4. CASE key \in WordKeys
    <3>1. key \notin ByteKeys /\ key \notin {"name", "header_set", "remote_port"}
      BY <2>4 DEF WordKeys, ByteKeys
    <3>2. Value(key) = Of(key, empty[key])
      BY <2>4, <3>1
    <3>3. EmptyRule(lines[from].name)[key] = EmptyRule(NoText)[key]
      BY <2>4 DEF EmptyRule, WordKeys
    <3> HIDE DEF Value
    <3> QED
      BY <3>1, <3>2, <3>3 DEF MeantOfKey, Of, empty
  <2>5. CASE key = "remote_port"
    <3>1. key \notin ByteKeys /\ key \notin WordKeys
      BY <2>5 DEF WordKeys, ByteKeys
    <3>2. Value(key) = Of(key, 0)
      BY <2>5, <3>1
    <3>3. EmptyRule(NoText)[key] = 0
      BY <2>5 DEF EmptyRule
    <3> HIDE DEF Value
    <3> QED
      BY <2>5, <3>1, <3>2, <3>3 DEF MeantOfKey, Of
  <2> QED
    BY <2>1, <2>2, <2>3, <2>4, <2>5, KeysOfRules
<1> HIDE DEF Value
<1> QED
  BY <1>1, <1>2, KeysOfRules

LEMMA HeadersAtLine ==
  ASSUME NEW lines, NEW i \in Nat \ {0}, NEW S \in SUBSET (1..i), i \in S
  PROVE  MeantHeaders(lines, S) =
           Only(lines[i].value.name, lines[i].value.n) ++ MeantHeaders(lines, S \ {i})
<1> DEFINE Name(j) == lines[j].value.name
           About(R, h) == {j \in R : Name(j) = h}
<1>1. \A R : MeantHeaders(lines, R) = [h \in {Name(j) : j \in R} |-> lines[Max(About(R, h))].value.n]
  BY DEF MeantHeaders
<1>2. PICK new : new = Only(Name(i), lines[i].value.n)
  OBVIOUS
<1>3. new = [h \in {Name(i)} |-> lines[i].value.n]
  BY <1>2 DEF Only
<1>4. PICK old : old = MeantHeaders(lines, S \ {i})
  OBVIOUS
<1>5. Max(About(S, Name(i))) = i
  <2>1. About(S, Name(i)) \in SUBSET (1..i) /\ i \in About(S, Name(i))
    OBVIOUS
  <2> HIDE DEF About
  <2> QED
    BY <2>1, LastPlace
<1>6. \A h : h # Name(i) => About(S, h) = About(S \ {i}, h)
  OBVIOUS
<1>7. {Name(j) : j \in S} = {Name(i)} \cup {Name(j) : j \in S \ {i}}
  OBVIOUS
<1>8. new ++ old = [h \in {Name(j) : j \in S} |-> IF h = Name(i) THEN lines[i].value.n
                                                  ELSE lines[Max(About(S \ {i}, h))].value.n]
  <2>1. DOMAIN new = {Name(i)} /\ new[Name(i)] = lines[i].value.n
    BY <1>3
  <2>2. /\ DOMAIN old = {Name(j) : j \in S \ {i}}
        /\ \A h \in DOMAIN old : old[h] = lines[Max(About(S \ {i}, h))].value.n
    <3> HIDE DEF Name, About
    <3> QED
      BY <1>1, <1>4
  <2> HIDE DEF Name, About
  <2> QED
    BY <1>7, <2>1, <2>2 DEF ++
<1>9. \A h : lines[Max(About(S, h))].value.n = IF h = Name(i) THEN lines[i].value.n
                                                ELSE lines[Max(About(S \ {i}, h))].value.n
  <2> HIDE DEF Name, About
  <2> QED
    BY <1>5, <1>6
<1>10. MeantHeaders(lines, S) = new ++ old
  <2> DEFINE names == {Name(j) : j \in S}
             value(h) == lines[Max(About(S, h))].value.n
             also(h) == IF h = Name(i) THEN lines[i].value.n
                        ELSE lines[Max(About(S \ {i}, h))].value.n
  <2>1. MeantHeaders(lines, S) = [h \in names |-> value(h)]
    BY <1>1
  <2>2. new ++ old = [h \in names |-> also(h)]
    BY <1>8
  <2>3. \A h : value(h) = also(h)
    BY <1>9
  <2> HIDE DEF names, value, also
  <2> QED
    BY <2>1, <2>2, <2>3
<1> QED
  BY <1>2, <1>4, <1>10

(* A rule that is as its block means it, up to the line before, is so behind a
   line that sets a key. *)
LEMMA SetLineMeant ==
  ASSUME NEW lines, NEW i \in Nat \ {0}, NEW from \in 1..i, lines[i].text = "set",
         IsRuleLine(lines[i]),
         lines[i].key \in ByteKeys => MeantBytes(lines[i].value) = Unquote(StripComment(lines[i].value)),
         lines[i].key = "remote_port" => lines[i].value >= 0,
         NEW b \in RuleSet, b = MeantRule(lines, from, i - 1),
         NEW r \in SetKey(b, lines[i].key, lines[i].value)
  PROVE  r = MeantRule(lines, from, i)
<1> DEFINE S(key) == Says(lines, from, i, key)
           Was(key) == Says(lines, from, i - 1, key)
<1>1. PICK k : k = lines[i].key
  OBVIOUS
<1>2. PICK v \in SettingOf(b, k, lines[i].value) : r = [b EXCEPT ![k] = v]
  BY <1>1, KeySet
<1>3. k \in RuleKeys \ {"name"}
  BY <1>2, KeySet
<1>4. /\ \A key : S(key) \in SUBSET (1..i) /\ S(key) \ {i} = Was(key)
      /\ \A key : key # k => i \notin S(key)
      /\ i \in S(k) /\ Max(S(k)) = i
  BY <1>1, SaysAtLine
<1> HIDE DEF S, Was
<1>5. /\ b = [key \in RuleKeys |-> MeantOfKey(lines, from, Was(key), key)]
      /\ MeantRule(lines, from, i) = [key \in RuleKeys |-> MeantOfKey(lines, from, S(key), key)]
  BY RuleMeant DEF S, Was
<1>6. MeantOfKey(lines, from, S(k), k) = v
  <2>1. CASE k = "header_set"
    <3>1. v = Only(lines[i].value.name, lines[i].value.n) ++ b.header_set
      BY <1>2, <2>1 DEF SettingOf, WordKeys, ByteKeys
    <3>2. b.header_set = MeantHeaders(lines, Was(k))
      <4>1. b["header_set"] = MeantOfKey(lines, from, Was("header_set"), "header_set")
        BY <1>5, KeysOfRules
      <4> QED
        BY <2>1, <4>1 DEF MeantOfKey
    <3>3. MeantHeaders(lines, S(k)) = Only(lines[i].value.name, lines[i].value.n) ++ MeantHeaders(lines, Was(k))
      BY <1>4, HeadersAtLine
    <3> QED
      BY <2>1, <3>1, <3>2, <3>3 DEF MeantOfKey
  <2>2. CASE k \in ByteKeys
    <3>1. k \notin WordKeys /\ k \notin {"name", "header_set", "remote_port"}
      BY <2>2 DEF WordKeys, ByteKeys
    <3>2. v = Unquote(StripComment(lines[i].value))
      BY <1>2, <2>2, <3>1 DEF SettingOf
    <3>3. MeantOfKey(lines, from, S(k), k) = MeantBytes(lines[i].value)
      BY <1>4, <2>2, <3>1 DEF MeantOfKey
    <3> QED
      BY <1>1, <2>2, <3>2, <3>3
  <2>3. CASE k \in WordKeys
    <3>1. k \notin ByteKeys /\ k \notin {"name", "header_set", "remote_port"}
      BY <2>3 DEF WordKeys, ByteKeys
    <3>2. v = lines[i].value
      BY <1>2, <2>3, <3>1 DEF SettingOf
    <3>3. MeantOfKey(lines, from, S(k), k) = lines[i].value
      BY <1>4, <2>3, <3>1 DEF MeantOfKey
    <3> QED
      BY <3>2, <3>3
  <2>4. CASE k = "remote_port"
    <3>1. k \notin ByteKeys /\ k \notin WordKeys /\ k \notin {"name", "header_set"}
      BY <2>4 DEF WordKeys, ByteKeys
    <3>2. v \in ParseU16(lines[i].value)
      BY <1>2, <2>4, <3>1 DEF SettingOf
    <3>3. lines[i].value \in Int /\ lines[i].value >= 0
      BY <1>1, <2>4, <3>1 DEF IsRuleLine
    <3>4. v = lines[i].value % UlongModulus /\ lines[i].value < UlongModulus
      BY <3>2 DEF ParseU16, StoUl
    <3>5. v = lines[i].value
      BY <3>3, <3>4, NumberAssumption
    <3>6. MeantOfKey(lines, from, S(k), k) = lines[i].value
      BY <1>4, <2>4, <3>1 DEF MeantOfKey
    <3> QED
      BY <3>5, <3>6
  <2> QED
    BY <1>3, <2>1, <2>2, <2>3, <2>4, KeysOfRules
<1>7. \A key \in RuleKeys : key # k => S(key) = Was(key)
  BY <1>4
<1> QED
  BY <1>2, <1>3, <1>5, <1>6, <1>7

(* Any other line of the block leaves it so. *)
LEMMA OtherLineMeant ==
  ASSUME NEW lines, NEW i \in Nat \ {0}, NEW from \in 1..i, lines[i].text # "set"
  PROVE  MeantRule(lines, from, i) = MeantRule(lines, from, i - 1)
<1>1. \A key : Says(lines, from, i, key) = Says(lines, from, i - 1, key)
  BY SaysAtLine
<1> QED
  BY <1>1, RuleMeant

(* And a block starts with the empty rule of its name. *)
LEMMA FirstLineMeant ==
  ASSUME NEW lines, NEW i \in Nat \ {0}, lines[i].text = "rule"
  PROVE  MeantRule(lines, i, i) = EmptyRule(lines[i].name)
<1>1. \A key : Says(lines, i, i, key) = {}
  BY DEF Says
<1>2. ASSUME NEW key \in RuleKeys
      PROVE  MeantOfKey(lines, i, {}, key) = EmptyRule(lines[i].name)[key]
  <2>1. CASE key = "name"
    BY <2>1 DEF MeantOfKey, EmptyRule
  <2>2. CASE key = "header_set"
    <3>1. MeantHeaders(lines, {}) = <<>>
      BY DEF MeantHeaders
    <3> QED
      BY <2>2, <3>1 DEF MeantOfKey, EmptyRule
  <2>3. CASE key \in ByteKeys
    <3>1. key # "name" /\ key # "header_set"
      BY <2>3 DEF ByteKeys
    <3>2. EmptyRule(lines[i].name)[key] = <<>>
      BY <2>3 DEF EmptyRule, ByteKeys
    <3> QED
      BY <2>3, <3>1, <3>2 DEF MeantOfKey
  <2>4. CASE key \in WordKeys
    <3>1. key \notin ByteKeys /\ key # "name" /\ key # "header_set"
      BY <2>4 DEF WordKeys, ByteKeys
    <3>2. EmptyRule(lines[i].name)[key] = EmptyRule(NoText)[key]
      BY <2>4 DEF EmptyRule, WordKeys
    <3> QED
      BY <3>1, <3>2 DEF MeantOfKey
  <2>5. CASE key = "remote_port"
    <3>1. EmptyRule(lines[i].name)["remote_port"] = EmptyRule(NoText)["remote_port"]
      BY DEF EmptyRule
    <3> QED
      BY <2>5, <3>1 DEF MeantOfKey, ByteKeys
  <2> QED
    BY <2>1, <2>2, <2>3, <2>4, <2>5, KeysOfRules
<1> QED
  BY <1>1, <1>2, RuleMeant, KeysOfRules

LEMMA ClosesAtLine ==
  ASSUME NEW lines, NEW i \in Nat \ {0}
  PROVE  /\ lines[i].text # "close" => Closes(lines, i) = Closes(lines, i - 1)
         /\ lines[i].text = "close" =>
              /\ Closes(lines, i) = Closes(lines, i - 1) \cup {i}
              /\ Cardinality(Closes(lines, i)) = Cardinality(Closes(lines, i - 1)) + 1
         /\ Cardinality(Closes(lines, i - 1)) \in Nat
         /\ \A c \in Closes(lines, i - 1) :
              Cardinality(Closes(lines, c)) \in 1..Cardinality(Closes(lines, i - 1))
<1> DEFINE C(k) == Closes(lines, k)
<1>1. ASSUME NEW k \in Nat
      PROVE  C(k) \in SUBSET (1..k) /\ IsFiniteSet(C(k)) /\ Cardinality(C(k)) \in Nat
  <2>1. C(k) \in SUBSET (1..k)
    BY DEF Closes
  <2>2. IsFiniteSet(1..k)
    BY FS_Interval
  <2>3. IsFiniteSet(C(k))
    BY <2>1, <2>2, FS_Subset
  <2> QED
    BY <2>1, <2>3, FS_CardinalityType
<1>2. i - 1 \in Nat /\ i \in Nat
  OBVIOUS
<1>3. lines[i].text # "close" => C(i) = C(i - 1)
  BY DEF Closes
<1>4. lines[i].text = "close" => C(i) = C(i - 1) \cup {i}
  BY DEF Closes
<1>5. i \notin C(i - 1)
  BY DEF Closes
<1>6. Cardinality(C(i - 1) \cup {i}) = Cardinality(C(i - 1)) + 1
  BY <1>1, <1>2, <1>5, FS_AddElement
<1>7. ASSUME NEW c \in C(i - 1)
      PROVE  Cardinality(C(c)) \in 1..Cardinality(C(i - 1))
  <2>1. c \in 1..(i - 1) /\ c \in Nat
    BY DEF Closes
  <2>2. C(c) \subseteq C(i - 1) /\ c \in C(c)
    BY <2>1 DEF Closes
  <2>3. Cardinality(C(c)) <= Cardinality(C(i - 1))
    BY <1>1, <1>2, <2>2, FS_Subset
  <2>4. Cardinality(C(c)) # 0
    BY <1>1, <2>1, <2>2, FS_EmptySet
  <2> QED
    BY <1>1, <1>2, <2>1, <2>3, <2>4
<1> QED
  BY <1>1, <1>2, <1>3, <1>4, <1>6, <1>7

(* What holds of the loader when line i is next. *)
RulesMeant(lines, i, l) ==
  /\ l.block = {} <=> ~Inside(lines, i)
  /\ \A j \in 1..(i - 1) : Fits(lines, j)
  /\ PlainValues(lines) =>
       /\ \A b \in l.block : b = MeantRule(lines, Opened(lines, i), i - 1)
       /\ Len(l.rules) = Cardinality(Closes(lines, i - 1))
       /\ \A c \in Closes(lines, i - 1) :
            l.rules[Cardinality(Closes(lines, c))] = MeantRule(lines, Opened(lines, c), c)

LEMMA RuleLineMeant ==
  ASSUME NEW lines, NEW n \in Nat, DOMAIN lines = 1..n, \A j \in 1..n : IsRuleLine(lines[j]),
         NEW i \in 1..n, NEW l \in RuleLoaderSet, RulesMeant(lines, i, l),
         NEW m \in LoadRuleLine(l, lines[i])
  PROVE  RulesMeant(lines, i + 1, m)
<1>0. i \in Nat \ {0} /\ (i + 1) - 1 = i
  OBVIOUS
<1>1. /\ Opened(lines, i + 1) = IF lines[i].text = "rule" THEN i ELSE Opened(lines, i)
      /\ Closed(lines, i + 1) = IF lines[i].text = "close" THEN i ELSE Closed(lines, i)
      /\ Opened(lines, i) \in 0..(i - 1) /\ Closed(lines, i) \in 0..(i - 1)
  BY <1>0, PlacesAtLine
<1>2. l.rules \in Seq(RuleSet) /\ l.block \in SUBSET RuleSet /\ l = [rules |-> l.rules, block |-> l.block]
  BY DEF RuleLoaderSet
<1>3. \A j \in 1..i : j \in 1..(i - 1) \/ j = i
  OBVIOUS
<1>4. Inside(lines, i) => Opened(lines, i) \in 1..i
  BY <1>1 DEF Inside
<1>5. /\ l.block = {} <=> ~Inside(lines, i)
      /\ \A j \in 1..(i - 1) : Fits(lines, j)
  BY DEF RulesMeant
<1>6. CASE lines[i].text = "blank"
  <2>1. m = l
    BY <1>6 DEF LoadRuleLine
  <2>2. Opened(lines, i + 1) = Opened(lines, i) /\ Closed(lines, i + 1) = Closed(lines, i)
    BY <1>1, <1>6
  <2>3. Inside(lines, i + 1) = Inside(lines, i)
    BY <2>2 DEF Inside
  <2>4. Fits(lines, i)
    BY <1>6 DEF Fits
  <2>5. Inside(lines, i) => MeantRule(lines, Opened(lines, i), i) = MeantRule(lines, Opened(lines, i), i - 1)
    BY <1>0, <1>4, <1>6, OtherLineMeant
  <2>6. Closes(lines, i) = Closes(lines, i - 1)
    BY <1>0, <1>6, ClosesAtLine
  <2>7. \A b \in l.block : Inside(lines, i)
    BY <1>5
  <2> QED
    BY <1>0, <1>3, <1>5, <2>1, <2>2, <2>3, <2>4, <2>5, <2>6, <2>7 DEF RulesMeant
<1>7. CASE lines[i].text = "rule"
  <2>1. l.block = {} /\ lines[i].name # NoText /\ m = [l EXCEPT !.block = {EmptyRule(lines[i].name)}]
    BY <1>7 DEF LoadRuleLine
  <2>2. m.block = {EmptyRule(lines[i].name)} /\ m.rules = l.rules
    BY <1>2, <2>1
  <2>3. Opened(lines, i + 1) = i /\ Closed(lines, i + 1) \in 0..(i - 1)
    BY <1>1, <1>7
  <2>4. Inside(lines, i + 1)
    BY <2>3 DEF Inside
  <2>5. Fits(lines, i)
    BY <1>5, <1>7, <2>1 DEF Fits
  <2>6. MeantRule(lines, i, i) = EmptyRule(lines[i].name)
    BY <1>0, <1>7, FirstLineMeant
  <2>7. Closes(lines, i) = Closes(lines, i - 1)
    BY <1>0, <1>7, ClosesAtLine
  <2> QED
    BY <1>0, <1>3, <1>5, <2>2, <2>3, <2>4, <2>5, <2>6, <2>7 DEF RulesMeant
<1>8. CASE lines[i].text = "close"
  <2>1. PICK r \in l.block : m = [rules |-> Append(l.rules, r), block |-> {}]
    BY <1>8 DEF LoadRuleLine
  <2>2. m.rules = Append(l.rules, r) /\ m.block = {} /\ r \in RuleSet
    BY <1>2, <2>1
  <2>3. Inside(lines, i)
    BY <1>5, <2>1
  <2>4. Closed(lines, i + 1) = i /\ Opened(lines, i + 1) \in 0..(i - 1)
    BY <1>1, <1>8
  <2>5. ~Inside(lines, i + 1)
    BY <2>4 DEF Inside
  <2>6. Fits(lines, i)
    BY <1>8, <2>3 DEF Fits
  <2>7. ASSUME PlainValues(lines)
        PROVE  /\ Len(m.rules) = Cardinality(Closes(lines, i))
               /\ \A c \in Closes(lines, i) :
                    m.rules[Cardinality(Closes(lines, c))] = MeantRule(lines, Opened(lines, c), c)
    <3>1. /\ r = MeantRule(lines, Opened(lines, i), i - 1)
          /\ Len(l.rules) = Cardinality(Closes(lines, i - 1))
          /\ \A c \in Closes(lines, i - 1) :
               l.rules[Cardinality(Closes(lines, c))] = MeantRule(lines, Opened(lines, c), c)
      BY <2>1, <2>7 DEF RulesMeant
    <3>2. r = MeantRule(lines, Opened(lines, i), i)
      BY <1>0, <1>4, <1>8, <2>3, <3>1, OtherLineMeant
    <3>3. PICK k \in Nat : k = Cardinality(Closes(lines, i - 1))
      BY <1>0, ClosesAtLine
    <3>4. /\ Closes(lines, i) = Closes(lines, i - 1) \cup {i} /\ Cardinality(Closes(lines, i)) = k + 1
          /\ \A c \in Closes(lines, i - 1) : Cardinality(Closes(lines, c)) \in 1..k
      BY <1>0, <1>8, <3>3, ClosesAtLine
    <3>5. /\ Len(m.rules) = k + 1 /\ m.rules[k + 1] = r
          /\ \A j \in 1..k : m.rules[j] = l.rules[j]
      BY <1>2, <2>2, <3>1, <3>3
    <3>6. ASSUME NEW c \in Closes(lines, i - 1)
          PROVE  m.rules[Cardinality(Closes(lines, c))] = MeantRule(lines, Opened(lines, c), c)
      BY <3>1, <3>4, <3>5
    <3> QED
      BY <3>2, <3>4, <3>5, <3>6
  <2> QED
    BY <1>0, <1>3, <1>5, <2>2, <2>5, <2>6, <2>7 DEF RulesMeant
<1>9. CASE lines[i].text = "set"
  <2>0. PICK b \in l.block : \E r \in SetKey(b, lines[i].key, lines[i].value) : m = [l EXCEPT !.block = {r}]
    BY <1>9 DEF LoadRuleLine
  <2>1. PICK r \in SetKey(b, lines[i].key, lines[i].value) : m = [l EXCEPT !.block = {r}]
    BY <2>0
  <2>2. m.block = {r} /\ m.rules = l.rules /\ b \in RuleSet
    BY <1>2, <2>1
  <2>3. Inside(lines, i)
    BY <1>5, <2>1
  <2>4. Opened(lines, i + 1) = Opened(lines, i) /\ Closed(lines, i + 1) = Closed(lines, i)
    BY <1>1, <1>9
  <2>5. Inside(lines, i + 1)
    BY <2>3, <2>4 DEF Inside
  <2>6. Fits(lines, i)
    <3>1. SetKey(b, lines[i].key, lines[i].value) # {}
      BY <2>1
    <3>2. SetKey(EmptyRule(NoText), lines[i].key, lines[i].value) # {}
      BY <2>2, <3>1 DEF SetKey
    <3> QED
      BY <1>9, <2>3, <3>2 DEF Fits
  <2>7. PlainValues(lines) => r = MeantRule(lines, Opened(lines, i), i)
    <3> SUFFICES ASSUME PlainValues(lines) PROVE r = MeantRule(lines, Opened(lines, i), i)
      OBVIOUS
    <3>1. b = MeantRule(lines, Opened(lines, i), i - 1)
      BY <2>1 DEF RulesMeant
    <3>2. /\ lines[i].key \in ByteKeys => MeantBytes(lines[i].value) = Unquote(StripComment(lines[i].value))
          /\ lines[i].key = "remote_port" => lines[i].value >= 0
      BY <1>9 DEF PlainValues
    <3> QED
      BY <1>0, <1>4, <1>9, <2>1, <2>2, <2>3, <3>1, <3>2, SetLineMeant
  <2>8. Closes(lines, i) = Closes(lines, i - 1)
    BY <1>0, <1>9, ClosesAtLine
  <2> QED
    BY <1>0, <1>3, <1>5, <2>2, <2>4, <2>5, <2>6, <2>7, <2>8 DEF RulesMeant
<1>10. CASE lines[i].text \notin {"blank", "rule", "close", "set"}
  BY <1>10 DEF LoadRuleLine
<1> QED
  BY <1>6, <1>7, <1>8, <1>9, <1>10

LEMMA LoadersOfRules ==
  ASSUME NEW n \in Nat, NEW lines, Len(lines) = n, DOMAIN lines = 1..n,
         \A j \in 1..n : IsRuleLine(lines[j]),
         NEW after, RuleLoaders(lines, after), \A i \in 0..n : after[i] \in SUBSET RuleLoaderSet
  PROVE  \A i \in 0..n : \A l \in after[i] : RulesMeant(lines, i + 1, l)
<1> DEFINE G == {i \in 0..n : \A l \in after[i] : RulesMeant(lines, i + 1, l)}
<1>1. 0 \in G
  <2>1. after[0] = {[rules |-> <<>>, block |-> {}]} /\ 0 + 1 = 1 /\ 1 - 1 = 0 /\ 1..0 = {}
    BY DEF RuleLoaders
  <2>2. PICK l : l = [rules |-> <<>>, block |-> {}]
    OBVIOUS
  <2>3. l.block = {} /\ l.rules = <<>> /\ Len(l.rules) = 0
    BY <2>2
  <2>4. ~Inside(lines, 1)
    <3>1. Opened(lines, 1) = 0 /\ Closed(lines, 1) = 0
      BY <2>1 DEF Opened, Closed, LastUpTo
    <3> QED
      BY <3>1 DEF Inside
  <2>5. Closes(lines, 0) = {} /\ Cardinality(Closes(lines, 0)) = 0
    BY <2>1, FS_EmptySet DEF Closes
  <2>6. RulesMeant(lines, 1, l)
    BY <2>1, <2>3, <2>4, <2>5 DEF RulesMeant
  <2>7. 0 \in 0..n
    OBVIOUS
  <2>8. \A k \in after[0] : RulesMeant(lines, 0 + 1, k)
    BY <2>1, <2>2, <2>6
  <2> QED
    BY <2>7, <2>8
<1>2. ASSUME NEW i \in 1..n, i - 1 \in G
      PROVE  i \in G
  <2>1. (i - 1) + 1 = i /\ i - 1 \in 0..n
    OBVIOUS
  <2>2. ASSUME NEW m \in after[i]
        PROVE  RulesMeant(lines, i + 1, m)
    <3>1. PICK l \in after[i - 1] : m \in LoadRuleLine(l, lines[i])
      <4>1. after[i] = UNION {LoadRuleLine(l, lines[i]) : l \in after[i - 1]}
        BY DEF RuleLoaders
      <4> QED
        BY <2>2, <4>1
    <3>2. l \in RuleLoaderSet /\ RulesMeant(lines, i, l)
      BY <1>2, <2>1
    <3> QED
      BY <3>1, <3>2, RuleLineMeant
  <2> QED
    BY <2>2
<1>3. G = 0..n
  <2> HIDE DEF G
  <2>1. G \in SUBSET (0..n)
    BY DEF G
  <2> QED
    BY <1>1, <1>2, <2>1, UpTo
<1> QED
  BY <1>3

(* Rules that were loaded are those that the file means, if a person reads its
   values as the loader does; and the file is well formed. *)
RulesOf(lines, loaded) ==
  LET closes == Closes(lines, Len(lines))
  IN  /\ Len(loaded) = Cardinality(closes)
      /\ \A c \in closes : loaded[Cardinality(Closes(lines, c))] = MeantRule(lines, Opened(lines, c), c)

LEMMA RulesLoadedAsMeant ==
  ASSUME NEW n \in Nat, NEW lines, Len(lines) = n, DOMAIN lines = 1..n,
         \A j \in 1..n : IsRuleLine(lines[j]), NEW loaded \in LoadRules({lines})
  PROVE  /\ WellFormed(lines)
         /\ PlainValues(lines) => RulesOf(lines, loaded)
         /\ loaded \in Seq(RuleSet)
<1>1. PICK after : /\ RuleLoaders(lines, after)
                   /\ \A i \in 0..n : after[i] \in SUBSET RuleLoaderSet
                   /\ LoadRules({lines}) = {l.rules : l \in {l \in after[n] : l.block = {}}}
  BY RuleSteps
<1>2. PICK l \in after[n] : l.block = {} /\ loaded = l.rules
  BY <1>1
<1>3. n \in 0..n /\ (n + 1) - 1 = n
  OBVIOUS
<1>4. RulesMeant(lines, n + 1, l) /\ l \in RuleLoaderSet
  BY <1>1, <1>3, LoadersOfRules
<1> QED
  BY <1>2, <1>3, <1>4 DEF RulesMeant, WellFormed, RulesOf, RuleLoaderSet

(* A well formed file is not refused. *)
LEMMA WellFormedIsLoaded ==
  ASSUME NEW n \in Nat, NEW lines, Len(lines) = n, DOMAIN lines = 1..n,
         \A j \in 1..n : IsRuleLine(lines[j]), WellFormed(lines)
  PROVE  LoadRules({lines}) # {}
<1>1. PICK after : /\ RuleLoaders(lines, after)
                   /\ \A i \in 0..n : after[i] \in SUBSET RuleLoaderSet
                   /\ LoadRules({lines}) = {l.rules : l \in {l \in after[n] : l.block = {}}}
  BY RuleSteps
<1>2. \A i \in 0..n : \A l \in after[i] : RulesMeant(lines, i + 1, l)
  BY <1>1, LoadersOfRules
<1> DEFINE G == {i \in 0..n : after[i] # {}}
<1>3. 0 \in G
  <2>1. after[0] = {[rules |-> <<>>, block |-> {}]}
    BY <1>1 DEF RuleLoaders
  <2>2. 0 \in 0..n
    OBVIOUS
  <2> QED
    BY <2>1, <2>2
<1>4. ASSUME NEW i \in 1..n, i - 1 \in G
      PROVE  i \in G
  <2>0. (i - 1) + 1 = i /\ i - 1 \in 0..n
    OBVIOUS
  <2>1. PICK l \in after[i - 1] : l \in RuleLoaderSet /\ RulesMeant(lines, i, l)
    BY <1>1, <1>2, <1>4, <2>0
  <2>2. after[i] = UNION {LoadRuleLine(k, lines[i]) : k \in after[i - 1]}
    BY <1>1 DEF RuleLoaders
  <2>3. Fits(lines, i) /\ (l.block = {} <=> ~Inside(lines, i))
    BY <2>1 DEF WellFormed, RulesMeant
  <2>4. LoadRuleLine(l, lines[i]) # {}
    <3>1. CASE lines[i].text = "blank"
      BY <3>1 DEF LoadRuleLine
    <3>2. CASE lines[i].text = "rule"
      BY <2>3, <3>2 DEF LoadRuleLine, Fits
    <3>3. CASE lines[i].text = "close"
      <4>1. PICK r : r \in l.block
        BY <2>3, <3>3 DEF Fits
      <4>2. [rules |-> Append(l.rules, r), block |-> {}] \in LoadRuleLine(l, lines[i])
        BY <3>3, <4>1 DEF LoadRuleLine
      <4> QED
        BY <4>2
    <3>4. CASE lines[i].text = "set"
      <4>1. PICK b : b \in l.block
        BY <2>3, <3>4 DEF Fits
      <4>2. SetKey(EmptyRule(NoText), lines[i].key, lines[i].value) # {}
        BY <2>3, <3>4 DEF Fits
      <4>3. SetKey(b, lines[i].key, lines[i].value) # {}
        BY <4>2 DEF SetKey
      <4>4. PICK r : r \in SetKey(b, lines[i].key, lines[i].value)
        BY <4>3
      <4>5. [l EXCEPT !.block = {r}] \in LoadRuleLine(l, lines[i])
        BY <3>4, <4>1, <4>4 DEF LoadRuleLine
      <4> QED
        BY <4>5
    <3>5. CASE lines[i].text \notin {"blank", "rule", "close", "set"}
      BY <2>3, <3>5 DEF Fits
    <3> QED
      BY <3>1, <3>2, <3>3, <3>4, <3>5
  <2> QED
    BY <2>2, <2>4
<1>5. n \in G
  <2> HIDE DEF G
  <2>1. G \in SUBSET (0..n)
    BY DEF G
  <2> QED
    BY <1>3, <1>4, <2>1, UpTo
<1>6. PICK l \in after[n] : RulesMeant(lines, n + 1, l)
  <2>1. n \in 0..n
    OBVIOUS
  <2> QED
    BY <1>2, <1>5, <2>1
<1>7. l.block = {}
  BY <1>6 DEF RulesMeant, WellFormed
<1> QED
  BY <1>1, <1>7

-----------------------------------------------------------------------------
(* The application. *)

(* What is in force was loaded from the files that the command line and the
   configuration name. *)
AppInv ==
  /\ setup \in Setups
  /\ pc \in {"certutil", "rules"} => config \in LoadConfig(File(options.config_path))
  /\ pc = "serving" /\ config["rules.enabled"] => rules \in LoadRules(File(config["rules.file"]))

LEMMA AppInvStep == AppInv /\ [Next]_vars => AppInv'
<1> SUFFICES ASSUME AppInv, [Next]_vars PROVE AppInv'
  OBVIOUS
<1>1. setup' = setup
  BY DEF Next, LoadConfiguration, ConfigurationFails, CertUtil, CertUtilFails, LoadRuleFile, RulesFail,
    ServerReturns, Forward, Sent, Exited, vars
<1>2. (options.config_path)' = options.config_path /\ \A p : File(p)' = File(p)
  BY <1>1 DEF options, File
<1>3. CASE LoadConfiguration
  BY <1>1, <1>2, <1>3 DEF AppInv, LoadConfiguration
<1>4. CASE LoadRuleFile
  <2>1. config["rules.enabled"] => rules' \in LoadRules(File(config["rules.file"]))
    BY <1>4 DEF LoadRuleFile
  <2> QED
    BY <1>1, <1>2, <1>4, <2>1 DEF AppInv, LoadRuleFile
<1>5. CASE UNCHANGED <<config, rules>> /\ (pc' = pc \/ pc' = "exited")
  BY <1>1, <1>2, <1>5 DEF AppInv
<1>6. CASE UNCHANGED config /\ pc' = "exited"
  BY <1>1, <1>6 DEF AppInv
<1> QED
  BY <1>3, <1>4, <1>5, <1>6 DEF Next, ConfigurationFails, CertUtil, CertUtilFails, RulesFail,
    ServerReturns, Forward, Sent, Exited, Exit, vars

LEMMA AppInvHolds == Spec => []AppInv
<1>1. Init => AppInv
  BY DEF Init, AppInv
<1> QED
  BY <1>1, AppInvStep, PTL DEF Spec

(* Every key of a configuration in force has the value that a reader of the file
   finds on the last line about it, the default without one: ConfigAsWritten, for
   every file and command line; sections and values that the loader takes
   otherwise are excepted there. *)
THEOREM ConfigHolds == Spec => []ConfigAsWritten
<1>1. AppInv => ConfigAsWritten
  <2> SUFFICES ASSUME AppInv, pc \in {"certutil", "rules"}
               PROVE  \E lines \in File(options.config_path) :
                        Tidy(lines) => AsMeant(config, lines)
    BY DEF ConfigAsWritten, AsMeant
  <2>1. config \in LoadConfig(File(options.config_path))
    BY DEF AppInv
  <2>2. LoadConfig({}) = {}
    BY DEF LoadConfig
  <2>3. PICK lines : \E n \in Nat :
          File(options.config_path) = {lines} /\ Len(lines) = n /\ DOMAIN lines = 1..n
    BY <2>1, <2>2, FileLines DEF AppInv
  <2>4. ASSUME Tidy(lines)
        PROVE  AsMeant(config, lines)
    BY <2>1, <2>3, <2>4, LoadedAsMeant
  <2> QED
    BY <2>3, <2>4
<1> QED
  BY <1>1, AppInvHolds, PTL

(* The rules in force are the blocks of the rules file, in order, each with its
   own values and no others: RulesAsWritten, for every file. *)
THEOREM RulesHold == Spec => []RulesAsWritten
<1>1. AppInv => RulesAsWritten
  <2> SUFFICES ASSUME AppInv, pc = "serving", config["rules.enabled"]
               PROVE  \E lines \in File(config["rules.file"]) :
                        WellFormed(lines) /\ (PlainValues(lines) => RulesOf(lines, rules))
    BY DEF RulesAsWritten, RulesOf
  <2>1. rules \in LoadRules(File(config["rules.file"]))
    BY DEF AppInv
  <2>2. LoadRules({}) = {}
    BY DEF LoadRules
  <2>3. PICK lines : \E n \in Nat :
          /\ File(config["rules.file"]) = {lines} /\ Len(lines) = n /\ DOMAIN lines = 1..n
          /\ \A i \in 1..n : IsRuleLine(lines[i])
    BY <2>1, <2>2, FileLines DEF AppInv
  <2> QED
    BY <2>1, <2>3, RulesLoadedAsMeant
<1> QED
  BY <1>1, AppInvHolds, PTL

(* The proxy gives up at its start only for a line or a value that cannot be
   read, or a broken block: RefusedForCause, for every configuration and rules
   file. *)
THEOREM RefusalHolds == Spec => RefusedForCause
<1> DEFINE Cause ==
      /\ pc = "config" /\ pc' = "exited" =>
           \A lines \in File(options.config_path) :
             Tidy(lines) => \E i \in DOMAIN lines :
               \/ lines[i].text \notin {"blank", "name", "pair"}
               \/ /\ lines[i].text = "pair"
                  /\ MeantKey(lines, i) \in DOMAIN Keys
                  /\ ReadValue(MeantKey(lines, i), lines[i]) = {}
      /\ pc = "rules" /\ pc' = "exited" =>
           \A lines \in File(config["rules.file"]) : ~WellFormed(lines)
<1>1. AppInv /\ [Next]_vars => [Cause]_vars
  <2> SUFFICES ASSUME AppInv, [Next]_vars PROVE Cause \/ UNCHANGED vars
    OBVIOUS
  <2>1. CASE ConfigurationFails
    <3>1. LoadConfig(File(options.config_path)) = {} /\ pc = "config"
      BY <2>1 DEF ConfigurationFails
    <3>2. ASSUME NEW lines \in File(options.config_path), Tidy(lines)
          PROVE  \E i \in DOMAIN lines :
                   \/ lines[i].text \notin {"blank", "name", "pair"}
                   \/ /\ lines[i].text = "pair"
                      /\ MeantKey(lines, i) \in DOMAIN Keys
                      /\ ReadValue(MeantKey(lines, i), lines[i]) = {}
      <4>1. PICK n \in Nat : Len(lines) = n /\ DOMAIN lines = 1..n /\ File(options.config_path) = {lines}
        BY <3>2, FileLines DEF AppInv
      <4> QED
        BY <3>1, <3>2, <4>1, GivenUpForCause
    <3> QED
      BY <3>1, <3>2
  <2>2. CASE RulesFail
    <3>1. LoadRules(File(config["rules.file"])) = {} /\ pc = "rules"
      BY <2>2 DEF RulesFail
    <3>2. ASSUME NEW lines \in File(config["rules.file"]), WellFormed(lines)
          PROVE  FALSE
      <4>1. PICK n \in Nat : /\ Len(lines) = n /\ DOMAIN lines = 1..n
                             /\ File(config["rules.file"]) = {lines}
                             /\ \A i \in 1..n : IsRuleLine(lines[i])
        BY <3>2, FileLines DEF AppInv
      <4> QED
        BY <3>1, <3>2, <4>1, WellFormedIsLoaded
    <3> QED
      BY <3>1, <3>2
  <2>3. CASE pc \notin {"config", "rules"} \/ pc' # "exited"
    BY <2>3
  <2> HIDE DEF Cause
  <2> QED
    BY <2>1, <2>2, <2>3 DEF Next, LoadConfiguration, CertUtil, CertUtilFails, LoadRuleFile,
      ServerReturns, Forward, Sent, Exited, Exit
<1>2. RefusedForCause <=> [][Cause]_vars
  BY DEF RefusedForCause
<1> HIDE DEF Cause
<1> QED
  BY <1>1, <1>2, AppInvHolds, PTL DEF Spec

-----------------------------------------------------------------------------
(* What a replacement makes of the bytes from the i-th on; rest is what it
   makes of those behind. *)
RestEntry(source, find, replace, rest, i) ==
  IF i > Len(source) THEN <<>>
  ELSE IF OccursAt(source, find, i) THEN replace \o rest[i + Len(find)]
  ELSE <<source[i]>> \o rest[i + 1]

(* A replacement is well defined. *)
LEMMA RestExists ==
  ASSUME NEW source \in Seq(Token), NEW find \in Seq(Token), NEW replace \in Seq(Token), find # <<>>,
         NEW n \in Nat, n = Len(source)
  PROVE  \E rest \in [1..(n + 1) -> Seq(Token)] :
           \A i \in 1..(n + 1) : rest[i] = RestEntry(source, find, replace, rest, i)
<1> DEFINE Entry(f, i) == RestEntry(source, find, replace, f, i)
           Behind(k) == (n + 1 - k)..(n + 1)
           G == {k \in 0..n : \E f \in [Behind(k) -> Seq(Token)] : \A i \in Behind(k) : f[i] = Entry(f, i)}
<1>0. Len(find) \in Nat \ {0}
  OBVIOUS
<1>1. 0 \in G
  <2> DEFINE f == [i \in Behind(0) |-> <<>>]
  <2>1. f \in [Behind(0) -> Seq(Token)]
    OBVIOUS
  <2>2. \A i \in Behind(0) : f[i] = <<>> /\ i > Len(source)
    OBVIOUS
  <2>3. \A i \in Behind(0) : f[i] = Entry(f, i)
    BY <2>2 DEF RestEntry
  <2>4. 0 \in 0..n
    OBVIOUS
  <2> HIDE DEF f, Entry, Behind
  <2> QED
    BY <2>1, <2>3, <2>4
<1>2. ASSUME NEW k \in 1..n, k - 1 \in G
      PROVE  k \in G
  <2>1. PICK g \in [Behind(k - 1) -> Seq(Token)] : \A i \in Behind(k - 1) : g[i] = Entry(g, i)
    BY <1>2
  <2> DEFINE at == n + 1 - k
             f == [i \in Behind(k) |-> IF i = at THEN Entry(g, at) ELSE g[i]]
  <2>2. /\ Behind(k) = Behind(k - 1) \cup {at} /\ at \notin Behind(k - 1) /\ at \in 1..n
        /\ at + 1 \in Behind(k - 1)
    OBVIOUS
  <2>3. \A i \in Behind(k - 1) : f[i] = g[i]
    BY <2>2
  <2>4. ASSUME NEW i \in Behind(k)
        PROVE  /\ ~(i > n) => i + 1 \in Behind(k - 1)
               /\ ~(i > n) /\ OccursAt(source, find, i) => i + Len(find) \in Behind(k - 1)
    <3>1. ~(i > n) => i + 1 \in Behind(k - 1)
      OBVIOUS
    <3>2. OccursAt(source, find, i) => i + Len(find) - 1 <= n
      BY DEF OccursAt
    <3>3. i + Len(find) - 1 <= n => i + Len(find) \in Behind(k - 1)
      BY <1>0
    <3> QED
      BY <3>1, <3>2, <3>3
  <2>5. Entry(g, at) \in Seq(Token)
    <3>1. at \in Behind(k) /\ at \in 1..n
      BY <2>2
    <3>2. source[at] \in Token
      BY <3>1
    <3>3. g[at + 1] \in Seq(Token)
      BY <2>2
    <3>4. OccursAt(source, find, at) => g[at + Len(find)] \in Seq(Token)
      <4>1. ~(at > n)
        BY <3>1
      <4>2. OccursAt(source, find, at) => at + Len(find) \in Behind(k - 1)
        <5> HIDE DEF at, Behind
        <5> QED
          BY <2>4, <3>1, <4>1
      <4> HIDE DEF at, Behind
      <4> QED
        BY <4>2
    <3> HIDE DEF at
    <3>5. <<source[at]>> \o g[at + 1] \in Seq(Token)
      BY <3>2, <3>3
    <3>6. OccursAt(source, find, at) => replace \o g[at + Len(find)] \in Seq(Token)
      BY <3>4
    <3> QED
      BY <3>5, <3>6 DEF RestEntry
  <2>6. f \in [Behind(k) -> Seq(Token)]
    <3>1. \A i \in Behind(k) : (IF i = at THEN Entry(g, at) ELSE g[i]) \in Seq(Token)
      <4> HIDE DEF Entry, at, Behind
      <4> QED
        BY <2>2, <2>5
    <3> HIDE DEF Entry, at, Behind
    <3> QED
      BY <3>1
  <2>7. \A i \in Behind(k) : f[i] = Entry(f, i)
    <3> SUFFICES ASSUME NEW i \in Behind(k) PROVE f[i] = Entry(f, i)
      OBVIOUS
    <3>1. f[i] = Entry(g, i)
      <4> HIDE DEF Entry, at, Behind
      <4> QED
        BY <2>1, <2>2
    <3>2. /\ ~(i > n) => f[i + 1] = g[i + 1]
          /\ ~(i > n) /\ OccursAt(source, find, i) => f[i + Len(find)] = g[i + Len(find)]
      <4> HIDE DEF f, Behind
      <4> QED
        BY <2>3, <2>4
    <3>3. Entry(f, i) = Entry(g, i)
      <4> HIDE DEF f, Behind
      <4> QED
        BY <3>2 DEF RestEntry
    <3> QED
      BY <3>1, <3>3
  <2>8. k \in 0..n
    OBVIOUS
  <2> HIDE DEF f, Entry, Behind
  <2> QED
    BY <2>6, <2>7, <2>8
<1>3. n \in G
  <2> HIDE DEF G
  <2>1. G \in SUBSET (0..n)
    BY DEF G
  <2> QED
    BY <1>1, <1>2, <2>1, UpTo
<1>4. Behind(n) = 1..(n + 1)
  OBVIOUS
<1> HIDE DEF Entry, Behind
<1>5. PICK f \in [1..(n + 1) -> Seq(Token)] : \A i \in 1..(n + 1) : f[i] = Entry(f, i)
  BY <1>3, <1>4
<1> QED
  BY <1>5 DEF Entry

(* Where nothing is found nothing is replaced. *)
LEMMA NothingReplaced ==
  ASSUME NEW source \in Seq(Token), NEW find, NEW replace, ~Occurs(source, find)
  PROVE  ReplaceEvery(source, find, replace) = source
<1> SUFFICES ASSUME find # <<>> PROVE ReplaceEvery(source, find, replace) = source
  BY DEF ReplaceEvery
<1> SUFFICES ASSUME NEW n \in Nat, n = Len(source) PROVE ReplaceEvery(source, find, replace) = source
  OBVIOUS
<1> DEFINE Entry(f, i) == RestEntry(source, find, replace, f, i)
           rest == CHOOSE f : f = [i \in 1..(n + 1) |-> Entry(f, i)]
           f == [i \in 1..(n + 1) |-> SubSeq(source, i, n)]
<1>1. \A i \in 1..n : ~OccursAt(source, find, i)
  BY DEF Occurs
<1>2. \A i \in 1..n : SubSeq(source, i, n) = <<source[i]>> \o SubSeq(source, i + 1, n)
  OBVIOUS
<1>3. SubSeq(source, n + 1, n) = <<>> /\ SubSeq(source, 1, n) = source
  OBVIOUS
<1>4. f = [i \in 1..(n + 1) |-> Entry(f, i)]
  <2>1. ASSUME NEW i \in 1..(n + 1)
        PROVE  SubSeq(source, i, n) = Entry(f, i)
    <3>1. CASE i = n + 1
      <4>1. i > Len(source)
        BY <3>1
      <4> HIDE DEF f
      <4> QED
        BY <1>3, <3>1, <4>1 DEF RestEntry
    <3>2. CASE i \in 1..n
      <4>1. f[i + 1] = SubSeq(source, i + 1, n) /\ ~(i > Len(source))
        BY <3>2
      <4> HIDE DEF f
      <4> QED
        BY <1>1, <1>2, <3>2, <4>1 DEF RestEntry
    <3> QED
      BY <3>1, <3>2
  <2> DEFINE Part(i) == SubSeq(source, i, n)
             g == [i \in 1..(n + 1) |-> Entry(f, i)]
  <2>2. \A i \in 1..(n + 1) : Part(i) = Entry(f, i)
    BY <2>1
  <2>3. f = [i \in 1..(n + 1) |-> Part(i)]
    OBVIOUS
  <2> HIDE DEF Part, Entry, f
  <2> QED
    BY <2>2, <2>3
<1>5. rest = [i \in 1..(n + 1) |-> Entry(rest, i)]
  <2> HIDE DEF Entry, f
  <2> QED
    BY <1>4
<1>6. ReplaceEvery(source, find, replace) = rest[1]
  BY DEF ReplaceEvery, RestEntry
<1> HIDE DEF rest
<1> DEFINE G == {k \in 0..n : rest[n + 1 - k] = SubSeq(source, n + 1 - k, n)}
<1>7. 0 \in G
  <2>1. rest[n + 1] = Entry(rest, n + 1) /\ n + 1 > Len(source) /\ n + 1 - 0 = n + 1
    <3>1. n + 1 \in 1..(n + 1) /\ n + 1 > Len(source) /\ n + 1 - 0 = n + 1
      OBVIOUS
    <3> HIDE DEF Entry
    <3> QED
      BY <1>5, <3>1
  <2>2. rest[n + 1] = SubSeq(source, n + 1, n)
    BY <1>3, <2>1 DEF RestEntry
  <2>3. 0 \in 0..n
    OBVIOUS
  <2> QED
    BY <2>1, <2>2, <2>3
<1>8. ASSUME NEW k \in 1..n, k - 1 \in G
      PROVE  k \in G
  <2>1. PICK i \in 1..n : i = n + 1 - k /\ n + 1 - (k - 1) = i + 1
    <3>1. n + 1 - k \in 1..n /\ n + 1 - (k - 1) = (n + 1 - k) + 1
      OBVIOUS
    <3> HIDE DEF G
    <3> QED
      BY <3>1
  <2>2. rest[i] = Entry(rest, i)
    <3>1. i \in 1..(n + 1)
      OBVIOUS
    <3> HIDE DEF Entry
    <3> QED
      BY <1>5, <3>1
  <2>3. rest[i] = <<source[i]>> \o rest[i + 1]
    <3>1. ~(i > Len(source))
      OBVIOUS
    <3> QED
      BY <1>1, <2>2, <3>1 DEF RestEntry
  <2>4. rest[i + 1] = SubSeq(source, i + 1, n)
    BY <1>8, <2>1
  <2>5. rest[i] = SubSeq(source, i, n)
    BY <1>2, <2>3, <2>4
  <2>6. k \in 0..n
    OBVIOUS
  <2> QED
    BY <2>1, <2>5, <2>6
<1>9. n \in G
  <2> HIDE DEF G
  <2>1. G \in SUBSET (0..n)
    BY DEF G
  <2> QED
    BY <1>7, <1>8, <2>1, UpTo
<1> QED
  BY <1>3, <1>6, <1>9

(* A replacement makes bytes of bytes. *)
LEMMA ReplaceTyped ==
  ASSUME NEW source \in Seq(Token), NEW find \in Seq(Token), NEW replace \in Seq(Token)
  PROVE  ReplaceEvery(source, find, replace) \in Seq(Token)
<1> SUFFICES ASSUME find # <<>> PROVE ReplaceEvery(source, find, replace) \in Seq(Token)
  BY DEF ReplaceEvery
<1> SUFFICES ASSUME NEW n \in Nat, n = Len(source) PROVE ReplaceEvery(source, find, replace) \in Seq(Token)
  OBVIOUS
<1> DEFINE Entry(f, i) == RestEntry(source, find, replace, f, i)
           rest == CHOOSE f : f = [i \in 1..(n + 1) |-> Entry(f, i)]
<1>0. Len(find) \in Nat \ {0}
  OBVIOUS
<1>1. PICK f \in [1..(n + 1) -> Seq(Token)] : f = [i \in 1..(n + 1) |-> Entry(f, i)]
  <2>1. PICK f \in [1..(n + 1) -> Seq(Token)] :
               \A i \in 1..(n + 1) : f[i] = RestEntry(source, find, replace, f, i)
    BY RestExists
  <2>2. f = [i \in 1..(n + 1) |-> Entry(f, i)]
    BY <2>1
  <2> HIDE DEF Entry
  <2> QED
    BY <2>2
<1>2. rest = [i \in 1..(n + 1) |-> Entry(rest, i)]
  <2> HIDE DEF Entry
  <2> QED
    BY <1>1
<1>3. ReplaceEvery(source, find, replace) = rest[1]
  BY DEF ReplaceEvery, RestEntry
<1> HIDE DEF rest
<1> DEFINE G == {k \in 0..n : \A i \in (n + 1 - k)..(n + 1) : rest[i] \in Seq(Token)}
<1>4. 0 \in G
  <2> SUFFICES 0 \in 0..n /\ \A i \in (n + 1 - 0)..(n + 1) : rest[i] \in Seq(Token)
    OBVIOUS
  <2>1. rest[n + 1] = Entry(rest, n + 1) /\ n + 1 > Len(source) /\ \A i \in (n + 1 - 0)..(n + 1) : i = n + 1
    <3>1. n + 1 \in 1..(n + 1) /\ n + 1 > Len(source) /\ \A i \in (n + 1 - 0)..(n + 1) : i = n + 1
      OBVIOUS
    <3> HIDE DEF Entry
    <3> QED
      BY <1>2, <3>1
  <2>2. rest[n + 1] \in Seq(Token)
    <3>1. rest[n + 1] = <<>> /\ <<>> \in Seq(Token)
      BY <2>1 DEF RestEntry
    <3> QED
      BY <3>1
  <2>3. 0 \in 0..n
    OBVIOUS
  <2> QED
    BY <2>1, <2>2, <2>3
<1>5. ASSUME NEW k \in 1..n, k - 1 \in G
      PROVE  k \in G
  <2>1. PICK at \in 1..n : at = n + 1 - k /\ n + 1 - (k - 1) = at + 1
    <3>1. n + 1 - k \in 1..n /\ n + 1 - (k - 1) = (n + 1 - k) + 1
      OBVIOUS
    <3> HIDE DEF G
    <3> QED
      BY <3>1
  <2>2. \A i \in (at + 1)..(n + 1) : rest[i] \in Seq(Token)
    BY <1>5, <2>1
  <2>3. rest[at] = Entry(rest, at)
    <3>1. at \in 1..(n + 1)
      OBVIOUS
    <3> HIDE DEF Entry
    <3> QED
      BY <1>2, <3>1
  <2>4. rest[at] \in Seq(Token)
    <3>1. ~(at > Len(source)) /\ source[at] \in Token /\ at + 1 \in (at + 1)..(n + 1)
      OBVIOUS
    <3>2. OccursAt(source, find, at) => at + Len(find) \in (at + 1)..(n + 1)
      <4>1. OccursAt(source, find, at) => at + Len(find) - 1 <= n
        BY DEF OccursAt
      <4> QED
        BY <1>0, <4>1
    <3>3. <<source[at]>> \o rest[at + 1] \in Seq(Token)
      BY <2>2, <3>1
    <3>4. OccursAt(source, find, at) => replace \o rest[at + Len(find)] \in Seq(Token)
      BY <2>2, <3>2
    <3> QED
      BY <2>3, <3>1, <3>3, <3>4 DEF RestEntry
  <2>5. \A i \in at..(n + 1) : i = at \/ i \in (at + 1)..(n + 1)
    OBVIOUS
  <2>6. k \in 0..n /\ (n + 1 - k)..(n + 1) = at..(n + 1)
    BY <2>1
  <2> QED
    BY <2>2, <2>4, <2>5, <2>6
<1>6. n \in G
  <2> HIDE DEF G
  <2>1. G \in SUBSET (0..n)
    BY DEF G
  <2> QED
    BY <1>4, <1>5, <2>1, UpTo
<1>7. 1 \in (n + 1 - n)..(n + 1)
  OBVIOUS
<1> QED
  BY <1>3, <1>6, <1>7

-----------------------------------------------------------------------------
(* A function that is the table of a fold as far as its values are of V, and
   the fold step by step: after[i] is what it has made of the first i. *)
IsFold(n, V, base, step, table) ==
  /\ table[{}] = base
  /\ \A s \in SUBSET (1..n) :
       s # {} /\ table[s \ {Max(s)}] \in V => table[s] = step[<<Max(s), table[s \ {Max(s)}]>>]

FoldsTo(n, V, base, step, result, after) ==
  /\ after \in [0..n -> V]
  /\ after[0] = base /\ after[n] = result
  /\ \A i \in 1..n : after[i] = step[<<i, after[i - 1]>>]

LEMMA TableSteps ==
  ASSUME NEW n \in Nat, NEW V, NEW base \in V, NEW step \in [(1..n) \X V -> V], NEW table,
         IsFold(n, V, base, step, table)
  PROVE  \E after : FoldsTo(n, V, base, step, table[1..n], after)
<1>1. PICK f : Runs(n, table, f)
  BY RunsFromOne
<1>2. ASSUME NEW i \in 1..n, f[i - 1] \in V
      PROVE  f[i] = step[<<i, f[i - 1]>>]
  <2>1. PICK s \in SUBSET (1..n) : s = 1..i /\ s # {} /\ Max(s) = i
    BY <1>1 DEF Runs
  <2>2. f[i] = table[s] /\ f[i - 1] = table[s \ {Max(s)}]
    BY <1>1, <2>1 DEF Runs
  <2> QED
    BY <1>2, <2>1, <2>2 DEF IsFold
<1> DEFINE G == {i \in 0..n : f[i] \in V}
<1>3. 0 \in G
  <2>1. 0 \in 0..n
    OBVIOUS
  <2> QED
    BY <1>1, <2>1 DEF Runs, IsFold
<1>4. ASSUME NEW i \in 1..n, i - 1 \in G
      PROVE  i \in G
  <2>1. <<i, f[i - 1]>> \in (1..n) \X V
    BY <1>4
  <2>2. step[<<i, f[i - 1]>>] \in V
    BY <2>1
  <2>3. f[i] \in V /\ i \in 0..n
    BY <1>2, <1>4, <2>2
  <2> QED
    BY <2>3
<1>5. G = 0..n
  <2>1. G \in SUBSET (0..n)
    OBVIOUS
  <2> HIDE DEF G
  <2> QED
    BY <1>3, <1>4, <2>1, UpTo
<1> DEFINE after == [i \in 0..n |-> f[i]]
<1>6. after \in [0..n -> V]
  BY <1>5
<1>7. 0 \in 0..n /\ n \in 0..n /\ \A i \in 1..n : i \in 0..n /\ i - 1 \in 0..n
  OBVIOUS
<1>8. \A i \in 0..n : after[i] = f[i] /\ f[i] \in V
  BY <1>5
<1> HIDE DEF after
<1>9. after[0] = base /\ after[n] = table[1..n]
  BY <1>1, <1>7, <1>8 DEF Runs, IsFold
<1>10. \A i \in 1..n : after[i] = step[<<i, after[i - 1]>>]
  BY <1>2, <1>7, <1>8
<1> QED
  BY <1>6, <1>9, <1>10 DEF FoldsTo

(* A rule whose values have their types. *)
LEMMA RuleTyped ==
  ASSUME NEW r \in RuleSet
  PROVE  /\ \A key \in ByteKeys : r[key] \in Seq(Token)
         /\ r.header_set \in HeaderSets
<1>1. ByteKeys \subseteq RuleKeys /\ "header_set" \in RuleKeys
  BY KeysOfRules
<1> QED
  BY <1>1, ValueOfKey DEF RuleSet

(* One rule, applied to bytes. *)
TransportStep(r, context, p) ==
  IF Matches(r, context)
    THEN ReplaceEvery(ReplaceEvery(p, r.text_find, r.text_replace),
                      HexFind(r.hex_find, r.hex_replace), r.hex_replace)
    ELSE p

LEMMA HexFindTyped ==
  ASSUME NEW find \in Seq(Token), NEW replace
  PROVE  HexFind(find, replace) \in Seq(Token)
<1>1. <<>> \in Seq(Token)
  OBVIOUS
<1> QED
  BY <1>1 DEF HexFind

LEMMA TransportStepTyped ==
  ASSUME NEW r \in RuleSet, NEW context, NEW p \in Seq(Token)
  PROVE  TransportStep(r, context, p) \in Seq(Token)
<1>1. r.text_find \in Seq(Token) /\ r.text_replace \in Seq(Token) /\ r.hex_find \in Seq(Token)
      /\ r.hex_replace \in Seq(Token)
  BY RuleTyped DEF ByteKeys
<1>2. ReplaceEvery(p, r.text_find, r.text_replace) \in Seq(Token)
  BY <1>1, ReplaceTyped
<1>3. HexFind(r.hex_find, r.hex_replace) \in Seq(Token)
  BY <1>1, HexFindTyped
<1> QED
  BY <1>1, <1>2, <1>3, ReplaceTyped DEF TransportStep

(* The rules, one by one: after[i] is what the first i have made of the bytes. *)
TransportRun(loaded, n, context, p, after) ==
  /\ after \in [0..n -> Seq(Token)]
  /\ after[0] = p /\ after[n] = ApplyTransport(loaded, context, p)
  /\ \A i \in 1..n : after[i] = TransportStep(loaded[i], context, after[i - 1])

LEMMA TransportSteps ==
  ASSUME NEW loaded \in Seq(RuleSet), NEW n \in Nat, n = Len(loaded), NEW context, NEW p \in Seq(Token)
  PROVE  \E after : TransportRun(loaded, n, context, p, after)
<1>0. DOMAIN loaded = 1..n
  OBVIOUS
<1> DEFINE op(q, i) == TransportStep(loaded[i], context, q)
           step == [x \in (1..n) \X Seq(Token) |-> op(x[2], x[1])]
           Entry(g, s) == IF s = {} THEN p ELSE op(g[s \ {Max(s)}], Max(s))
           table == CHOOSE g : g = [s \in SUBSET (1..n) |-> Entry(g, s)]
<1>1. \A q \in Seq(Token) : \A i \in 1..n : op(q, i) \in Seq(Token)
  BY TransportStepTyped
<1> HIDE DEF op
<1>2. step \in [(1..n) \X Seq(Token) -> Seq(Token)]
  BY <1>1
<1>3. \A q \in Seq(Token) : \A i \in 1..n : step[<<i, q>>] = op(q, i)
  OBVIOUS
<1> HIDE DEF step
<1>4. PICK f : FoldTable(n, Seq(Token), p, step, f)
  BY <1>2, FoldExists
<1>5. f = [s \in SUBSET (1..n) |-> Entry(f, s)]
  <2>1. \A s \in SUBSET (1..n) : f[s] = Entry(f, s)
    BY <1>3, <1>4 DEF FoldTable
  <2> HIDE DEF Entry
  <2> QED
    BY <1>4, <2>1 DEF FoldTable
<1>6. table = [s \in SUBSET (1..n) |-> Entry(table, s)]
  <2> HIDE DEF Entry
  <2> QED
    BY <1>5
<1>7. ApplyTransport(loaded, context, p) = table[1..n]
  BY <1>0 DEF ApplyTransport, FoldLeft, MapThenFoldSet, TransportStep, op
<1> HIDE DEF table
<1>8. table[{}] = p
  BY <1>6
<1>9. ASSUME NEW s \in SUBSET (1..n), s # {}, table[s \ {Max(s)}] \in Seq(Token)
      PROVE  table[s] = step[<<Max(s), table[s \ {Max(s)}]>>]
  <2>1. Max(s) \in 1..n
    BY <1>4, <1>9 DEF FoldTable
  <2> QED
    BY <1>3, <1>6, <1>9, <2>1
<1>10. PICK after : FoldsTo(n, Seq(Token), p, step, table[1..n], after)
  <2>1. IsFold(n, Seq(Token), p, step, table)
    BY <1>8, <1>9 DEF IsFold
  <2> QED
    BY <1>2, <2>1, TableSteps
<1>11. ASSUME NEW i \in 1..n PROVE after[i] = op(after[i - 1], i)
  <2>1. i - 1 \in 0..n
    OBVIOUS
  <2> QED
    BY <1>3, <1>10, <2>1 DEF FoldsTo
<1> QED
  BY <1>7, <1>10, <1>11 DEF op, FoldsTo, TransportRun

-----------------------------------------------------------------------------
(* The headers of a message: those of the code, and any that rules may set. *)
HeaderMaps == UNION {[D -> Nat] : D \in SUBSET (STRING \cup HeaderNames)}
MessageSet == [headers : HeaderMaps, body : Seq(Token), changed : BOOLEAN]

LEMMA HeaderMap ==
  /\ \A f \in HeaderMaps : /\ DOMAIN f \subseteq STRING \cup HeaderNames
                           /\ f = [x \in DOMAIN f |-> f[x]]
                           /\ \A x \in DOMAIN f : f[x] \in Nat
  /\ \A f : DOMAIN f \subseteq STRING \cup HeaderNames /\ f = [x \in DOMAIN f |-> f[x]]
            /\ (\A x \in DOMAIN f : f[x] \in Nat) => f \in HeaderMaps
<1>1. ASSUME NEW f \in HeaderMaps
      PROVE  /\ DOMAIN f \subseteq STRING \cup HeaderNames
             /\ f = [x \in DOMAIN f |-> f[x]]
             /\ \A x \in DOMAIN f : f[x] \in Nat
  <2>1. PICK D \in SUBSET (STRING \cup HeaderNames) : f \in [D -> Nat]
    BY DEF HeaderMaps
  <2> QED
    BY <2>1
<1>2. ASSUME NEW f, DOMAIN f \subseteq STRING \cup HeaderNames, f = [x \in DOMAIN f |-> f[x]],
             \A x \in DOMAIN f : f[x] \in Nat
      PROVE  f \in HeaderMaps
  <2>1. PICK D : D = DOMAIN f
    OBVIOUS
  <2>2. f \in [D -> Nat]
    BY <1>2, <2>1
  <2>3. D \in SUBSET (STRING \cup HeaderNames)
    BY <1>2, <2>1
  <2> QED
    BY <2>2, <2>3 DEF HeaderMaps
<1> QED
  BY <1>1, <1>2

LEMMA HeadersOverwritten ==
  ASSUME NEW f \in HeaderMaps, NEW g \in HeaderMaps
  PROVE  f ++ g \in HeaderMaps
<1>1. PICK m : m = f ++ g
  OBVIOUS
<1>2. DOMAIN m = (DOMAIN f) \cup (DOMAIN g) /\ m = [x \in DOMAIN m |-> m[x]]
  BY <1>1, Overwritten
<1>3. \A x \in DOMAIN m : m[x] = IF x \in DOMAIN f THEN f[x] ELSE g[x]
  BY <1>1 DEF ++
<1>4. \A x \in DOMAIN m : m[x] \in Nat
  BY <1>2, <1>3, HeaderMap
<1>5. DOMAIN m \subseteq STRING \cup HeaderNames
  BY <1>2, HeaderMap
<1> QED
  BY <1>1, <1>2, <1>4, <1>5, HeaderMap

LEMMA SomeHeaders ==
  /\ <<>> \in HeaderMaps /\ HeaderSets \subseteq HeaderMaps
  /\ \A h \in STRING \cup HeaderNames : \A n \in Nat : Only(h, n) \in HeaderMaps
  /\ \A g \in HeaderMaps : <<>> ++ g = g
<1>1. <<>> \in HeaderMaps
  <2>1. <<>> \in [{} -> Nat]
    OBVIOUS
  <2>2. {} \in SUBSET (STRING \cup HeaderNames)
    OBVIOUS
  <2> QED
    BY <2>1, <2>2 DEF HeaderMaps
<1>2. HeaderSets \subseteq HeaderMaps
  <2>1. SUBSET STRING \subseteq SUBSET (STRING \cup HeaderNames)
    OBVIOUS
  <2> QED
    BY <2>1 DEF HeaderSets, HeaderMaps
<1>3. ASSUME NEW h \in STRING \cup HeaderNames, NEW n \in Nat
      PROVE  Only(h, n) \in HeaderMaps
  <2>1. Only(h, n) \in [{h} -> Nat]
    BY DEF Only
  <2>2. {h} \in SUBSET (STRING \cup HeaderNames)
    OBVIOUS
  <2> QED
    BY <2>1, <2>2 DEF HeaderMaps
<1>4. ASSUME NEW g \in HeaderMaps
      PROVE  <<>> ++ g = g
  <2>0. PICK e : e = <<>> /\ DOMAIN e = {}
    OBVIOUS
  <2>1. PICK m : m = e ++ g
    OBVIOUS
  <2>2. DOMAIN m = DOMAIN g /\ m = [x \in DOMAIN m |-> m[x]]
    <3>1. DOMAIN m = (DOMAIN e) \cup (DOMAIN g) /\ m = [x \in DOMAIN m |-> m[x]]
      BY <2>1, Overwritten
    <3>2. (DOMAIN e) \cup (DOMAIN g) = DOMAIN g
      BY <2>0
    <3> QED
      BY <3>1, <3>2
  <2>3. \A x \in DOMAIN m : m[x] = g[x]
    BY <2>0, <2>1, <2>2 DEF ++
  <2>4. g = [x \in DOMAIN g |-> g[x]]
    BY HeaderMap
  <2> QED
    BY <2>0, <2>1, <2>2, <2>3, <2>4
<1> QED
  BY <1>1, <1>2, <1>3, <1>4

(* One rule, applied to a message. *)
HttpStep(r, context, m) ==
  LET body == ReplaceEvery(m.body, r.body_find, r.body_replace)
      headers == r.header_set ++ m.headers
  IN  IF Matches(r, context)
        THEN [headers |-> headers,
              body |-> ReplaceEvery(body, r.text_find, r.text_replace),
              changed |-> \/ m.changed
                          \/ headers # m.headers
                          \/ Occurs(m.body, r.body_find)
                          \/ Occurs(body, r.text_find)]
        ELSE m

LEMMA HttpStepTyped ==
  ASSUME NEW r \in RuleSet, NEW context, NEW m \in MessageSet
  PROVE  HttpStep(r, context, m) \in MessageSet
<1>1. /\ r.text_find \in Seq(Token) /\ r.text_replace \in Seq(Token) /\ r.body_find \in Seq(Token)
      /\ r.body_replace \in Seq(Token) /\ r.header_set \in HeaderMaps
  BY RuleTyped, SomeHeaders DEF ByteKeys
<1>2. m.headers \in HeaderMaps /\ m.body \in Seq(Token)
  BY DEF MessageSet
<1>3. PICK headers \in HeaderMaps : headers = r.header_set ++ m.headers
  BY <1>1, <1>2, HeadersOverwritten
<1>4. PICK body \in Seq(Token) : body = ReplaceEvery(m.body, r.body_find, r.body_replace)
  BY <1>1, <1>2, ReplaceTyped
<1>5. PICK last \in Seq(Token) : last = ReplaceEvery(body, r.text_find, r.text_replace)
  BY <1>1, <1>4, ReplaceTyped
<1>6. PICK changed \in BOOLEAN :
        changed = (\/ m.changed
                   \/ headers # m.headers
                   \/ Occurs(m.body, r.body_find)
                   \/ Occurs(body, r.text_find))
  OBVIOUS
<1>7. [headers |-> headers, body |-> last, changed |-> changed] \in MessageSet
  BY DEF MessageSet
<1> QED
  BY <1>3, <1>4, <1>5, <1>6, <1>7 DEF HttpStep

HttpRun(loaded, n, context, m, after) ==
  /\ after \in [0..n -> MessageSet]
  /\ after[0] = m /\ after[n] = ApplyHttp(loaded, context, m)
  /\ \A i \in 1..n : after[i] = HttpStep(loaded[i], context, after[i - 1])

LEMMA HttpSteps ==
  ASSUME NEW loaded \in Seq(RuleSet), NEW n \in Nat, n = Len(loaded), NEW context, NEW m \in MessageSet
  PROVE  \E after : HttpRun(loaded, n, context, m, after)
<1>0. DOMAIN loaded = 1..n
  OBVIOUS
<1> DEFINE op(q, i) == HttpStep(loaded[i], context, q)
           step == [x \in (1..n) \X MessageSet |-> op(x[2], x[1])]
           Entry(g, s) == IF s = {} THEN m ELSE op(g[s \ {Max(s)}], Max(s))
           table == CHOOSE g : g = [s \in SUBSET (1..n) |-> Entry(g, s)]
<1>1. \A q \in MessageSet : \A i \in 1..n : op(q, i) \in MessageSet
  BY HttpStepTyped
<1> HIDE DEF op
<1>2. step \in [(1..n) \X MessageSet -> MessageSet]
  BY <1>1
<1>3. \A q \in MessageSet : \A i \in 1..n : step[<<i, q>>] = op(q, i)
  OBVIOUS
<1> HIDE DEF step
<1>4. PICK f : FoldTable(n, MessageSet, m, step, f)
  BY <1>2, FoldExists
<1>5. f = [s \in SUBSET (1..n) |-> Entry(f, s)]
  <2>1. \A s \in SUBSET (1..n) : f[s] = Entry(f, s)
    BY <1>3, <1>4 DEF FoldTable
  <2> HIDE DEF Entry
  <2> QED
    BY <1>4, <2>1 DEF FoldTable
<1>6. table = [s \in SUBSET (1..n) |-> Entry(table, s)]
  <2> HIDE DEF Entry
  <2> QED
    BY <1>5
<1>7. ApplyHttp(loaded, context, m) = table[1..n]
  BY <1>0 DEF ApplyHttp, FoldLeft, MapThenFoldSet, HttpStep, op
<1> HIDE DEF table
<1>8. table[{}] = m
  BY <1>6
<1>9. ASSUME NEW s \in SUBSET (1..n), s # {}, table[s \ {Max(s)}] \in MessageSet
      PROVE  table[s] = step[<<Max(s), table[s \ {Max(s)}]>>]
  <2>1. Max(s) \in 1..n
    BY <1>4, <1>9 DEF FoldTable
  <2> QED
    BY <1>3, <1>6, <1>9, <2>1
<1>10. PICK after : FoldsTo(n, MessageSet, m, step, table[1..n], after)
  <2>1. IsFold(n, MessageSet, m, step, table)
    BY <1>8, <1>9 DEF IsFold
  <2> QED
    BY <1>2, <2>1, TableSteps
<1>11. ASSUME NEW i \in 1..n PROVE after[i] = op(after[i - 1], i)
  <2>1. i - 1 \in 0..n
    OBVIOUS
  <2> QED
    BY <1>3, <1>10, <2>1 DEF FoldsTo
<1> QED
  BY <1>7, <1>10, <1>11 DEF op, FoldsTo, HttpRun

(* One line of a head, read into the headers. *)
HeaderStep(headers, t) == IF t.k \in HeaderNames THEN Only(t.k, t.n) ++ headers ELSE headers

LEMMA HeaderSteps ==
  ASSUME NEW p \in Seq(Token), NEW n \in Nat, n = FirstOf(p, "end"), n <= Len(p)
  PROVE  \E after \in [0..n -> HeaderMaps] :
           /\ after[0] = <<>> /\ after[n] = ParseHeaders(p)
           /\ \A i \in 1..n : after[i] = HeaderStep(after[i - 1], p[i])
<1> DEFINE head == SubSeq(p, 1, n)
           op(q, i) == HeaderStep(q, head[i])
           step == [x \in (1..n) \X HeaderMaps |-> op(x[2], x[1])]
           Entry(g, s) == IF s = {} THEN <<>> ELSE op(g[s \ {Max(s)}], Max(s))
           table == CHOOSE g : g = [s \in SUBSET (1..n) |-> Entry(g, s)]
<1>0. Len(head) = n /\ DOMAIN head = 1..n /\ \A i \in 1..n : head[i] = p[i] /\ p[i] \in Token
  OBVIOUS
<1> HIDE DEF head
<1>1. ASSUME NEW q \in HeaderMaps, NEW i \in 1..n PROVE op(q, i) \in HeaderMaps
  <2>1. head[i].k \in HeaderNames => head[i].k \in STRING \cup HeaderNames /\ head[i].n \in Nat
    BY <1>0 DEF Token
  <2> QED
    BY <2>1, SomeHeaders, HeadersOverwritten DEF HeaderStep
<1> HIDE DEF op
<1>2. step \in [(1..n) \X HeaderMaps -> HeaderMaps]
  BY <1>1
<1>3. \A q \in HeaderMaps : \A i \in 1..n : step[<<i, q>>] = op(q, i)
  OBVIOUS
<1> HIDE DEF step
<1>4. <<>> \in HeaderMaps
  BY SomeHeaders
<1>5. PICK f : FoldTable(n, HeaderMaps, <<>>, step, f)
  BY <1>2, <1>4, FoldExists
<1>6. f = [s \in SUBSET (1..n) |-> Entry(f, s)]
  <2>1. \A s \in SUBSET (1..n) : f[s] = Entry(f, s)
    BY <1>3, <1>5 DEF FoldTable
  <2> HIDE DEF Entry
  <2> QED
    BY <1>5, <2>1 DEF FoldTable
<1>7. table = [s \in SUBSET (1..n) |-> Entry(table, s)]
  <2> HIDE DEF Entry
  <2> QED
    BY <1>6
<1>8. ParseHeaders(p) = table[1..n]
  <2> DEFINE Read(h) == FoldLeft(LAMBDA headers, t : IF t.k \in HeaderNames THEN Only(t.k, t.n) ++ headers
                                                                           ELSE headers, <<>>, h)
  <2>1. Read(head) = table[1..n]
    BY <1>0 DEF FoldLeft, MapThenFoldSet, HeaderStep, op
  <2>2. ParseHeaders(p) = Read(SubSeq(p, 1, FirstOf(p, "end")))
    BY DEF ParseHeaders
  <2>3. SubSeq(p, 1, FirstOf(p, "end")) = head
    BY DEF head
  <2> HIDE DEF Read, table
  <2> QED
    BY <2>1, <2>2, <2>3
<1> HIDE DEF table
<1>9. table[{}] = <<>>
  BY <1>7
<1>10. ASSUME NEW s \in SUBSET (1..n), s # {}, table[s \ {Max(s)}] \in HeaderMaps
       PROVE  table[s] = step[<<Max(s), table[s \ {Max(s)}]>>]
  <2>1. Max(s) \in 1..n
    BY <1>5, <1>10 DEF FoldTable
  <2> QED
    BY <1>3, <1>7, <1>10, <2>1
<1>11. PICK after : FoldsTo(n, HeaderMaps, <<>>, step, table[1..n], after)
  <2>1. IsFold(n, HeaderMaps, <<>>, step, table)
    BY <1>9, <1>10 DEF IsFold
  <2> QED
    BY <1>2, <1>4, <2>1, TableSteps
<1>12. ASSUME NEW i \in 1..n PROVE after[i] = HeaderStep(after[i - 1], p[i])
  <2>1. i - 1 \in 0..n
    OBVIOUS
  <2> QED
    BY <1>0, <1>3, <1>11, <2>1 DEF FoldsTo, op
<1> QED
  BY <1>8, <1>11, <1>12 DEF FoldsTo

-----------------------------------------------------------------------------
(* What may be on its way: a payload that one of the three callers has patched
   under the configuration and the rules in force. *)
TransportProtocols == {"tcp", "udp", "https-http"}

IsPatched(cfg, loaded, t) ==
  \E s \in Sites, d \in Directions, p \in Payloads, kind \in ProtocolKinds : \E context, otherwise :
    /\ \E protocol, host, port : context = Context(protocol, d, host, port)
    /\ \/ otherwise = p
       \/ \E q \in TransportProtocols : otherwise = ApplyTransportPatch(cfg, loaded, q, d, context, p)
    /\ t = [site |-> s, direction |-> d, in |-> p] ++ Patched(PatchPayload(cfg, loaded, kind, context, p), otherwise)

LEMMA ForwardPatches ==
  ASSUME NEW site \in Sites, NEW d \in Directions, NEW p \in Payloads, Forward(site, d, p)
  PROVE  \A t \in traffic' : IsPatched(config, rules, t)
<1>0. DetectProtocolKind(p) \in ProtocolKinds /\ "Http" \in ProtocolKinds /\ "Unknown" \in ProtocolKinds
  BY DEF DetectProtocolKind, ProtocolKinds
<1>1. CASE site = "https"
  <2>1. traffic' = {[site |-> site, direction |-> d, in |-> p] ++ PatchHttpsPlaintext(config, rules, d, p)}
    BY <1>1 DEF Forward
  <2>2. PICK context : context = Context(NoText, d, 0, 0)
    OBVIOUS
  <2>3. PICK kind \in ProtocolKinds : kind = DetectProtocolKind(p)
    BY <1>0
  <2>4. PICK otherwise :
          otherwise = IF kind = "Http" THEN ApplyTransportPatch(config, rules, "https-http", d, context, p) ELSE p
    OBVIOUS
  <2>5. PatchHttpsPlaintext(config, rules, d, p) = Patched(PatchPayload(config, rules, kind, context, p), otherwise)
    BY <2>2, <2>3, <2>4 DEF PatchHttpsPlaintext
  <2>6. \/ otherwise = p
        \/ \E q \in TransportProtocols : otherwise = ApplyTransportPatch(config, rules, q, d, context, p)
    BY <2>4 DEF TransportProtocols
  <2> QED
    BY <2>1, <2>2, <2>5, <2>6 DEF IsPatched
<1>2. CASE site \in {"tcp", "udp"}
  <2>1. PICK kind \in ProtocolKinds :
          traffic' = {[site |-> site, direction |-> d, in |-> p] ++ PatchAndSend(config, rules, site, kind, d, p)}
    BY <1>0, <1>2 DEF Forward
  <2>2. PICK context : context = Context(site, d, Upstream.host, Upstream.port)
    OBVIOUS
  <2>3. PICK otherwise : otherwise = ApplyTransportPatch(config, rules, site, d, context, p)
    OBVIOUS
  <2>4. PatchAndSend(config, rules, site, kind, d, p) = Patched(PatchPayload(config, rules, kind, context, p), otherwise)
    BY <2>2, <2>3 DEF PatchAndSend
  <2>5. site \in TransportProtocols
    BY <1>2 DEF TransportProtocols
  <2> QED
    BY <2>1, <2>2, <2>3, <2>4, <2>5 DEF IsPatched
<1> QED
  BY <1>1, <1>2 DEF Sites

LEMMA PatchedFields ==
  ASSUME NEW s, NEW d, NEW p, NEW structured, NEW otherwise, NEW t,
         t = [site |-> s, direction |-> d, in |-> p] ++ Patched(structured, otherwise)
  PROVE  /\ t.site = s /\ t.direction = d /\ t.in = p
         /\ t.out = IF structured = {} THEN otherwise ELSE CHOOSE m \in structured : TRUE
         /\ t.structured = (structured # {})
<1>1. PICK f : f = [site |-> s, direction |-> d, in |-> p]
  OBVIOUS
<1>2. PICK g : g = Patched(structured, otherwise)
  OBVIOUS
<1>3. DOMAIN f = {"site", "direction", "in"} /\ f.site = s /\ f.direction = d /\ f.in = p
  BY <1>1
<1>4. /\ DOMAIN g = {"out", "structured"}
      /\ g.out = IF structured = {} THEN otherwise ELSE CHOOSE m \in structured : TRUE
      /\ g.structured = (structured # {})
  BY <1>2 DEF Patched
<1>5. DOMAIN (f ++ g) = (DOMAIN f) \cup (DOMAIN g)
  BY Overwritten
<1>6. \A x \in DOMAIN (f ++ g) : (f ++ g)[x] = IF x \in DOMAIN f THEN f[x] ELSE g[x]
  BY <1>5 DEF ++
<1>7. t = f ++ g
  BY <1>1, <1>2
<1> QED
  BY <1>3, <1>4, <1>5, <1>6, <1>7

(* The rules of a file have the types of the code. *)
LEMMA RulesTyped ==
  ASSUME setup \in Setups, NEW path, NEW loaded \in LoadRules(File(path))
  PROVE  loaded \in Seq(RuleSet)
<1>1. LoadRules({}) = {}
  BY DEF LoadRules
<1>2. PICK lines : \E n \in Nat :
        /\ File(path) = {lines} /\ Len(lines) = n /\ DOMAIN lines = 1..n
        /\ \A i \in 1..n : IsRuleLine(lines[i])
  BY <1>1, FileLines
<1> QED
  BY <1>2, RulesLoadedAsMeant

(* Nothing is on its way before the proxy serves, and then nothing is loaded. *)
ServeInv ==
  /\ setup \in Setups
  /\ rules \in Seq(RuleSet)
  /\ traffic # {} => pc \in {"serving", "exited"}
  /\ \A t \in traffic : IsPatched(config, rules, t)

LEMMA ServeInvStep == ServeInv /\ [Next]_vars => ServeInv'
<1> SUFFICES ASSUME ServeInv, [Next]_vars PROVE ServeInv'
  OBVIOUS
<1>1. setup' = setup
  BY DEF Next, LoadConfiguration, ConfigurationFails, CertUtil, CertUtilFails, LoadRuleFile, RulesFail,
    ServerReturns, Forward, Sent, Exited, vars
<1>2. CASE UNCHANGED <<rules, traffic>> /\ traffic = {}
  BY <1>1, <1>2 DEF ServeInv
<1>3. CASE LoadConfiguration
  BY <1>2, <1>3 DEF ServeInv, LoadConfiguration
<1>4. CASE LoadRuleFile
  <2>1. traffic = {} /\ traffic' = {}
    BY <1>4 DEF ServeInv, LoadRuleFile
  <2>2. rules' \in Seq(RuleSet)
    <3>1. CASE config["rules.enabled"]
      BY <1>4, <3>1, RulesTyped DEF ServeInv, LoadRuleFile
    <3>2. CASE ~config["rules.enabled"]
      <4>1. rules' = <<>> /\ <<>> \in Seq(RuleSet)
        BY <1>4, <3>2 DEF LoadRuleFile
      <4> QED
        BY <4>1
    <3> QED
      BY <3>1, <3>2
  <2> QED
    BY <1>1, <2>1, <2>2 DEF ServeInv
<1>5. CASE UNCHANGED <<config, rules, traffic>> /\ (pc' = pc \/ pc' = "exited")
  BY <1>1, <1>5 DEF ServeInv
<1>6. CASE UNCHANGED <<rules, traffic>> /\ pc \notin {"serving", "exited"}
  BY <1>2, <1>6 DEF ServeInv
<1>7. ASSUME NEW s \in Sites, NEW d \in Directions, NEW p \in Payloads, Forward(s, d, p)
      PROVE  ServeInv'
  <2>1. UNCHANGED <<pc, config, rules>> /\ pc = "serving"
    BY <1>7 DEF Forward
  <2>2. \A t \in traffic' : IsPatched(config, rules, t)
    BY <1>7, ForwardPatches
  <2> QED
    BY <1>1, <2>1, <2>2 DEF ServeInv
<1>8. CASE Sent
  BY <1>1, <1>8 DEF ServeInv, Sent
<1> QED
  BY <1>3, <1>4, <1>5, <1>6, <1>7, <1>8 DEF Next, ConfigurationFails, CertUtil, CertUtilFails, RulesFail,
    ServerReturns, Exited, Exit, vars

LEMMA ServeInvHolds == Spec => []ServeInv
<1>1. Init => ServeInv
  <2>1. <<>> \in Seq(RuleSet)
    OBVIOUS
  <2> QED
    BY <2>1 DEF Init, ServeInv
<1> QED
  BY <1>1, ServeInvStep, PTL DEF Spec

-----------------------------------------------------------------------------
(* A payload that no patch is about. *)

(* A rule that matches may apply. *)
LEMMA MatchesMayApply ==
  ASSUME NEW r, NEW context, NEW t, Matches(r, context), context.direction = t.direction,
         context.protocol \in TransportProtocols \cup {"http"}, context.process = 0
  PROVE  MayApply(r, t)
BY DEF Matches, MayApply, TransportProtocols

LEMMA BytesFound ==
  ASSUME NEW p \in Seq(Token), NEW b, NEW k \in Nat, k <= Len(p), b = SubSeq(p, k + 1, Len(p)),
         NEW find \in Seq(Token), ~Occurs(p, find)
  PROVE  b \in Seq(Token) /\ ~Occurs(b, find)
<1>1. b \in Seq(Token) /\ Len(b) = Len(p) - k
  OBVIOUS
<1>2. ASSUME NEW i \in 1..Len(b), OccursAt(b, find, i), find # <<>>
      PROVE  FALSE
  <2>1. PICK m \in Nat : m = Len(find)
    OBVIOUS
  <2>2. i + m - 1 <= Len(b) /\ SubSeq(b, i, i + m - 1) = find
    BY <1>2, <2>1 DEF OccursAt
  <2>3. (i + k) \in 1..Len(p) /\ (i + k) + m - 1 <= Len(p)
    BY <1>1, <2>2
  <2>4. SubSeq(p, i + k, (i + k) + m - 1) = find
    <3> DEFINE s == SubSeq(p, i + k, (i + k) + m - 1)
               u == SubSeq(b, i, i + m - 1)
    <3>1. Len(s) = m /\ s \in Seq(Token) /\ \A j \in 1..m : s[j] = p[(i + k) + j - 1]
      BY <2>3
    <3>2. Len(u) = m /\ u \in Seq(Token) /\ \A j \in 1..m : u[j] = b[i + j - 1]
      BY <1>1, <2>2
    <3>3. \A j \in 1..m : b[i + j - 1] = p[(i + k) + j - 1]
      BY <1>1, <2>2
    <3>4. u = find
      BY <2>2
    <3> HIDE DEF s, u
    <3>5. s = u
      <4>1. \A j \in 1..m : s[j] = u[j]
        BY <3>1, <3>2, <3>3
      <4> QED
        BY <3>1, <3>2, <4>1
    <3> QED
      BY <3>4, <3>5 DEF s
  <2> QED
    BY <1>2, <2>1, <2>3, <2>4 DEF Occurs, OccursAt
<1> QED
  BY <1>1, <1>2 DEF Occurs

(* The first place of a kind of token. *)
LEMMA FirstPlace ==
  ASSUME NEW p \in Seq(Token), NEW kind
  PROVE  \/ /\ FirstOf(p, kind) = 0
            /\ \A i \in 1..Len(p) : p[i].k # kind
         \/ /\ FirstOf(p, kind) \in 1..Len(p)
            /\ p[FirstOf(p, kind)].k = kind
            /\ \A i \in 1..(FirstOf(p, kind) - 1) : p[i].k # kind
<1> DEFINE I == {i \in 1..Len(p) : p[i].k = kind}
<1>1. FirstOf(p, kind) = IF I = {} THEN 0 ELSE Min(I)
  BY DEF FirstOf, SelectInSeq
<1>2. CASE I = {}
  BY <1>1, <1>2
<1>3. CASE I # {}
  <2>1. I \in SUBSET Nat
    OBVIOUS
  <2>2. PICK m : m = FirstOf(p, kind)
    OBVIOUS
  <2>3. m \in I /\ \A i \in I : m <= i
    <3> HIDE DEF I
    <3> QED
      BY <1>1, <1>3, <2>1, <2>2, SmallestExists
  <2>4. m \in 1..Len(p) /\ p[m].k = kind /\ \A i \in 1..(m - 1) : p[i].k # kind
    BY <2>3
  <2> QED
    BY <2>2, <2>4
<1> QED
  BY <1>2, <1>3

LEMMA QuietTransport ==
  ASSUME NEW t, Quiet(t), t.in \in Seq(Token), rules \in Seq(RuleSet), NEW q \in TransportProtocols,
         t.direction \in Directions, NEW context, NEW protocol, NEW host, NEW port,
         context = Context(protocol, t.direction, host, port)
  PROVE  ApplyTransportPatch(config, rules, q, t.direction, context, t.in) = t.in
<1>1. PICK own : own = [context EXCEPT !.protocol = q, !.direction = t.direction]
  OBVIOUS
<1>2. own.direction = t.direction /\ own.protocol = q /\ own.process = 0
  BY <1>1 DEF Context
<1>3. ASSUME NEW i \in 1..Len(rules) PROVE TransportStep(rules[i], own, t.in) = t.in
  <2>1. CASE ~Matches(rules[i], own)
    BY <2>1 DEF TransportStep
  <2>2. CASE Matches(rules[i], own)
    <3>1. MayApply(rules[i], t)
      BY <1>2, <2>2, MatchesMayApply
    <3>2. ~Occurs(t.in, rules[i].text_find) /\ ~Occurs(t.in, rules[i].hex_find)
      <4>1. \A k \in {"text_find", "hex_find", "body_find"} : ~Occurs(t.in, rules[i][k])
        BY <3>1 DEF Quiet
      <4> QED
        BY <4>1
    <3>3. ~Occurs(t.in, HexFind(rules[i].hex_find, rules[i].hex_replace))
      BY <3>2 DEF HexFind, Occurs
    <3> QED
      BY <2>2, <3>2, <3>3, NothingReplaced DEF TransportStep
  <2> QED
    BY <2>1, <2>2
<1>4. ApplyTransport(rules, own, t.in) = t.in
  <2>1. PICK n \in Nat : n = Len(rules)
    OBVIOUS
  <2>2. PICK after : TransportRun(rules, n, own, t.in, after)
    BY <2>1, TransportSteps
  <2> DEFINE G == {i \in 0..n : after[i] = t.in}
  <2>3. 0 \in G /\ G \in SUBSET (0..n)
    BY <2>2 DEF TransportRun
  <2>4. ASSUME NEW i \in 1..n, i - 1 \in G PROVE i \in G
    BY <1>3, <2>1, <2>2, <2>4 DEF TransportRun
  <2> HIDE DEF G
  <2>5. G = 0..n
    BY <2>3, <2>4, UpTo
  <2>6. n \in G
    BY <2>5
  <2> QED
    BY <2>2, <2>6 DEF G, TransportRun
<1>5. \A k \in {"find", "find_hex"} : ~Occurs(t.in, config[PatchText[t.direction][k]])
  BY DEF Quiet
<1>6. PICK find : find = config[PatchText[t.direction]["find"]]
  OBVIOUS
<1>7. PICK find_hex : find_hex = config[PatchText[t.direction]["find_hex"]]
  OBVIOUS
<1>8. ~Occurs(t.in, find) /\ ~Occurs(t.in, find_hex)
  BY <1>5, <1>6, <1>7
<1>9. \A replace : ~Occurs(t.in, HexFind(find_hex, replace))
  BY <1>8 DEF HexFind, Occurs
<1>10. \A replace : /\ ReplaceEvery(t.in, find, replace) = t.in
                   /\ \A other : ReplaceEvery(t.in, HexFind(find_hex, other), replace) = t.in
  BY <1>8, <1>9, NothingReplaced
<1> QED
  BY <1>1, <1>4, <1>6, <1>7, <1>10 DEF ApplyTransportPatch

LEMMA QuietHttp ==
  ASSUME NEW t, Quiet(t), IsPayload(t.in), rules \in Seq(RuleSet), NEW kind \in ProtocolKinds,
         NEW context, NEW protocol, NEW host, NEW port,
         context = Context(protocol, t.direction, host, port)
  PROVE  PatchPayload(config, rules, kind, context, t.in) = {}
<1>1. t.in \in Seq(Token)
  BY DEF IsPayload
<1> SUFFICES ASSUME kind = "Http", FirstOf(t.in, "end") # 0
             PROVE  ApplyPatch(config, rules, kind, context, t.in) = {}
  BY DEF PatchPayload, CanHandle, ApplyPatch
<1>2. PICK n \in Nat : n = FirstOf(t.in, "end") /\ n <= Len(t.in)
  BY <1>1, FirstPlace
<1>3. PICK headers \in HeaderMaps : headers = ParseHeaders(t.in)
  <2>1. PICK after \in [0..n -> HeaderMaps] : after[n] = ParseHeaders(t.in)
    BY <1>1, <1>2, HeaderSteps
  <2> QED
    BY <2>1
<1>4. PICK body \in Seq(Token) : body = Body(t.in) /\ \A find \in Seq(Token) : ~Occurs(t.in, find) => ~Occurs(body, find)
  <2>1. Body(t.in) = SubSeq(t.in, n + 1, Len(t.in))
    BY <1>2 DEF Body
  <2>2. SubSeq(t.in, n + 1, Len(t.in)) \in Seq(Token)
    BY <1>1, <1>2
  <2> QED
    BY <1>1, <1>2, <2>1, <2>2, BytesFound
<1>5. PICK own : own = BuildRuleContext(kind, context, t.in, headers)
  OBVIOUS
<1>6. own.direction = t.direction /\ own.protocol = "http" /\ own.process = 0
  BY <1>5 DEF BuildRuleContext, Context
<1>7. PICK m \in MessageSet : m = [headers |-> headers, body |-> body, changed |-> FALSE]
  BY DEF MessageSet
<1>8. ASSUME NEW i \in 1..Len(rules) PROVE HttpStep(rules[i], own, m) = m
  <2>1. CASE ~Matches(rules[i], own)
    BY <2>1 DEF HttpStep
  <2>2. CASE Matches(rules[i], own)
    <3>1. MayApply(rules[i], t)
      BY <1>6, <2>2, MatchesMayApply
    <3>2. rules[i].header_set = <<>> /\ \A k \in {"text_find", "hex_find", "body_find"} : ~Occurs(t.in, rules[i][k])
      BY <3>1 DEF Quiet
    <3>3. rules[i].text_find \in Seq(Token) /\ rules[i].body_find \in Seq(Token)
      <4>1. rules[i] \in RuleSet
        OBVIOUS
      <4> QED
        BY <4>1, RuleTyped DEF ByteKeys
    <3>4. ~Occurs(body, rules[i].body_find) /\ ~Occurs(body, rules[i].text_find)
      BY <1>4, <3>2, <3>3
    <3>5. <<>> ++ headers = headers
      BY SomeHeaders
    <3>6. /\ ReplaceEvery(body, rules[i].body_find, rules[i].body_replace) = body
          /\ ReplaceEvery(body, rules[i].text_find, rules[i].text_replace) = body
      BY <3>4, NothingReplaced
    <3> QED
      BY <1>7, <2>2, <3>2, <3>4, <3>5, <3>6 DEF HttpStep
  <2> QED
    BY <2>1, <2>2
<1>9. ApplyHttp(rules, own, m) = m
  <2>1. PICK k \in Nat : k = Len(rules)
    OBVIOUS
  <2>2. PICK after : HttpRun(rules, k, own, m, after)
    BY <2>1, HttpSteps
  <2> DEFINE G == {i \in 0..k : after[i] = m}
  <2>3. 0 \in G /\ G \in SUBSET (0..k)
    BY <2>2 DEF HttpRun
  <2>4. ASSUME NEW i \in 1..k, i - 1 \in G PROVE i \in G
    BY <1>8, <2>1, <2>2, <2>4 DEF HttpRun
  <2> HIDE DEF G
  <2>5. G = 0..k
    BY <2>3, <2>4, UpTo
  <2>6. k \in G
    BY <2>5
  <2> QED
    BY <2>2, <2>6 DEF G, HttpRun
<1>10. ~config["patch.add_proxy_header"] /\ ~config["patch.append_debug_suffix"]
  BY DEF Quiet
<1>11. \A response : PatchMessage(config, rules, own, m, response) = m
  BY <1>9, <1>10 DEF PatchMessage
<1>12. ~m.changed
  BY <1>7
<1> QED
  BY <1>3, <1>4, <1>5, <1>7, <1>11, <1>12 DEF ApplyPatch

(* A payload that no patch is about passes byte for byte: UntouchedUnlessHit, of
   the patches of every place under every configuration and all rules. *)
THEOREM QuietPasses == Spec => []UntouchedUnlessHit
<1>1. ServeInv => UntouchedUnlessHit
  <2> SUFFICES ASSUME ServeInv, NEW t \in traffic, Quiet(t)
               PROVE  t.out = t.in
    BY DEF UntouchedUnlessHit
  <2>1. IsPatched(config, rules, t) /\ rules \in Seq(RuleSet)
    BY DEF ServeInv
  <2>2. PICK s \in Sites, d \in Directions, p \in Payloads, kind \in ProtocolKinds : \E context, otherwise :
          /\ \E protocol, host, port : context = Context(protocol, d, host, port)
          /\ \/ otherwise = p
             \/ \E q \in TransportProtocols : otherwise = ApplyTransportPatch(config, rules, q, d, context, p)
          /\ t = [site |-> s, direction |-> d, in |-> p] ++ Patched(PatchPayload(config, rules, kind, context, p), otherwise)
    BY <2>1 DEF IsPatched
  <2>3. PICK context, otherwise :
          /\ \E protocol, host, port : context = Context(protocol, d, host, port)
          /\ \/ otherwise = p
             \/ \E q \in TransportProtocols : otherwise = ApplyTransportPatch(config, rules, q, d, context, p)
          /\ t = [site |-> s, direction |-> d, in |-> p] ++ Patched(PatchPayload(config, rules, kind, context, p), otherwise)
    BY <2>2
  <2>4. PICK structured : structured = PatchPayload(config, rules, kind, context, p)
    OBVIOUS
  <2>5. /\ t.direction = d /\ t.in = p
        /\ t.out = IF structured = {} THEN otherwise ELSE CHOOSE m \in structured : TRUE
    BY <2>3, <2>4, PatchedFields
  <2>6. IsPayload(t.in)
    BY <2>5, PayloadsAssumption
  <2>7. PICK protocol, host, port : context = Context(protocol, t.direction, host, port)
    BY <2>3, <2>5
  <2>8. structured = {}
    BY <2>1, <2>4, <2>5, <2>6, <2>7, QuietHttp
  <2>9. otherwise = t.in
    <3>1. ASSUME NEW q \in TransportProtocols
          PROVE  ApplyTransportPatch(config, rules, q, t.direction, context, t.in) = t.in
      BY <2>1, <2>5, <2>6, <2>7, QuietTransport DEF IsPayload
    <3> QED
      BY <2>3, <2>5, <3>1
  <2> QED
    BY <2>5, <2>8, <2>9
<1> QED
  BY <1>1, ServeInvHolds, PTL

-----------------------------------------------------------------------------
(* What the adapter makes of a message. *)

(* Two sets of headers agree about one. *)
Agree(h, f, g) == (h \in DOMAIN f <=> h \in DOMAIN g) /\ (h \in DOMAIN f => f[h] = g[h])

LEMMA ElsewhereAsBefore ==
  ASSUME NEW f, NEW g, NEW h, h \notin DOMAIN f
  PROVE  Agree(h, f ++ g, g)
<1>1. PICK m : m = f ++ g
  OBVIOUS
<1>2. DOMAIN m = (DOMAIN f) \cup (DOMAIN g)
  BY <1>1, Overwritten
<1>3. \A x \in DOMAIN m : m[x] = IF x \in DOMAIN f THEN f[x] ELSE g[x]
  BY <1>1 DEF ++
<1> QED
  BY <1>1, <1>2, <1>3 DEF Agree

(* Rules change no header that none of them sets. *)
NotSet(h, loaded) == \A i \in 1..Len(loaded) : h \notin DOMAIN loaded[i].header_set

LEMMA RulesKeepHeaders ==
  ASSUME NEW loaded \in Seq(RuleSet), NEW context, NEW m \in MessageSet, NEW h
  PROVE  /\ ApplyHttp(loaded, context, m) \in MessageSet
         /\ NotSet(h, loaded) => Agree(h, ApplyHttp(loaded, context, m).headers, m.headers)
<1>1. PICK n \in Nat : n = Len(loaded)
  OBVIOUS
<1>2. PICK after : HttpRun(loaded, n, context, m, after)
  BY <1>1, HttpSteps
<1>3. after[n] \in MessageSet
  <2>1. n \in 0..n
    OBVIOUS
  <2> QED
    BY <1>2, <2>1 DEF HttpRun
<1>4. ASSUME NotSet(h, loaded) PROVE Agree(h, after[n].headers, m.headers)
  <2> DEFINE G == {i \in 0..n : Agree(h, after[i].headers, m.headers)}
  <2>1. 0 \in G
    <3>1. 0 \in 0..n
      OBVIOUS
    <3> QED
      BY <1>2, <3>1 DEF HttpRun, Agree
  <2>2. ASSUME NEW i \in 1..n, i - 1 \in G PROVE i \in G
    <3>1. PICK r : r = loaded[i]
      OBVIOUS
    <3>2. PICK was : was = after[i - 1]
      OBVIOUS
    <3>3. after[i] = HttpStep(r, context, was)
      BY <1>2, <3>1, <3>2 DEF HttpRun
    <3>4. Agree(h, r.header_set ++ was.headers, was.headers)
      BY <1>1, <1>4, <3>1, ElsewhereAsBefore DEF NotSet
    <3>5. after[i].headers = r.header_set ++ was.headers \/ after[i] = was
      BY <3>3 DEF HttpStep
    <3>6. Agree(h, was.headers, m.headers)
      BY <2>2, <3>2
    <3>7. Agree(h, after[i].headers, m.headers)
      BY <3>4, <3>5, <3>6 DEF Agree
    <3>8. i \in 0..n
      OBVIOUS
    <3> QED
      BY <3>7, <3>8
  <2>3. n \in G
    <3>1. G \in SUBSET (0..n)
      OBVIOUS
    <3> HIDE DEF G
    <3> QED
      BY <2>1, <2>2, <3>1, UpTo
  <2> QED
    BY <2>3
<1> QED
  BY <1>2, <1>3, <1>4 DEF HttpRun

LEMMA PatchKeepsHeaders ==
  ASSUME NEW cfg, NEW loaded \in Seq(RuleSet), NEW context, NEW m \in MessageSet, NEW response, NEW h
  PROVE  /\ PatchMessage(cfg, loaded, context, m, response) \in MessageSet
         /\ NotSet(h, loaded) /\ h # "via" =>
              Agree(h, PatchMessage(cfg, loaded, context, m, response).headers, m.headers)
<1>1. PICK ruled \in MessageSet :
        ruled = ApplyHttp(loaded, context, m) /\ (NotSet(h, loaded) => Agree(h, ruled.headers, m.headers))
  BY RulesKeepHeaders
<1>2. ruled.headers \in HeaderMaps /\ ruled.body \in Seq(Token) /\ ruled.changed \in BOOLEAN
  BY DEF MessageSet
<1>3. PICK headers : headers = Only("via", ProxyName) ++ ruled.headers
  OBVIOUS
<1>4. headers \in HeaderMaps
  <2>1. "via" \in STRING \cup HeaderNames /\ ProxyName \in Nat
    BY DEF HeaderNames, ProxyName
  <2> QED
    BY <1>2, <1>3, <2>1, SomeHeaders, HeadersOverwritten
<1>5. h # "via" => Agree(h, headers, ruled.headers)
  <2>1. DOMAIN Only("via", ProxyName) = {"via"}
    BY DEF Only
  <2> QED
    BY <1>3, <2>1, ElsewhereAsBefore
<1>6. PICK named \in MessageSet :
        /\ named = [ruled EXCEPT !.headers = headers]
        /\ named.headers = headers /\ named.body = ruled.body /\ named.changed = ruled.changed
  <2>1. [ruled EXCEPT !.headers = headers] \in MessageSet
    BY <1>4 DEF MessageSet
  <2> QED
    BY <2>1 DEF MessageSet
<1>7. PICK via \in MessageSet :
        /\ via = IF cfg["patch.add_proxy_header"]
                   THEN [named EXCEPT !.changed = @ \/ named.headers # ruled.headers] ELSE ruled
        /\ via.headers \in {headers, ruled.headers}
  <2>1. PICK c \in BOOLEAN : c = (named.changed \/ named.headers # ruled.headers)
    OBVIOUS
  <2>2. PICK q : q = [named EXCEPT !.changed = c]
    OBVIOUS
  <2>3. q \in MessageSet /\ q.headers = headers
    BY <1>6, <2>2 DEF MessageSet
  <2>4. [named EXCEPT !.changed = @ \/ named.headers # ruled.headers] = q
    BY <2>1, <2>2
  <2> QED
    BY <2>3, <2>4
<1>8. PICK q : q = [via EXCEPT !.body = Append(@, Suffix(response)), !.changed = TRUE]
  OBVIOUS
<1>9. q \in MessageSet /\ q.headers = via.headers
  <2>1. Suffix(response) \in Token
    BY DEF Suffix, T, Token, TokenKinds
  <2>2. Append(via.body, Suffix(response)) \in Seq(Token)
    BY <2>1 DEF MessageSet
  <2>3. TRUE \in BOOLEAN
    OBVIOUS
  <2> QED
    BY <1>8, <2>2, <2>3 DEF MessageSet
<1>10. PatchMessage(cfg, loaded, context, m, response) \in {q, via}
  BY <1>1, <1>3, <1>6, <1>7, <1>8 DEF PatchMessage
<1>11. NotSet(h, loaded) /\ h # "via" => Agree(h, via.headers, m.headers)
  BY <1>1, <1>5, <1>7 DEF Agree
<1> QED
  BY <1>9, <1>10, <1>11

(* The start line of a message, up to the end of its line, is no header. *)
LEMMA StartLine ==
  ASSUME NEW p, IsPayload(p), NEW last \in Nat, last = FirstOf(p, "end"), last # 0,
         IsResponse(p) \/ HasTarget(p)
  PROVE  /\ FirstOf(p, "line") \in 1..(last - 1)
         /\ \A i \in 1..FirstOf(p, "line") : p[i].k \notin HeaderNames \cup {"end"}
<1>1. p \in Seq(Token) /\ last # 1
  BY DEF IsPayload
<1>2. last \in 2..Len(p) /\ p[last].k = "end"
  BY <1>1, FirstPlace
<1>3. p[1].k \in {"http", "connect"}
  <2>1. CASE IsResponse(p)
    BY <2>1 DEF IsResponse, T
  <2>2. CASE HasTarget(p)
    <3>1. 2 \in 2..last /\ p[2].k = "sp"
      BY <1>2, <2>2 DEF HasTarget
    <3> QED
      BY <3>1 DEF IsPayload
  <2> QED
    BY <2>1, <2>2
<1> DEFINE I == {i \in 1..last : p[i].k \in HeaderNames \cup {"end"}}
<1>4. PICK j \in I : \A i \in I : j <= i
  <2>1. last \in I /\ I \in SUBSET Nat
    BY <1>2
  <2> HIDE DEF I
  <2> QED
    BY <2>1, SmallestExists
<1>5. j \in 2..last
  <2>1. j # 1
    BY <1>3, <1>4 DEF HeaderNames
  <2> QED
    BY <1>4, <2>1
<1>6. p[j - 1].k = "line"
  <2>1. p[j - 1].k \in HeaderNames \cup {"line"}
    BY <1>4, <1>5 DEF IsPayload
  <2>2. j - 1 \notin I
    BY <1>4, <1>5
  <2>3. j - 1 \in 1..last
    BY <1>5
  <2> QED
    BY <2>1, <2>2, <2>3
<1>7. FirstOf(p, "line") \in 1..(j - 1)
  <2>1. j - 1 \in 1..Len(p)
    BY <1>2, <1>5
  <2>2. \/ FirstOf(p, "line") = 0 /\ \A i \in 1..Len(p) : p[i].k # "line"
        \/ FirstOf(p, "line") \in 1..Len(p) /\ \A i \in 1..(FirstOf(p, "line") - 1) : p[i].k # "line"
    BY <1>1, FirstPlace
  <2> QED
    BY <1>6, <2>1, <2>2
<1>8. \A i \in 1..(j - 1) : i \in 1..last /\ i \notin I
  BY <1>4, <1>5
<1> QED
  BY <1>5, <1>7, <1>8

-----------------------------------------------------------------------------
(* The headers that are read are those of the head, and one that stands alone
   has its value. *)
LEMMA HeadersParsed ==
  ASSUME NEW p \in Seq(Token), NEW n \in Nat, n = FirstOf(p, "end"), n <= Len(p)
  PROVE  /\ ParseHeaders(p) \in HeaderMaps
         /\ \A h \in DOMAIN ParseHeaders(p) : \E i \in 1..n : p[i].k = h
         /\ \A i \in 1..n : p[i].k \in HeaderNames /\ (\A j \in 1..n : p[j].k = p[i].k => j = i)
                              => p[i].k \in DOMAIN ParseHeaders(p) /\ ParseHeaders(p)[p[i].k] = p[i].n
<1>1. PICK after \in [0..n -> HeaderMaps] :
        /\ after[0] = <<>> /\ after[n] = ParseHeaders(p)
        /\ \A i \in 1..n : after[i] = HeaderStep(after[i - 1], p[i])
  BY HeaderSteps
<1>2. n \in 0..n
  OBVIOUS
<1>3. ASSUME NEW j \in 1..n
      PROVE  /\ p[j].k \in HeaderNames => DOMAIN after[j] = {p[j].k} \cup DOMAIN after[j - 1]
             /\ p[j].k \in HeaderNames => after[j][p[j].k] = p[j].n
             /\ p[j].k \in HeaderNames =>
                  \A x \in DOMAIN after[j - 1] : x # p[j].k => after[j][x] = after[j - 1][x]
             /\ p[j].k \notin HeaderNames => after[j] = after[j - 1]
  <2>1. PICK was : was = after[j - 1]
    OBVIOUS
  <2>2. PICK m : m = Only(p[j].k, p[j].n) ++ was
    OBVIOUS
  <2>3. after[j] = IF p[j].k \in HeaderNames THEN m ELSE was
    BY <1>1, <2>1, <2>2 DEF HeaderStep
  <2>4. PICK one : one = Only(p[j].k, p[j].n) /\ DOMAIN one = {p[j].k} /\ one[p[j].k] = p[j].n
    BY DEF Only
  <2>5. DOMAIN m = {p[j].k} \cup DOMAIN was
    BY <2>2, <2>4, Overwritten
  <2>6. \A x \in DOMAIN m : m[x] = IF x \in DOMAIN one THEN one[x] ELSE was[x]
    BY <2>2, <2>4 DEF ++
  <2> QED
    BY <2>1, <2>3, <2>4, <2>5, <2>6
<1>4. \A h \in DOMAIN ParseHeaders(p) : \E i \in 1..n : p[i].k = h
  <2> DEFINE G == {j \in 0..n : \A h \in DOMAIN after[j] : \E i \in 1..n : p[i].k = h}
  <2>1. 0 \in G
    <3>1. DOMAIN after[0] = {}
      BY <1>1
    <3>2. 0 \in 0..n
      OBVIOUS
    <3> QED
      BY <3>1, <3>2
  <2>2. ASSUME NEW j \in 1..n, j - 1 \in G PROVE j \in G
    <3>1. j \in 0..n
      OBVIOUS
    <3>2. DOMAIN after[j] \subseteq {p[j].k} \cup DOMAIN after[j - 1]
      BY <1>3
    <3>3. \A h \in DOMAIN after[j] : \E i \in 1..n : p[i].k = h
      BY <2>2, <3>2
    <3> QED
      BY <3>1, <3>3
  <2>3. G \in SUBSET (0..n)
    OBVIOUS
  <2> HIDE DEF G
  <2>4. n \in G
    BY <2>1, <2>2, <2>3, UpTo
  <2> QED
    BY <1>1, <2>4 DEF G
<1>5. ASSUME NEW i \in 1..n, p[i].k \in HeaderNames, \A j \in 1..n : p[j].k = p[i].k => j = i
      PROVE  p[i].k \in DOMAIN ParseHeaders(p) /\ ParseHeaders(p)[p[i].k] = p[i].n
  <2> DEFINE Has(j) == p[i].k \in DOMAIN after[j] /\ after[j][p[i].k] = p[i].n
             G == {j \in 0..n : j >= i => Has(j)}
  <2>1. 0 \in G
    OBVIOUS
  <2>2. ASSUME NEW j \in 1..n, j - 1 \in G PROVE j \in G
    <3>1. CASE j = i
      <4>1. Has(j)
        BY <1>3, <1>5, <3>1
      <4> QED
        BY <4>1
    <3>2. CASE j > i
      <4>1. Has(j - 1) /\ p[j].k # p[i].k
        BY <1>5, <2>2, <3>2
      <4>2. Has(j)
        BY <1>3, <4>1
      <4> QED
        BY <4>2
    <3>3. CASE j < i
      BY <3>3
    <3> QED
      BY <3>1, <3>2, <3>3
  <2>3. G \in SUBSET (0..n)
    OBVIOUS
  <2> HIDE DEF G
  <2>4. G = 0..n
    BY <2>1, <2>2, <2>3, UpTo
  <2>5. n \in G
    BY <1>2, <2>4
  <2>6. n >= i
    OBVIOUS
  <2>7. Has(n)
    BY <2>5, <2>6 DEF G
  <2> QED
    BY <1>1, <2>7
<1> QED
  BY <1>1, <1>2, <1>4, <1>5

(* The line that a header comes out as. *)
LineOf(h, hs, size) == IF h \in LengthNames THEN T("len", size) ELSE T(h, hs[h])

(* The lines s that are written for the headers hs whose names are of N: one
   for each of them, name says which. *)
LinesFor(s, N, hs, size) ==
  /\ s \in Seq(Token)
  /\ \E name \in [1..Len(s) -> N \cap DOMAIN hs] :
       /\ \A i \in 1..Len(s) : s[i] = LineOf(name[i], hs, size)
       /\ \A h \in N \cap DOMAIN hs : \E i \in 1..Len(s) : name[i] = h
       /\ \A i, j \in 1..Len(s) : name[i] = name[j] => i = j

LEMMA LineAdded ==
  ASSUME NEW hs \in HeaderMaps, NEW size \in Nat, NEW N \in SUBSET HeaderNames, NEW h \in HeaderNames \ N,
         NEW s, LinesFor(s, N, hs, size),
         NEW line, line = IF h \in DOMAIN hs THEN <<LineOf(h, hs, size)>> ELSE <<>>
  PROVE  LinesFor(s \o line, N \cup {h}, hs, size)
<1>1. s \in Seq(Token)
  BY DEF LinesFor
<1>2. CASE h \notin DOMAIN hs
  <2>1. s \o line = s
    BY <1>1, <1>2
  <2>2. (N \cup {h}) \cap DOMAIN hs = N \cap DOMAIN hs
    BY <1>2
  <2> QED
    BY <2>1, <2>2 DEF LinesFor
<1>3. CASE h \in DOMAIN hs
  <2>1. PICK t \in Token : t = LineOf(h, hs, size)
    <3>1. hs[h] \in Nat /\ h \in TokenKinds /\ "len" \in TokenKinds
      BY <1>3, HeaderMap DEF TokenKinds, HeaderNames
    <3>2. T(h, hs[h]) \in Token /\ T("len", size) \in Token
      BY <3>1 DEF T, Token
    <3> QED
      BY <3>2 DEF LineOf
  <2>2. PICK u : u = s \o line
    OBVIOUS
  <2>3. PICK l \in Nat : l = Len(s)
    BY <1>1
  <2>4. u \in Seq(Token) /\ Len(u) = l + 1 /\ u[l + 1] = t /\ \A i \in 1..l : u[i] = s[i]
    BY <1>1, <1>3, <2>1, <2>2, <2>3
  <2>5. \A i \in 1..(l + 1) : i \in 1..l \/ i = l + 1
    BY <2>3
  <2>6. 1..l \subseteq 1..(l + 1) /\ l + 1 \in 1..(l + 1) /\ l + 1 \notin 1..l
    BY <2>3
  <2>7. PICK was \in [1..l -> N \cap DOMAIN hs] :
          /\ \A i \in 1..l : s[i] = LineOf(was[i], hs, size)
          /\ \A g \in N \cap DOMAIN hs : \E i \in 1..l : was[i] = g
          /\ \A i, j \in 1..l : was[i] = was[j] => i = j
    BY <2>3 DEF LinesFor
  <2>8. PICK name : name = [i \in 1..(l + 1) |-> IF i = l + 1 THEN h ELSE was[i]]
    OBVIOUS
  <2>9. name[l + 1] = h /\ \A i \in 1..l : name[i] = was[i] /\ was[i] # h /\ was[i] \in N \cap DOMAIN hs
    BY <2>6, <2>7, <2>8
  <2>10. name \in [1..(l + 1) -> (N \cup {h}) \cap DOMAIN hs]
    <3>1. \A i \in 1..(l + 1) : (IF i = l + 1 THEN h ELSE was[i]) \in (N \cup {h}) \cap DOMAIN hs
      BY <1>3, <2>5, <2>9
    <3> QED
      BY <2>8, <3>1
  <2>11. \A i \in 1..(l + 1) : u[i] = LineOf(name[i], hs, size)
    BY <2>1, <2>4, <2>5, <2>7, <2>9
  <2>12. \A g \in (N \cup {h}) \cap DOMAIN hs : \E i \in 1..(l + 1) : name[i] = g
    <3> SUFFICES ASSUME NEW g \in (N \cup {h}) \cap DOMAIN hs PROVE \E i \in 1..(l + 1) : name[i] = g
      OBVIOUS
    <3>1. CASE g = h
      BY <2>6, <2>9, <3>1
    <3>2. CASE g # h
      <4>1. PICK i \in 1..l : was[i] = g
        BY <2>7, <3>2
      <4> QED
        BY <2>6, <2>9, <4>1
    <3> QED
      BY <3>1, <3>2
  <2>13. \A i, j \in 1..(l + 1) : name[i] = name[j] => i = j
    BY <2>5, <2>7, <2>9
  <2>14. Len(u) = l + 1
    BY <2>4
  <2>15. LinesFor(u, N \cup {h}, hs, size)
    <3>1. name \in [1..Len(u) -> (N \cup {h}) \cap DOMAIN hs]
      BY <2>10, <2>14
    <3>2. \A i \in 1..Len(u) : u[i] = LineOf(name[i], hs, size)
      BY <2>11, <2>14
    <3>3. \A g \in (N \cup {h}) \cap DOMAIN hs : \E i \in 1..Len(u) : name[i] = g
      BY <2>12, <2>14
    <3>4. \A i, j \in 1..Len(u) : name[i] = name[j] => i = j
      BY <2>13, <2>14
    <3>5. u \in Seq(Token)
      BY <2>4
    <3> QED
      BY <3>1, <3>2, <3>3, <3>4, <3>5, Zenon DEF LinesFor
  <2> QED
    BY <2>2, <2>15
<1> QED
  BY <1>2, <1>3

LEMMA HeaderLinesAre ==
  ASSUME NEW hs \in HeaderMaps, NEW size \in Nat
  PROVE  LinesFor(HeaderLines(hs, size), HeaderNames, hs, size)
<1> DEFINE Line(h) == IF h \in DOMAIN hs THEN <<LineOf(h, hs, size)>> ELSE <<>>
           Are(s, N) == LinesFor(s, N, hs, size)
<1>1. Are(<<>>, {})
  <2>1. <<>> \in Seq(Token) /\ Len(<<>>) = 0 /\ 1..0 = {}
    OBVIOUS
  <2>2. PICK name \in [1..0 -> {} \cap DOMAIN hs] : TRUE
    <3>1. [i \in 1..0 |-> i] \in [1..0 -> {} \cap DOMAIN hs]
      OBVIOUS
    <3> QED
      BY <3>1
  <2> QED
    BY <2>1, <2>2 DEF LinesFor
<1>2. \A N \in SUBSET HeaderNames : \A h \in HeaderNames \ N : \A s :
        Are(s, N) => Are(s \o Line(h), N \cup {h})
  BY LineAdded
<1>3. Line("field") \in Seq(Token)
  <2>1. "field" \in DOMAIN hs => hs["field"] \in Nat
    BY HeaderMap
  <2>2. "field" \in DOMAIN hs => LineOf("field", hs, size) \in Token
    BY <2>1 DEF LineOf, LengthNames, T, Token, TokenKinds, HeaderNames
  <2> QED
    BY <2>2
<1>4. HeaderLines(hs, size) =
        Line("field") \o Line("host") \o Line("hosthint") \o Line("xlen") \o Line("coding")
          \o Line("lenlower") \o Line("lenhint") \o Line("len") \o Line("via")
  BY DEF HeaderLines, LineOf
<1>5. <<>> \o Line("field") = Line("field")
  BY <1>3
<1> HIDE DEF Line, Are
<1>6. Are(Line("field"), {"field"})
  <2>1. Are(<<>> \o Line("field"), {} \cup {"field"})
    BY <1>1, <1>2 DEF HeaderNames
  <2> QED
    BY <1>5, <2>1
<1>7. PICK s2 : s2 = Line("field") \o Line("host") /\ Are(s2, {"field"} \cup {"host"})
  BY <1>2, <1>6 DEF HeaderNames
<1>8. PICK s3 : s3 = s2 \o Line("hosthint") /\ Are(s3, {"field", "host"} \cup {"hosthint"})
  BY <1>2, <1>7 DEF HeaderNames
<1>9. PICK s4 : s4 = s3 \o Line("xlen") /\ Are(s4, {"field", "host", "hosthint"} \cup {"xlen"})
  BY <1>2, <1>8 DEF HeaderNames
<1>10. PICK s5 : s5 = s4 \o Line("coding") /\ Are(s5, {"field", "host", "hosthint", "xlen"} \cup {"coding"})
  BY <1>2, <1>9 DEF HeaderNames
<1>11. PICK s6 : s6 = s5 \o Line("lenlower")
                 /\ Are(s6, {"field", "host", "hosthint", "xlen", "coding"} \cup {"lenlower"})
  BY <1>2, <1>10 DEF HeaderNames
<1>12. PICK s7 : s7 = s6 \o Line("lenhint")
                 /\ Are(s7, {"field", "host", "hosthint", "xlen", "coding", "lenlower"} \cup {"lenhint"})
  BY <1>2, <1>11 DEF HeaderNames
<1>13. PICK s8 : s8 = s7 \o Line("len")
                 /\ Are(s8, {"field", "host", "hosthint", "xlen", "coding", "lenlower", "lenhint"} \cup {"len"})
  BY <1>2, <1>12 DEF HeaderNames
<1>14. PICK s9 : s9 = s8 \o Line("via")
                 /\ Are(s9, {"field", "host", "hosthint", "xlen", "coding", "lenlower", "lenhint", "len"} \cup {"via"})
  BY <1>2, <1>13 DEF HeaderNames
<1>15. {"field", "host", "hosthint", "xlen", "coding", "lenlower", "lenhint", "len"} \cup {"via"} = HeaderNames
  BY DEF HeaderNames
<1>16. HeaderLines(hs, size) = s9
  BY <1>4, <1>7, <1>8, <1>9, <1>10, <1>11, <1>12, <1>13, <1>14
<1> QED
  BY <1>14, <1>15, <1>16 DEF Are

(* A message that has been put together again: its head, where it ends, its
   lines and its body.  All headers that begin with Content-Length are lines
   with the length of the body, one line each, or one line when there is none. *)
Rebuilt(out, start, hs, body) ==
  LET last == FirstOf(out, "end")
  IN  /\ out \in Seq(Token) /\ last \in 1..Len(out) /\ Body(out) = body
      /\ Len(start) < last /\ SubSeq(out, 1, Len(start)) = start
      /\ \A i \in 1..last : out[i].k \in HeaderNames =>
           IF out[i].k = "len" THEN out[i].n = Len(body)
           ELSE out[i].k \in DOMAIN hs \ LengthNames /\ out[i].n = hs[out[i].k]
      /\ \A h \in {"len"} \cup ((HeaderNames \cap DOMAIN hs) \ LengthNames) : \E i \in 1..last : out[i].k = h
      /\ \A i, j \in 1..last : out[i].k \in HeaderNames \ {"len"} /\ out[i].k = out[j].k => i = j
      /\ (\A g, h \in LengthNames \cap DOMAIN hs : g = h) =>
           \A i, j \in 1..last : out[i].k = "len" /\ out[j].k = "len" => i = j

(* What is behind the start line of such a message: the lines of the headers,
   and the length where none of them is one. *)
LinesRebuilt(s, hs, size) ==
  /\ s \in Seq(Token)
  /\ \A i \in 1..Len(s) :
       /\ s[i].k \in HeaderNames
       /\ IF s[i].k = "len" THEN s[i].n = size
          ELSE s[i].k \in DOMAIN hs \ LengthNames /\ s[i].n = hs[s[i].k]
  /\ \A h \in {"len"} \cup ((HeaderNames \cap DOMAIN hs) \ LengthNames) : \E i \in 1..Len(s) : s[i].k = h
  /\ \A i, j \in 1..Len(s) : s[i].k # "len" /\ s[i].k = s[j].k => i = j
  /\ (\A g, h \in LengthNames \cap DOMAIN hs : g = h) =>
       \A i, j \in 1..Len(s) : s[i].k = "len" /\ s[j].k = "len" => i = j

LEMMA LinesAndLength ==
  ASSUME NEW hs \in HeaderMaps, NEW size \in Nat
  PROVE  LinesRebuilt(HeaderLines(hs, size) \o LengthLine(hs, size), hs, size)
<1>1. PICK s \in Seq(Token) : s = HeaderLines(hs, size) /\ LinesFor(s, HeaderNames, hs, size)
  BY HeaderLinesAre DEF LinesFor
<1>2. PICK l \in Nat : l = Len(s)
  OBVIOUS
<1>3. PICK name \in [1..l -> HeaderNames \cap DOMAIN hs] :
        /\ \A i \in 1..l : s[i] = LineOf(name[i], hs, size)
        /\ \A h \in HeaderNames \cap DOMAIN hs : \E i \in 1..l : name[i] = h
        /\ \A i, j \in 1..l : name[i] = name[j] => i = j
  BY <1>1, <1>2 DEF LinesFor
<1>4. LengthNames \subseteq HeaderNames /\ "len" \in LengthNames
  BY DEF LengthNames, HeaderNames
<1>5. \A h : /\ LineOf(h, hs, size).k = IF h \in LengthNames THEN "len" ELSE h
             /\ LineOf(h, hs, size).n = IF h \in LengthNames THEN size ELSE hs[h]
  BY DEF LineOf, T
<1>6. \A i \in 1..l : /\ s[i].k = IF name[i] \in LengthNames THEN "len" ELSE name[i]
                      /\ s[i].n = IF name[i] \in LengthNames THEN size ELSE hs[name[i]]
                      /\ name[i] \in HeaderNames \cap DOMAIN hs
  BY <1>3, <1>5
<1>7. \A i \in 1..l :
        /\ s[i].k \in HeaderNames
        /\ IF s[i].k = "len" THEN s[i].n = size
           ELSE s[i].k \in DOMAIN hs \ LengthNames /\ s[i].n = hs[s[i].k]
  BY <1>4, <1>6
<1>8. \A h \in (HeaderNames \cap DOMAIN hs) \ LengthNames : \E i \in 1..l : s[i].k = h
  BY <1>3, <1>6
<1>9. \A i, j \in 1..l : s[i].k # "len" /\ s[i].k = s[j].k => i = j
  BY <1>3, <1>4, <1>6
<1>10. CASE LengthNames \cap DOMAIN hs # {}
  <2>1. HeaderLines(hs, size) \o LengthLine(hs, size) = s
    BY <1>1, <1>10 DEF LengthLine
  <2>2. \E i \in 1..l : s[i].k = "len"
    <3>1. PICK h \in LengthNames \cap DOMAIN hs : TRUE
      BY <1>10
    <3>2. PICK i \in 1..l : name[i] = h
      BY <1>3, <1>4, <3>1
    <3> QED
      BY <1>6, <3>1, <3>2
  <2>3. ASSUME \A g, h \in LengthNames \cap DOMAIN hs : g = h
        PROVE  \A i, j \in 1..l : s[i].k = "len" /\ s[j].k = "len" => i = j
    <3>1. \A i \in 1..l : s[i].k = "len" => name[i] \in LengthNames \cap DOMAIN hs
      BY <1>4, <1>6
    <3> QED
      BY <1>3, <2>3, <3>1
  <2> QED
    BY <1>1, <1>2, <1>7, <1>8, <1>9, <2>1, <2>2, <2>3 DEF LinesRebuilt
<1>11. CASE LengthNames \cap DOMAIN hs = {}
  <2>1. PICK t \in Token : t = T("len", size) /\ t.k = "len" /\ t.n = size
    <3>1. T("len", size) \in Token
      BY DEF T, Token, TokenKinds, HeaderNames
    <3> QED
      BY <3>1 DEF T
  <2>2. PICK u : u = HeaderLines(hs, size) \o LengthLine(hs, size)
    OBVIOUS
  <2>3. u = s \o <<t>>
    BY <1>1, <1>11, <2>1, <2>2 DEF LengthLine
  <2>4. u \in Seq(Token) /\ Len(u) = l + 1 /\ u[l + 1] = t /\ \A i \in 1..l : u[i] = s[i]
    BY <1>2, <2>3
  <2>5. \A i \in 1..(l + 1) : i \in 1..l \/ i = l + 1
    BY <1>2
  <2>6. 1..l \subseteq 1..(l + 1) /\ l + 1 \in 1..(l + 1)
    BY <1>2
  <2>7. \A i \in 1..l : s[i].k # "len"
    BY <1>6, <1>11, <1>4
  <2>8. \A i \in 1..(l + 1) :
          /\ u[i].k \in HeaderNames
          /\ IF u[i].k = "len" THEN u[i].n = size
             ELSE u[i].k \in DOMAIN hs \ LengthNames /\ u[i].n = hs[u[i].k]
    <3>1. \A i \in 1..l :
            /\ u[i].k \in HeaderNames
            /\ IF u[i].k = "len" THEN u[i].n = size
               ELSE u[i].k \in DOMAIN hs \ LengthNames /\ u[i].n = hs[u[i].k]
      BY <1>7, <2>4
    <3>2. u[l + 1].k = "len" /\ u[l + 1].n = size
      BY <2>1, <2>4
    <3> QED
      BY <1>4, <2>5, <3>1, <3>2
  <2>9. \A h \in {"len"} \cup ((HeaderNames \cap DOMAIN hs) \ LengthNames) : \E i \in 1..(l + 1) : u[i].k = h
    BY <1>8, <2>1, <2>4, <2>6
  <2>10. \A i, j \in 1..(l + 1) : u[i].k # "len" /\ u[i].k = u[j].k => i = j
    BY <1>9, <2>1, <2>4, <2>5
  <2>11. \A i, j \in 1..(l + 1) : u[i].k = "len" /\ u[j].k = "len" => i = j
    BY <2>4, <2>5, <2>7
  <2> QED
    BY <2>2, <2>4, <2>8, <2>9, <2>10, <2>11 DEF LinesRebuilt
<1> QED
  BY <1>10, <1>11

(* Two sequences of tokens, one behind the other. *)
LEMMA Joined ==
  ASSUME NEW a \in Seq(Token), NEW b \in Seq(Token)
  PROVE  /\ a \o b \in Seq(Token) /\ Len(a \o b) = Len(a) + Len(b)
         /\ \A i \in 1..Len(a) : (a \o b)[i] = a[i]
         /\ \A i \in 1..Len(b) : (a \o b)[Len(a) + i] = b[i]
OBVIOUS

LEMMA RebuiltIs ==
  ASSUME NEW start \in Seq(Token), \A i \in 1..Len(start) : start[i].k \notin HeaderNames \cup {"end"},
         NEW m \in MessageSet
  PROVE  Rebuilt(RebuildMessage(start, m), start, m.headers, m.body)
<1>1. PICK body \in Seq(Token) : body = m.body
  BY DEF MessageSet
<1>2. PICK hs \in HeaderMaps : hs = m.headers
  BY DEF MessageSet
<1>3. PICK lines : lines = HeaderLines(hs, Len(body)) \o LengthLine(hs, Len(body)) /\ LinesRebuilt(lines, hs, Len(body))
  <2>1. Len(body) \in Nat
    OBVIOUS
  <2> QED
    BY <2>1, LinesAndLength
<1>4. PICK stop \in Token : stop = T("end", 0) /\ stop.k = "end"
  <2>1. T("end", 0) \in Token
    BY DEF T, Token, TokenKinds
  <2>2. T("end", 0).k = "end"
    BY DEF T
  <2> QED
    BY <2>1, <2>2
<1>5. PICK out : out = start \o lines \o <<stop>> \o body
  OBVIOUS
<1>6. lines \in Seq(Token)
  BY <1>3 DEF LinesRebuilt
<1>7. PICK a \in Nat : a = Len(start)
  OBVIOUS
<1>8. PICK b \in Nat : b = Len(lines)
  BY <1>6
<1>9. PICK c \in Nat : c = Len(body)
  OBVIOUS
<1>10. PICK last \in Nat : last = a + b + 1
  OBVIOUS
<1>11. /\ out \in Seq(Token) /\ Len(out) = last + c
       /\ \A i \in 1..a : out[i] = start[i]
       /\ \A i \in 1..b : out[a + i] = lines[i]
       /\ out[last] = stop
       /\ \A i \in 1..c : out[last + i] = body[i]
  <2>1. PICK head : head = start \o lines
    OBVIOUS
  <2>2. head \in Seq(Token) /\ Len(head) = a + b
    BY <1>6, <1>7, <1>8, <2>1
  <2>3. (\A i \in 1..a : head[i] = start[i]) /\ \A i \in 1..b : head[a + i] = lines[i]
    BY <1>6, <1>7, <1>8, <2>1
  <2>4. PICK whole : whole = head \o <<stop>>
    OBVIOUS
  <2>5. whole \in Seq(Token) /\ Len(whole) = last /\ whole[last] = stop /\ \A i \in 1..(a + b) : whole[i] = head[i]
    <3>0. head \in Seq(Token)
      BY <2>2
    <3>1. PICK l \in Nat : l = Len(head)
      BY <3>0
    <3>2. whole \in Seq(Token) /\ Len(whole) = l + 1 /\ whole[l + 1] = stop /\ \A i \in 1..l : whole[i] = head[i]
      BY <2>4, <3>0, <3>1
    <3>3. l = a + b /\ last = l + 1
      BY <1>10, <2>2, <3>1
    <3> QED
      BY <3>2, <3>3
  <2>6. out = whole \o body
    BY <1>5, <2>1, <2>4
  <2>7. out \in Seq(Token) /\ Len(out) = last + c /\ (\A i \in 1..last : out[i] = whole[i])
        /\ \A i \in 1..c : out[last + i] = body[i]
    <3>1. whole \in Seq(Token) /\ Len(whole) = last
      BY <2>5
    <3>2. body \in Seq(Token)
      BY <1>1
    <3> QED
      BY <1>9, <2>6, <3>1, <3>2, Joined
  <2>8. \A i \in 1..a : i \in 1..(a + b) /\ i \in 1..last
    BY <1>10
  <2>9. \A i \in 1..b : a + i \in 1..(a + b) /\ a + i \in 1..last
    BY <1>10
  <2>10. last \in 1..last
    BY <1>10
  <2> QED
    BY <2>3, <2>5, <2>7, <2>8, <2>9, <2>10
<1>12. \A i \in 1..last : i \in 1..a \/ (\E j \in 1..b : i = a + j) \/ i = last
  <2> SUFFICES ASSUME NEW i \in 1..last, i \notin 1..a, i # last PROVE \E j \in 1..b : i = a + j
    OBVIOUS
  <2>1. i - a \in 1..b /\ i = a + (i - a)
    BY <1>10
  <2> QED
    BY <2>1
<1>13. \A i \in 1..b :
         /\ lines[i].k \in HeaderNames
         /\ IF lines[i].k = "len" THEN lines[i].n = c
            ELSE lines[i].k \in DOMAIN hs \ LengthNames /\ lines[i].n = hs[lines[i].k]
  BY <1>3, <1>8, <1>9 DEF LinesRebuilt
<1>14. \A i \in 1..a : out[i].k \notin HeaderNames \cup {"end"}
  BY <1>7, <1>11
<1>15. "end" \notin HeaderNames
  BY DEF HeaderNames
<1>16. FirstOf(out, "end") = last
  <2>1. \A i \in 1..(last - 1) : out[i].k # "end"
    <3>1. \A i \in 1..(last - 1) : i \in 1..last /\ i # last
      BY <1>10
    <3>2. \A i \in 1..b : out[a + i].k \in HeaderNames
      BY <1>11, <1>13
    <3>3. \A i \in 1..last : i # last => out[i].k # "end"
      BY <1>12, <1>14, <1>15, <3>2
    <3> QED
      BY <3>1, <3>3
  <2>2. last \in 1..Len(out) /\ out[last].k = "end"
    BY <1>4, <1>10, <1>11
  <2>3. \/ FirstOf(out, "end") = 0 /\ \A i \in 1..Len(out) : out[i].k # "end"
        \/ /\ FirstOf(out, "end") \in 1..Len(out) /\ out[FirstOf(out, "end")].k = "end"
           /\ \A i \in 1..(FirstOf(out, "end") - 1) : out[i].k # "end"
    BY <1>11, FirstPlace
  <2> QED
    BY <2>1, <2>2, <2>3
<1>17. Body(out) = body
  <2>1. Body(out) = SubSeq(out, last + 1, Len(out))
    BY <1>16 DEF Body
  <2>2. PICK s : s = SubSeq(out, last + 1, Len(out))
    OBVIOUS
  <2>3. s \in Seq(Token) /\ Len(s) = c /\ \A i \in 1..c : s[i] = out[last + i]
    BY <1>11, <2>2
  <2>4. \A i \in 1..c : s[i] = body[i]
    BY <1>11, <2>3
  <2>5. s = body
    BY <1>9, <2>3, <2>4
  <2> QED
    BY <2>1, <2>2, <2>5
<1>18. SubSeq(out, 1, a) = start
  <2>1. PICK s : s = SubSeq(out, 1, a)
    OBVIOUS
  <2>2. s \in Seq(Token) /\ Len(s) = a /\ \A i \in 1..a : s[i] = out[i]
    BY <1>10, <1>11, <2>1
  <2>3. s = start
    BY <1>7, <1>11, <2>2
  <2> QED
    BY <2>1, <2>3
<1>19. \A i \in 1..last : out[i].k \in HeaderNames => \E j \in 1..b : i = a + j /\ out[i] = lines[j]
  BY <1>4, <1>11, <1>12, <1>14, <1>15
<1>20. \A i \in 1..last : out[i].k \in HeaderNames =>
         IF out[i].k = "len" THEN out[i].n = c
         ELSE out[i].k \in DOMAIN hs \ LengthNames /\ out[i].n = hs[out[i].k]
  BY <1>13, <1>19
<1>21. \A h \in {"len"} \cup ((HeaderNames \cap DOMAIN hs) \ LengthNames) : \E i \in 1..last : out[i].k = h
  <2> SUFFICES ASSUME NEW h \in {"len"} \cup ((HeaderNames \cap DOMAIN hs) \ LengthNames)
               PROVE  \E i \in 1..last : out[i].k = h
    OBVIOUS
  <2>1. PICK j \in 1..b : lines[j].k = h
    BY <1>3, <1>8 DEF LinesRebuilt
  <2>2. a + j \in 1..last
    BY <1>10
  <2> QED
    BY <1>11, <2>1, <2>2
<1>22. /\ \A i, j \in 1..b : lines[i].k # "len" /\ lines[i].k = lines[j].k => i = j
       /\ (\A g, h \in LengthNames \cap DOMAIN hs : g = h) =>
            \A i, j \in 1..b : lines[i].k = "len" /\ lines[j].k = "len" => i = j
  BY <1>3, <1>8 DEF LinesRebuilt
<1>23. /\ \A i, j \in 1..last : out[i].k \in HeaderNames \ {"len"} /\ out[i].k = out[j].k => i = j
       /\ (\A g, h \in LengthNames \cap DOMAIN hs : g = h) =>
            \A i, j \in 1..last : out[i].k = "len" /\ out[j].k = "len" => i = j
  <2>1. \A i, j \in 1..last : out[i].k \in HeaderNames \ {"len"} /\ out[i].k = out[j].k => i = j
    BY <1>19, <1>22
  <2>2. "len" \in HeaderNames
    BY DEF HeaderNames
  <2>3. (\A g, h \in LengthNames \cap DOMAIN hs : g = h) =>
          \A i, j \in 1..last : out[i].k = "len" /\ out[j].k = "len" => i = j
    BY <1>19, <1>22, <2>2
  <2> QED
    BY <2>1, <2>3
<1>24. RebuildMessage(start, m) = out
  <2>1. RebuildMessage(start, m) = start \o HeaderLines(hs, c) \o LengthLine(hs, c) \o <<stop>> \o body
    BY <1>1, <1>2, <1>4, <1>9 DEF RebuildMessage
  <2>2. lines = HeaderLines(hs, c) \o LengthLine(hs, c)
    BY <1>3, <1>9
  <2>3. HeaderLines(hs, c) \in Seq(Token)
    BY <1>9, HeaderLinesAre DEF LinesFor
  <2>4. LengthLine(hs, c) \in Seq(Token)
    <3>1. T("len", c) \in Token
      BY DEF T, Token, TokenKinds, HeaderNames
    <3>2. <<T("len", c)>> \in Seq(Token)
      BY <3>1
    <3> QED
      BY <3>2 DEF LengthLine
  <2>5. start \o HeaderLines(hs, c) \o LengthLine(hs, c) = start \o lines
    BY <2>2, <2>3, <2>4
  <2> QED
    BY <1>5, <2>1, <2>5
<1>25. last \in 1..Len(out) /\ a < last
  BY <1>10, <1>11
<1>26. Rebuilt(out, start, hs, body)
  <2>1. Len(start) < last
    BY <1>7, <1>25
  <2>2. SubSeq(out, 1, Len(start)) = start
    BY <1>7, <1>18
  <2>3. \A i \in 1..last : out[i].k \in HeaderNames =>
          IF out[i].k = "len" THEN out[i].n = Len(body)
          ELSE out[i].k \in DOMAIN hs \ LengthNames /\ out[i].n = hs[out[i].k]
    BY <1>9, <1>20
  <2>4. out \in Seq(Token)
    BY <1>11
  <2> QED
    BY <1>16, <1>17, <1>21, <1>23, <1>25, <2>1, <2>2, <2>3, <2>4 DEF Rebuilt
<1> QED
  BY <1>1, <1>2, <1>24, <1>26

-----------------------------------------------------------------------------
(* What the adapter sends, when it sends anything: the start line as it was,
   and behind it a message whose headers are those that were read, but for its
   own and those that a rule sets. *)
LEMMA AdapterOutput ==
  ASSUME NEW cfg, NEW loaded \in Seq(RuleSet), NEW kind, NEW context, NEW p, IsPayload(p),
         NEW structured, structured = PatchPayload(cfg, loaded, kind, context, p), structured # {}
  PROVE  /\ FirstOf(p, "end") # 0 /\ (IsResponse(p) \/ HasTarget(p))
         /\ \E m \in MessageSet :
              /\ (CHOOSE q \in structured : TRUE) = RebuildMessage(SubSeq(p, 1, FirstOf(p, "line")), m)
              /\ \A h : NotSet(h, loaded) /\ h # "via" => Agree(h, m.headers, ParseHeaders(p))
<1>1. structured = ApplyPatch(cfg, loaded, kind, context, p)
  BY DEF PatchPayload
<1>2. FirstOf(p, "end") # 0 /\ (IsResponse(p) \/ HasTarget(p))
  BY <1>1 DEF ApplyPatch
<1>3. PICK headers : headers = ParseHeaders(p)
  OBVIOUS
<1>4. PICK own : own = BuildRuleContext(kind, context, p, headers)
  OBVIOUS
<1>5. PICK read : read = [headers |-> headers, body |-> Body(p), changed |-> FALSE]
  OBVIOUS
<1>6. read \in MessageSet /\ read.headers = headers
  <2>1. p \in Seq(Token)
    BY DEF IsPayload
  <2>2. PICK last \in Nat : last = FirstOf(p, "end") /\ last <= Len(p)
    BY <1>2, <2>1, FirstPlace
  <2>3. headers \in HeaderMaps
    BY <1>3, <2>1, <2>2, HeadersParsed
  <2>4. Body(p) \in Seq(Token)
    <3>1. SubSeq(p, last + 1, Len(p)) \in Seq(Token)
      BY <2>1, <2>2
    <3> QED
      BY <2>2, <3>1 DEF Body
  <2>5. FALSE \in BOOLEAN
    OBVIOUS
  <2> QED
    BY <1>5, <2>3, <2>4, <2>5 DEF MessageSet
<1>7. PICK response : response = IsResponse(p)
  OBVIOUS
<1>8. PICK m \in MessageSet :
        /\ m = PatchMessage(cfg, loaded, own, read, response)
        /\ \A h : NotSet(h, loaded) /\ h # "via" => Agree(h, m.headers, read.headers)
  BY <1>6, PatchKeepsHeaders
<1>9. PICK out : out = RebuildMessage(SubSeq(p, 1, FirstOf(p, "line")), m)
  OBVIOUS
<1>10. structured = IF m.changed THEN {out} ELSE {}
  BY <1>1, <1>2, <1>3, <1>4, <1>5, <1>7, <1>8, <1>9 DEF ApplyPatch
<1>11. (CHOOSE q \in structured : TRUE) = out
  BY <1>10
<1> QED
  BY <1>2, <1>3, <1>6, <1>8, <1>9, <1>11

(* What the adapter has changed, as it is on its way. *)
StructuredOutput(t) ==
  LET line == FirstOf(t.in, "line")
      start == SubSeq(t.in, 1, line)
  IN  /\ IsPayload(t.in) /\ FirstOf(t.in, "end") \in 1..Len(t.in)
      /\ line \in 1..(FirstOf(t.in, "end") - 1) /\ Len(start) = line
      /\ \E m \in MessageSet :
           /\ Rebuilt(t.out, start, m.headers, m.body)
           /\ \A h : NotSet(h, rules) /\ h # "via" => Agree(h, m.headers, ParseHeaders(t.in))

LEMMA StructuredIs ==
  ASSUME ServeInv, NEW t \in traffic, t.structured
  PROVE  StructuredOutput(t)
<1>1. IsPatched(config, rules, t)
  BY DEF ServeInv
<1>2. PICK s \in Sites, d \in Directions, p \in Payloads, kind \in ProtocolKinds : \E context, otherwise :
        /\ \E protocol, host, port : context = Context(protocol, d, host, port)
        /\ \/ otherwise = p
           \/ \E q \in TransportProtocols : otherwise = ApplyTransportPatch(config, rules, q, d, context, p)
        /\ t = [site |-> s, direction |-> d, in |-> p] ++ Patched(PatchPayload(config, rules, kind, context, p), otherwise)
  BY <1>1 DEF IsPatched
<1>3. PICK context, otherwise :
        t = [site |-> s, direction |-> d, in |-> p] ++ Patched(PatchPayload(config, rules, kind, context, p), otherwise)
  BY <1>2
<1>4. PICK structured : structured = PatchPayload(config, rules, kind, context, p)
  OBVIOUS
<1>5. t.in = p /\ structured # {} /\ t.out = CHOOSE q \in structured : TRUE
  BY <1>3, <1>4, PatchedFields
<1>6. IsPayload(p) /\ p \in Seq(Token)
  BY PayloadsAssumption DEF IsPayload
<1>7. rules \in Seq(RuleSet)
  BY DEF ServeInv
<1>8. FirstOf(p, "end") # 0 /\ (IsResponse(p) \/ HasTarget(p))
  BY <1>4, <1>5, <1>6, <1>7, AdapterOutput
<1>9. PICK m \in MessageSet :
        /\ t.out = RebuildMessage(SubSeq(p, 1, FirstOf(p, "line")), m)
        /\ \A h : NotSet(h, rules) /\ h # "via" => Agree(h, m.headers, ParseHeaders(p))
  BY <1>4, <1>5, <1>6, <1>7, AdapterOutput
<1>10. PICK last \in 1..Len(p) : last = FirstOf(p, "end")
  BY <1>6, <1>8, FirstPlace
<1>11. PICK line \in 1..(last - 1) :
         line = FirstOf(p, "line") /\ \A i \in 1..line : p[i].k \notin HeaderNames \cup {"end"}
  <2>1. last \in Nat
    OBVIOUS
  <2> QED
    BY <1>6, <1>8, <1>10, <2>1, StartLine
<1>12. PICK start \in Seq(Token) :
         start = SubSeq(p, 1, line) /\ Len(start) = line /\ \A i \in 1..line : start[i] = p[i]
  <2>1. line \in Nat /\ line <= Len(p)
    BY <1>10, <1>11
  <2>2. PICK begin : begin = SubSeq(p, 1, line)
    OBVIOUS
  <2>3. begin \in Seq(Token) /\ Len(begin) = line /\ \A i \in 1..line : begin[i] = p[i]
    BY <1>6, <2>1, <2>2
  <2> QED
    BY <2>2, <2>3
<1>13. \A i \in 1..Len(start) : start[i].k \notin HeaderNames \cup {"end"}
  BY <1>11, <1>12
<1>14. Rebuilt(t.out, start, m.headers, m.body)
  BY <1>9, <1>11, <1>12, <1>13, RebuiltIs
<1> QED
  BY <1>5, <1>6, <1>9, <1>10, <1>11, <1>12, <1>14 DEF StructuredOutput

-----------------------------------------------------------------------------
(* One is the number of a set that has one member. *)
LEMMA OneMember ==
  ASSUME NEW n \in Nat, NEW S \in SUBSET (1..n)
  PROVE  /\ Cardinality(S) = 1 => \E i \in S : S = {i}
         /\ \A i \in S : S = {i} => Cardinality(S) = 1
<1>1. IsFiniteSet(1..n)
  BY FS_Interval
<1>2. IsFiniteSet(S)
  BY <1>1, FS_Subset
<1>3. Cardinality(S) = 1 <=> \E i : S = {i}
  BY <1>2, FS_Singleton
<1> QED
  BY <1>3

(* Every line of a length that the adapter writes has that of the body, and a
   message that is whole stays so, unless a rule sets a Transfer-Encoding or two
   names begin with Content-Length: FramingKept, for every configuration, all
   rules and every payload. *)
THEOREM FramingHolds == Spec => []FramingKept
<1>1. ServeInv => FramingKept
  <2> SUFFICES ASSUME ServeInv, NEW t \in traffic, t.structured
               PROVE  /\ \A i \in 1..FirstOf(t.out, "end") :
                           /\ t.out[i].k = "len" => t.out[i].n = Len(Body(t.out))
                           /\ t.out[i].k \notin LengthNames \ {"len"}
                      /\ /\ Whole(t.in) /\ "coding" \notin RuleHeaders
                         /\ \A g, h \in LengthNames \cap (NamesIn(t.in) \cup RuleHeaders) : g = h
                         => Whole(t.out)
    BY DEF FramingKept
  <2>1. StructuredOutput(t)
    BY StructuredIs
  <2>2. \A h : h \notin RuleHeaders => NotSet(h, rules)
    <3>1. rules \in Seq(RuleSet)
      BY DEF ServeInv
    <3>2. DOMAIN rules = 1..Len(rules)
      BY <3>1
    <3> QED
      BY <3>2 DEF NotSet, RuleHeaders
  <2>3. PICK start : start = SubSeq(t.in, 1, FirstOf(t.in, "line"))
    OBVIOUS
  <2>4. PICK p \in Seq(Token) : p = t.in
    BY <2>1 DEF StructuredOutput, IsPayload
  <2>5. PICK n \in 1..Len(p) : n = FirstOf(p, "end")
    BY <2>1, <2>4 DEF StructuredOutput
  <2>6. PICK m \in MessageSet :
          /\ Rebuilt(t.out, start, m.headers, m.body)
          /\ \A h : h \notin RuleHeaders /\ h # "via" => Agree(h, m.headers, ParseHeaders(p))
    BY <2>1, <2>2, <2>3, <2>4 DEF StructuredOutput
  <2>7. PICK hs : hs = m.headers
    OBVIOUS
  <2>8. PICK out, last : out = t.out /\ last = FirstOf(out, "end")
    OBVIOUS
  <2>9. out \in Seq(Token) /\ last \in 1..Len(out) /\ Body(out) = m.body
    BY <2>6, <2>8 DEF Rebuilt
  <2>10. /\ \A i \in 1..last : out[i].k \in HeaderNames =>
              IF out[i].k = "len" THEN out[i].n = Len(Body(out)) ELSE out[i].k \in DOMAIN hs \ LengthNames
         /\ \E i \in 1..last : out[i].k = "len"
         /\ (\A g, h \in LengthNames \cap DOMAIN hs : g = h) =>
              \A i, j \in 1..last : out[i].k = "len" /\ out[j].k = "len" => i = j
    BY <2>6, <2>7, <2>8 DEF Rebuilt
  <2>11. LengthNames \subseteq HeaderNames /\ "coding" \in HeaderNames /\ "coding" # "len"
         /\ "len" \in LengthNames /\ "via" \notin LengthNames /\ Lengths \subseteq LengthNames /\ "len" \in Lengths
    BY DEF LengthNames, HeaderNames, Lengths
  <2>12. \A i \in 1..last : /\ out[i].k = "len" => out[i].n = Len(Body(out))
                            /\ out[i].k \notin LengthNames \ {"len"}
    BY <2>10, <2>11
  <2>13. ASSUME Whole(t.in), "coding" \notin RuleHeaders,
                \A g, h \in LengthNames \cap (NamesIn(t.in) \cup RuleHeaders) : g = h
         PROVE  Whole(t.out)
    <3>1. n \in Nat /\ n <= Len(p)
      OBVIOUS
    <3>2. \A h \in DOMAIN ParseHeaders(p) : \E i \in 1..n : p[i].k = h
      BY <2>5, <3>1, HeadersParsed
    <3>3. "coding" \notin DOMAIN hs
      <4>1. ASSUME NEW i \in 1..n PROVE p[i].k # "coding"
        <5>1. PICK head : head = SubSeq(p, 1, n)
          OBVIOUS
        <5>2. \A j \in DOMAIN head : head[j].k # "coding"
          BY <2>4, <2>5, <2>13, <5>1 DEF Whole
        <5>3. i \in DOMAIN head /\ head[i] = p[i]
          BY <5>1
        <5> QED
          BY <5>2, <5>3
      <4>2. "coding" \notin DOMAIN ParseHeaders(p)
        BY <3>2, <4>1
      <4> QED
        BY <2>6, <2>7, <2>13, <4>2 DEF Agree
    <3>4. LengthNames \cap DOMAIN hs \subseteq NamesIn(t.in) \cup RuleHeaders
      <4> SUFFICES ASSUME NEW h \in LengthNames \cap DOMAIN hs, h \notin RuleHeaders
                   PROVE  h \in NamesIn(t.in)
        OBVIOUS
      <4>1. h \in DOMAIN ParseHeaders(p)
        BY <2>6, <2>7, <2>11 DEF Agree
      <4> QED
        BY <2>4, <2>5, <3>2, <4>1 DEF NamesIn
    <3>5. \A i, j \in 1..last : out[i].k = "len" /\ out[j].k = "len" => i = j
      BY <2>10, <2>13, <3>4
    <3>6. PICK one \in 1..last : out[one].k = "len" /\ out[one].n = Len(Body(out))
      BY <2>10, <2>12
    <3>7. \A i \in 1..last : out[i].k # "coding" /\ (out[i].k \in Lengths => i = one)
      BY <2>10, <2>11, <2>12, <3>3, <3>5, <3>6
    <3>8. PICK head : head = SubSeq(out, 1, last)
      OBVIOUS
    <3>9. DOMAIN head = 1..last /\ \A i \in 1..last : head[i] = out[i]
      BY <2>9, <3>8
    <3>10. head # <<>>
      BY <2>9, <3>9
    <3>11. \A i \in DOMAIN head : head[i].k # "coding"
      BY <3>7, <3>9
    <3>12. {i \in DOMAIN head : head[i].k \in Lengths} = {one} /\ one \in DOMAIN head
      BY <2>11, <3>6, <3>7, <3>9
    <3>13. head[one].n = Len(Body(out))
      BY <3>6, <3>9
    <3> QED
      BY <2>8, <3>8, <3>10, <3>11, <3>12, <3>13 DEF Whole
  <2> QED
    BY <2>8, <2>12, <2>13
<1> QED
  BY <1>1, ServeInvHolds, PTL

(* The adapter sends the start line as it came, and every header line that
   stands alone and that no rule sets: HeadersKept, for every configuration,
   all rules and every payload. *)
THEOREM HeadersHold == Spec => []HeadersKept
<1>1. ServeInv => HeadersKept
  <2> DEFINE Count(h, m) == Cardinality({i \in 1..FirstOf(m, "end") : m[i].k = h})
             Kept(t, head, line) ==
               /\ SubSeq(t.out, 1, line) = SubSeq(t.in, 1, line)
               /\ \A i \in DOMAIN head :
                    head[i].k \in HeaderNames \ (LengthNames \cup {"via"} \cup RuleHeaders) /\ Count(head[i].k, t.in) = 1
                      => Count(head[i].k, t.out) = 1 /\ head[i] \in Range(t.out)
  <2> SUFFICES ASSUME ServeInv, NEW t \in traffic, t.structured
               PROVE  Kept(t, SubSeq(t.in, 1, FirstOf(t.in, "end")), FirstOf(t.in, "line"))
    BY DEF HeadersKept
  <2>1. PICK p \in Seq(Token) : p = t.in
    <3>1. StructuredOutput(t)
      BY StructuredIs
    <3> QED
      BY <3>1 DEF StructuredOutput, IsPayload
  <2>2. PICK n \in 1..Len(p) : n = FirstOf(p, "end")
    <3>1. StructuredOutput(t)
      BY StructuredIs
    <3> QED
      BY <2>1, <3>1 DEF StructuredOutput
  <2>3. PICK line : line = FirstOf(p, "line")
    OBVIOUS
  <2>4. PICK start : start = SubSeq(p, 1, line)
    OBVIOUS
  <2>5. SubSeq(t.out, 1, line) = start
    <3>1. StructuredOutput(t)
      BY StructuredIs
    <3>2. Len(start) = line /\ \E m \in MessageSet : Rebuilt(t.out, start, m.headers, m.body)
      BY <2>1, <2>3, <2>4, <3>1 DEF StructuredOutput
    <3> QED
      BY <3>2 DEF Rebuilt
  <2>6. PICK head : head = SubSeq(p, 1, n)
    OBVIOUS
  <2>7. DOMAIN head = 1..n /\ \A i \in 1..n : head[i] = p[i] /\ p[i] \in Token
    BY <2>6
  <2>8. ASSUME NEW i \in DOMAIN head, head[i].k \in HeaderNames \ (LengthNames \cup {"via"} \cup RuleHeaders), Count(head[i].k, p) = 1
        PROVE  Count(head[i].k, t.out) = 1 /\ head[i] \in Range(t.out)
    <3>1. PICK h : h = p[i].k
      OBVIOUS
    <3>2. i \in 1..n /\ head[i] = p[i] /\ p[i] \in Token
      BY <2>7
    <3>3. h \in HeaderNames /\ h \notin LengthNames /\ h # "len" /\ h # "via" /\ h \notin RuleHeaders
      BY <2>8, <3>1, <3>2 DEF LengthNames
    <3>4. \A j \in 1..n : p[j].k = h => j = i
      <4>1. PICK S : S = {j \in 1..n : p[j].k = h}
        OBVIOUS
      <4>2. S \in SUBSET (1..n) /\ n \in Nat
        BY <4>1
      <4>3. Cardinality(S) = 1
        BY <2>2, <2>8, <3>1, <3>2, <4>1
      <4>4. \E j \in S : S = {j}
        BY <4>2, <4>3, OneMember
      <4>5. i \in S
        BY <3>1, <3>2, <4>1
      <4> QED
        BY <4>1, <4>4, <4>5
    <3>5. PICK headers : headers = ParseHeaders(p)
      OBVIOUS
    <3>6. h \in DOMAIN headers /\ headers[h] = p[i].n
      <4>1. n \in Nat /\ n <= Len(p)
        OBVIOUS
      <4> QED
        BY <2>2, <3>1, <3>2, <3>3, <3>4, <3>5, <4>1, HeadersParsed
    <3>7. NotSet(h, rules)
      <4>1. rules \in Seq(RuleSet)
        BY DEF ServeInv
      <4>2. DOMAIN rules = 1..Len(rules)
        BY <4>1
      <4> QED
        BY <3>3, <4>2 DEF NotSet, RuleHeaders
    <3>8. StructuredOutput(t)
      BY StructuredIs
    <3>9. PICK m \in MessageSet :
            /\ Rebuilt(t.out, start, m.headers, m.body)
            /\ Agree(h, m.headers, headers)
      BY <2>1, <2>3, <2>4, <3>3, <3>5, <3>7, <3>8 DEF StructuredOutput
    <3>10. PICK hs : hs = m.headers
      OBVIOUS
    <3>11. h \in DOMAIN hs /\ hs[h] = p[i].n
      BY <3>6, <3>9, <3>10 DEF Agree
    <3>12. PICK out, last : out = t.out /\ last = FirstOf(out, "end")
      OBVIOUS
    <3>13. out \in Seq(Token) /\ last \in 1..Len(out)
      BY <3>9, <3>12 DEF Rebuilt
    <3>14. /\ \A j \in 1..last : out[j].k \in HeaderNames \ {"len"} => out[j].n = hs[out[j].k]
           /\ \A g \in (HeaderNames \cap DOMAIN hs) \ LengthNames : \E j \in 1..last : out[j].k = g
           /\ \A j, l \in 1..last : out[j].k \in HeaderNames \ {"len"} /\ out[j].k = out[l].k => j = l
      BY <3>9, <3>10, <3>12 DEF Rebuilt
    <3>15. PICK j \in 1..last : out[j].k = h /\ out[j].n = p[i].n
      BY <3>3, <3>11, <3>14
    <3>16. out[j] = p[i]
      <4>1. j \in 1..Len(out) /\ out[j] \in Token
        BY <3>13
      <4> QED
        BY <3>1, <3>2, <3>15, <4>1 DEF Token
    <3>17. head[i] \in Range(out)
      <4>1. j \in DOMAIN out
        BY <3>13
      <4> QED
        BY <3>2, <3>16, <4>1 DEF Range
    <3>18. Count(h, out) = 1
      <4>1. PICK S : S = {l \in 1..last : out[l].k = h}
        OBVIOUS
      <4>2. S = {j}
        BY <3>3, <3>14, <3>15, <4>1
      <4>3. S \in SUBSET (1..last) /\ last \in Nat /\ j \in S
        BY <3>13, <4>1, <4>2
      <4>4. Cardinality(S) = 1
        BY <4>2, <4>3, OneMember
      <4> QED
        BY <3>12, <4>1, <4>4
    <3> QED
      BY <3>1, <3>2, <3>12, <3>17, <3>18
  <2> HIDE DEF Count
  <2>9. Kept(t, head, line)
    BY <2>1, <2>4, <2>5, <2>8
  <2> QED
    BY <2>1, <2>2, <2>3, <2>6, <2>9
<1> QED
  BY <1>1, ServeInvHolds, PTL

-----------------------------------------------------------------------------
(* The types of a configuration. *)
ConfigFits(c) ==
  /\ DOMAIN c = DOMAIN Defaults
  /\ \A k \in KeysOf("bool") : c[k] \in BOOLEAN
  /\ \A k \in KeysOf("u16") : c[k] \in 0..PortMax
  /\ \A k \in PatchTexts : c[k] \in Seq(Token)

PortKeys == {"tcp.listen_port", "tcp.upstream_port", "udp.listen_port", "udp.upstream_port"}
PatchTextKeys ==
  {"patch.outbound_find", "patch.outbound_replace", "patch.outbound_find_hex", "patch.outbound_replace_hex",
   "patch.inbound_find", "patch.inbound_replace", "patch.inbound_find_hex", "patch.inbound_replace_hex"}
OtherTextKeys ==
  {"capture.wfp_filter", "capture.wfp_redirect_filter", "capture.windivert_filter",
   "tcp.listen_host", "tcp.upstream_host", "udp.listen_host", "udp.upstream_host",
   "capture.wfp_callout_channel", "runtime.log_level", "rules.file", "https_mitm.ca_subject_name",
   "https_mitm.cert_cache_dir", "https_mitm.openssl_bin_path"}

LEMMA PatchTextsAre == PatchTexts = PatchTextKeys
BY DEF PatchTexts, PatchTextKeys, PatchText

(* The kinds of the keys that have a default of their own, and of the texts. *)
LEMMA KindsOfKeys ==
  \A k \in DOMAIN Keys :
    /\ k \in PortKeys => Keys[k] = "u16"
    /\ k \in PatchTextKeys \cup OtherTextKeys => Keys[k] = "text"
    /\ k = "runtime.max_runtime_seconds" => Keys[k] = "u32"
<1> DEFINE Fine(f) == \A k \in DOMAIN f : /\ k \in PortKeys => f[k] = "u16"
                                          /\ k \in PatchTextKeys \cup OtherTextKeys => f[k] = "text"
                                          /\ k = "runtime.max_runtime_seconds" => f[k] = "u32"
           Own == PortKeys \cup PatchTextKeys \cup OtherTextKeys \cup {"runtime.max_runtime_seconds"}
<1>1. ASSUME NEW f, NEW g, Fine(f), Fine(g) PROVE Fine(f ++ g)
  BY <1>1 DEF ++
<1>2. \A S : S \cap Own = {} => Fine(Kind("bool", S))
  BY DEF Kind
<1>3. \A S : S \cap (PortKeys \cup {"runtime.max_runtime_seconds"}) = {} => Fine(Kind("text", S))
  BY DEF Kind
<1>4. \A S : S \cap (PatchTextKeys \cup OtherTextKeys \cup {"runtime.max_runtime_seconds"}) = {} => Fine(Kind("u16", S))
  BY DEF Kind
<1>5. \A S : S \cap (PortKeys \cup PatchTextKeys \cup OtherTextKeys) = {} => Fine(Kind("u32", S))
  BY DEF Kind
<1> HIDE DEF Fine
<1>6. Fine(CaptureKeys)
  BY <1>1, <1>2, <1>3 DEF CaptureKeys, PortKeys, PatchTextKeys, OtherTextKeys
<1>7. Fine(TransportKeys)
  BY <1>1, <1>2, <1>3, <1>4 DEF TransportKeys, PortKeys, PatchTextKeys, OtherTextKeys
<1>8. Fine(RuntimeKeys)
  BY <1>1, <1>2, <1>3, <1>5 DEF RuntimeKeys, PortKeys, PatchTextKeys, OtherTextKeys
<1>9. Fine(HttpsKeys)
  BY <1>1, <1>2, <1>3 DEF HttpsKeys, PortKeys, PatchTextKeys, OtherTextKeys
<1>10. Fine(PatchKeys)
  BY <1>1, <1>2, <1>3 DEF PatchKeys, PortKeys, PatchTextKeys, OtherTextKeys
<1>11. Fine(Keys)
  BY <1>1, <1>6, <1>7, <1>8, <1>9, <1>10 DEF Keys
<1> QED
  BY <1>11 DEF Fine

(* What is overwritten, and what overwrites, has a place in the result. *)
LEMMA DomainsJoin ==
  ASSUME NEW f, NEW g
  PROVE  /\ DOMAIN f \subseteq DOMAIN (f ++ g) /\ DOMAIN g \subseteq DOMAIN (f ++ g)
         /\ \A S : DOMAIN f \subseteq S /\ DOMAIN g \subseteq S => DOMAIN (f ++ g) \subseteq S
<1>1. PICK m : m = f ++ g
  OBVIOUS
<1>2. DOMAIN m = (DOMAIN f) \cup (DOMAIN g)
  BY <1>1, Overwritten
<1> QED
  BY <1>1, <1>2

LEMMA PatchTextsAreTexts == PatchTexts \subseteq KeysOf("text")
<1>1. PatchTextKeys \subseteq DOMAIN PatchKeys
  <2>1. PICK f : PatchKeys = f ++ Kind("text", PatchTextKeys)
    BY DEF PatchKeys, PatchTextKeys
  <2>2. PatchTextKeys \subseteq DOMAIN Kind("text", PatchTextKeys)
    BY DEF Kind
  <2> QED
    BY <2>1, <2>2, DomainsJoin
<1>2. DOMAIN PatchKeys \subseteq DOMAIN Keys
  <2>1. PICK f : Keys = f ++ PatchKeys
    BY DEF Keys
  <2> QED
    BY <2>1, DomainsJoin
<1> QED
  BY <1>1, <1>2, PatchTextsAre, KindsOfKeys DEF KeysOf

(* The defaults. *)
LEMMA DefaultsFit == ConfigFits(Defaults)
<1> DEFINE Fine(f) == \A k \in DOMAIN f : /\ k \in KeysOf("bool") => f[k] \in BOOLEAN
                                          /\ k \in KeysOf("u16") => f[k] \in 0..PortMax
                                          /\ k \in KeysOf("text") \cap PatchTextKeys => f[k] \in Seq(Token)
           bools == [k \in KeysOf("bool") |->
                       k \notin {"capture.enabled", "capture.use_wfp", "capture.use_windivert",
                                 "capture.wfp_redirect_enabled", "https_mitm.enabled",
                                 "https_mitm.plaintext_test_mode", "patch.enable_hex_patch"}]
           texts == [k \in KeysOf("text") |-> <<>>]
           seconds == Only("runtime.max_runtime_seconds", 0)
<1>1. ASSUME NEW f, NEW g, Fine(f), Fine(g) PROVE Fine(f ++ g)
  BY <1>1 DEF ++
<1>2. Fine(bools)
  BY DEF KeysOf
<1>3. Fine(DefaultPorts)
  <2>1. DOMAIN DefaultPorts \subseteq PortKeys
    <3> DEFINE Within(f) == DOMAIN f \subseteq PortKeys
    <3>1. ASSUME NEW f, NEW g, Within(f), Within(g) PROVE Within(f ++ g)
      BY <3>1, DomainsJoin
    <3>2. \A k \in PortKeys : \A n : Within(Only(k, n))
      BY DEF Only
    <3>3. {"tcp.listen_port", "tcp.upstream_port", "udp.listen_port", "udp.upstream_port"} \subseteq PortKeys
      BY DEF PortKeys
    <3> HIDE DEF Within
    <3>4. Within(DefaultPorts)
      BY <3>1, <3>2, <3>3 DEF DefaultPorts
    <3> QED
      BY <3>4 DEF Within
  <2>2. \A k \in PortKeys : k \notin PatchTextKeys
    BY DEF PortKeys, PatchTextKeys
  <2>3. \A k \in PortKeys : k \notin KeysOf("bool")
    BY KindsOfKeys DEF KeysOf
  <2> QED
    BY <2>1, <2>2, <2>3, PortsAssumption
<1>4. Fine(seconds)
  <2>1. \A k \in DOMAIN seconds : k = "runtime.max_runtime_seconds"
    BY DEF Only
  <2> QED
    BY <2>1, KindsOfKeys DEF KeysOf, PatchTextKeys
<1>5. Fine(DefaultTexts)
  <2>1. DOMAIN DefaultTexts \subseteq OtherTextKeys
    <3> DEFINE Within(f) == DOMAIN f \subseteq OtherTextKeys
               filters == [k \in {"capture.wfp_filter", "capture.wfp_redirect_filter", "capture.windivert_filter"}
                             |-> <<Word("ip and (tcp or udp)")>>]
               hosts == [k \in {"tcp.listen_host", "tcp.upstream_host", "udp.listen_host", "udp.upstream_host"}
                           |-> <<Word("127.0.0.1")>>]
               Rest(f) == f ++ Only("capture.wfp_callout_channel", <<Word("local://network_proxy_callout")>>)
                            ++ Only("runtime.log_level", <<Word("info")>>)
                            ++ Only("rules.file", <<Word("config/rules.dsl")>>)
                            ++ Only("https_mitm.ca_subject_name", <<Word("NetworkProxy Local CA")>>)
                            ++ Only("https_mitm.cert_cache_dir", <<Word("cert/cache")>>)
                            ++ Only("https_mitm.openssl_bin_path", <<Word("openssl")>>)
    <3>1. ASSUME NEW f, NEW g, Within(f), Within(g) PROVE Within(f ++ g)
      BY <3>1, DomainsJoin
    <3>2. Within(filters) /\ Within(hosts)
      BY DEF OtherTextKeys
    <3>3. \A k \in OtherTextKeys : \A v : Within(Only(k, v))
      BY DEF Only
    <3>4. {"capture.wfp_callout_channel", "runtime.log_level", "rules.file", "https_mitm.ca_subject_name",
           "https_mitm.cert_cache_dir", "https_mitm.openssl_bin_path"} \subseteq OtherTextKeys
      BY DEF OtherTextKeys
    <3>5. DefaultTexts = Rest(filters ++ hosts)
      BY DEF DefaultTexts
    <3> HIDE DEF Within, filters, hosts
    <3>6. Within(DefaultTexts)
      BY <3>1, <3>2, <3>3, <3>4, <3>5
    <3> QED
      BY <3>6 DEF Within
  <2>2. \A k \in OtherTextKeys : k \notin PatchTextKeys
    BY DEF OtherTextKeys, PatchTextKeys
  <2> QED
    BY <2>1, <2>2, KindsOfKeys DEF KeysOf
<1>6. Fine(texts)
  BY DEF KeysOf
<1>7. Defaults = bools ++ DefaultPorts ++ seconds ++ DefaultTexts ++ texts
  BY DEF Defaults
<1> HIDE DEF Fine, bools, texts, seconds
<1>8. Fine(Defaults)
  BY <1>1, <1>2, <1>3, <1>4, <1>5, <1>6, <1>7
<1>9. \A kind : KeysOf(kind) \subseteq DOMAIN Defaults
  BY KeysHaveDefaults DEF KeysOf
<1> QED
  BY <1>8, <1>9, PatchTextsAre, PatchTextsAreTexts DEF ConfigFits, Fine

-----------------------------------------------------------------------------
(* A value that is read has the type of its key. *)
LEMMA ReadTyped ==
  ASSUME NEW k \in DOMAIN Keys, NEW line, line.number \in SUBSET Int, NEW v \in ReadValue(k, line)
  PROVE  /\ k \in KeysOf("bool") => v \in BOOLEAN
         /\ k \in KeysOf("u16") => v \in 0..PortMax
         /\ k \in KeysOf("text") => v = line.value
<1>1. k \in KeysOf("bool") => v \in BOOLEAN
  BY DEF ReadValue, KeysOf, ParseBool
<1>2. ASSUME k \in KeysOf("u16") PROVE v \in 0..PortMax
  <2>1. PICK n \in Int : v \in ParseU16(n)
    BY <1>2 DEF ReadValue, KeysOf
  <2>2. v \in StoUl(n) /\ v <= PortMax
    BY <2>1 DEF ParseU16
  <2>3. v = n % UlongModulus
    BY <2>2 DEF StoUl
  <2>4. v \in Nat
    BY <2>3, NumberAssumption
  <2> QED
    BY <2>2, <2>4, NumberAssumption
<1>3. k \in KeysOf("text") => v = line.value
  BY DEF ReadValue, KeysOf
<1> QED
  BY <1>1, <1>2, <1>3

(* The sections of a file. *)
SectionsOf(lines) ==
  LET named == {i \in DOMAIN lines : lines[i].text \in {"name", "pair"} /\ OpensSection(lines[i])}
  IN  {NoText} \cup {SectionName(lines[i]) : i \in named}

LoaderFits(lines, l) ==
  /\ l = [section |-> l.section, config |-> l.config]
  /\ l.section \in SectionsOf(lines)
  /\ ConfigFits(l.config)

LEMMA LineFits ==
  ASSUME NEW lines, NEW i \in DOMAIN lines, IsConfigLine(lines[i], lines), NEW l, LoaderFits(lines, l),
         NEW m \in LoadConfigLine(l, lines[i])
  PROVE  LoaderFits(lines, m)
<1>1. l = [section |-> l.section, config |-> l.config] /\ l.section \in SectionsOf(lines) /\ ConfigFits(l.config)
  BY DEF LoaderFits
<1>2. CASE m = l
  BY <1>2
<1>3. CASE lines[i].text \in {"name", "pair"} /\ OpensSection(lines[i])
  <2>1. m = [l EXCEPT !.section = SectionName(lines[i])]
    BY <1>3 DEF LoadConfigLine
  <2>2. SectionName(lines[i]) \in SectionsOf(lines)
    BY <1>3 DEF SectionsOf
  <2>3. CASE m = [l EXCEPT !.section = SectionName(lines[i])]
    <3>1. m = [section |-> SectionName(lines[i]), config |-> l.config]
      BY <1>1, <2>3
    <3> QED
      BY <1>1, <2>2, <3>1 DEF LoaderFits
  <2> QED
    BY <2>1, <2>3, <1>2
<1>4. CASE lines[i].text \in {"name", "pair"} /\ ~OpensSection(lines[i]) /\ m # l
  <2>1. PICK key : key = FullKey(l.section, lines[i].key)
    OBVIOUS
  <2>2. key \in DOMAIN Keys /\ \E v \in ReadValue(key, lines[i]) : m = [l EXCEPT !.config[key] = v]
    BY <1>4, <2>1 DEF LoadConfigLine
  <2>3. PICK v \in ReadValue(key, lines[i]) : m = [l EXCEPT !.config[key] = v]
    BY <2>2
  <2>4. PICK c : c = [l.config EXCEPT ![key] = v]
    OBVIOUS
  <2>5. m = [section |-> l.section, config |-> c]
    BY <1>1, <2>3, <2>4
  <2>6. DOMAIN c = DOMAIN Defaults /\ \A k \in DOMAIN c : c[k] = IF k = key THEN v ELSE l.config[k]
    BY <1>1, <2>4 DEF ConfigFits
  <2>7. /\ lines[i].number \in SUBSET Int
        /\ key \in PatchTexts => lines[i].value \in Seq(Token)
    BY <1>1, <1>4, <2>1 DEF IsConfigLine, SectionsOf
  <2>8. /\ key \in KeysOf("bool") => v \in BOOLEAN
        /\ key \in KeysOf("u16") => v \in 0..PortMax
        /\ key \in PatchTexts => v \in Seq(Token)
    BY <2>2, <2>7, ReadTyped, PatchTextsAreTexts
  <2>9. \A kind : KeysOf(kind) \subseteq DOMAIN c
    BY <2>6, KeysHaveDefaults DEF KeysOf
  <2>10. ConfigFits(c)
    BY <1>1, <2>6, <2>8, <2>9, PatchTextsAreTexts DEF ConfigFits
  <2> QED
    BY <1>1, <2>5, <2>10 DEF LoaderFits
<1> QED
  BY <1>2, <1>3, <1>4 DEF LoadConfigLine

(* A configuration that is loaded has its types. *)
LEMMA LoadedFits ==
  ASSUME setup \in Setups, NEW path, NEW c \in LoadConfig(File(path))
  PROVE  ConfigFits(c)
<1>1. LoadConfig({}) = {}
  BY DEF LoadConfig
<1>2. path \in DOMAIN setup.disk
  BY <1>1 DEF File
<1>3. PICK lines : lines = setup.disk[path]
  OBVIOUS
<1>4. File(path) = {lines} /\ \A i \in DOMAIN lines : IsConfigLine(lines[i], lines)
  BY <1>2, <1>3, FilesAssumption DEF File
<1>5. PICK n \in Nat : n = Len(lines) /\ DOMAIN lines = 1..n
  <2>1. lines \in Seq(Range(lines))
    BY <1>2, <1>3, FilesAssumption
  <2> QED
    BY <2>1, LenProperties
<1>6. PICK after : ConfigLoaders(lines, after) /\ LoadConfig({lines}) = {l.config : l \in after[n]}
  BY <1>5, ConfigSteps
<1> DEFINE G == {i \in 0..n : \A l \in after[i] : LoaderFits(lines, l)}
<1>7. 0 \in G
  <2>0. PICK s, d : s = NoText /\ d = Defaults
    OBVIOUS
  <2>1. PICK l : l = [section |-> s, config |-> d]
    OBVIOUS
  <2>2. LoaderFits(lines, l)
    <3>1. l.section = s /\ l.config = d
      BY <2>1
    <3> QED
      BY <2>0, <2>1, <3>1, DefaultsFit DEF LoaderFits, SectionsOf
  <2>3. after[0] = {l}
    BY <1>6, <2>0, <2>1 DEF ConfigLoaders
  <2>4. 0 \in 0..n
    OBVIOUS
  <2> QED
    BY <2>2, <2>3, <2>4
<1>8. ASSUME NEW i \in 1..n, i - 1 \in G
      PROVE  i \in G
  <2>1. ASSUME NEW m \in after[i]
        PROVE  LoaderFits(lines, m)
    <3>1. after[i] = UNION {LoadConfigLine(l, lines[i]) : l \in after[i - 1]}
      BY <1>5, <1>6 DEF ConfigLoaders
    <3>2. PICK l \in after[i - 1] : m \in LoadConfigLine(l, lines[i])
      BY <3>1
    <3>3. LoaderFits(lines, l)
      BY <1>8
    <3> QED
      BY <1>4, <1>5, <3>2, <3>3, LineFits
  <2>2. i \in 0..n
    OBVIOUS
  <2> QED
    BY <2>1, <2>2
<1>9. n \in G
  <2>1. G \in SUBSET (0..n)
    OBVIOUS
  <2> HIDE DEF G
  <2> QED
    BY <1>7, <1>8, <2>1, UpTo
<1> QED
  BY <1>4, <1>6, <1>9 DEF LoaderFits

-----------------------------------------------------------------------------
(* One word of the command line. *)
OptionStep(o, a) ==
  CASE o.path_next -> [o EXCEPT !.config_path = <<Word(a)>>, !.path_next = FALSE]
    [] ~o.path_next /\ a = "--config" -> [o EXCEPT !.path_next = TRUE]
    [] ~o.path_next /\ a = "--install-ca" -> [o EXCEPT !.install = TRUE]
    [] ~o.path_next /\ a = "--uninstall-ca" -> [o EXCEPT !.uninstall = TRUE]
    [] OTHER -> o

OptionSets(paths) ==
  [config_path : paths, install : BOOLEAN, uninstall : BOOLEAN, path_next : BOOLEAN]

LEMMA OptionStepTyped ==
  ASSUME NEW paths, NEW o \in OptionSets(paths), NEW a, <<Word(a)>> \in paths
  PROVE  OptionStep(o, a) \in OptionSets(paths)
<1>1. TRUE \in BOOLEAN /\ FALSE \in BOOLEAN
  OBVIOUS
<1>2. CASE o.path_next
  <2>1. [o EXCEPT !.config_path = <<Word(a)>>, !.path_next = FALSE] \in OptionSets(paths)
    BY <1>1 DEF OptionSets
  <2> QED
    BY <1>2, <2>1 DEF OptionStep
<1>3. CASE ~o.path_next
  <2>1. /\ [o EXCEPT !.path_next = TRUE] \in OptionSets(paths)
        /\ [o EXCEPT !.install = TRUE] \in OptionSets(paths)
        /\ [o EXCEPT !.uninstall = TRUE] \in OptionSets(paths)
    BY <1>1 DEF OptionSets
  <2>2. OptionStep(o, a) \in {[o EXCEPT !.path_next = TRUE], [o EXCEPT !.install = TRUE],
                              [o EXCEPT !.uninstall = TRUE], o}
    BY <1>3 DEF OptionStep
  <2> QED
    BY <2>1, <2>2
<1> QED
  BY <1>2, <1>3

LEMMA OptionsTyped ==
  ASSUME NEW args, args \in Seq(Range(args))
  PROVE  ParseOptions(args).install \in BOOLEAN
<1>1. PICK n \in Nat : n = Len(args) /\ DOMAIN args = 1..n
  BY LenProperties
<1> DEFINE op(q, i) == OptionStep(q, args[i])
           paths == {<<Word("config/proxy.yaml")>>} \cup {<<Word(args[i])>> : i \in 1..n}
           V == OptionSets(paths)
           base == [config_path |-> <<Word("config/proxy.yaml")>>, install |-> FALSE, uninstall |-> FALSE,
                    path_next |-> FALSE]
           step == [x \in (1..n) \X V |-> op(x[2], x[1])]
           Entry(g, s) == IF s = {} THEN base ELSE op(g[s \ {Max(s)}], Max(s))
           table == CHOOSE g : g = [s \in SUBSET (1..n) |-> Entry(g, s)]
<1>2. base \in V
  BY DEF OptionSets
<1>3. \A q \in V : \A i \in 1..n : op(q, i) \in V
  <2>1. \A i \in 1..n : <<Word(args[i])>> \in paths
    OBVIOUS
  <2> HIDE DEF paths
  <2> QED
    BY <2>1, OptionStepTyped
<1>4. ParseOptions(args) = table[1..n]
  BY <1>1 DEF ParseOptions, FoldLeft, MapThenFoldSet, OptionStep
<1> HIDE DEF op, V, base
<1>5. step \in [(1..n) \X V -> V]
  BY <1>3
<1>6. \A q \in V : \A i \in 1..n : step[<<i, q>>] = op(q, i)
  OBVIOUS
<1> HIDE DEF step
<1>7. PICK f : FoldTable(n, V, base, step, f)
  BY <1>2, <1>5, FoldExists
<1>8. f = [s \in SUBSET (1..n) |-> Entry(f, s)]
  <2>1. \A s \in SUBSET (1..n) : f[s] = Entry(f, s)
    BY <1>6, <1>7 DEF FoldTable
  <2> HIDE DEF Entry
  <2> QED
    BY <1>7, <2>1 DEF FoldTable
<1>9. table = [s \in SUBSET (1..n) |-> Entry(table, s)]
  <2> HIDE DEF Entry
  <2> QED
    BY <1>8
<1> HIDE DEF table
<1>10. IsFold(n, V, base, step, table)
  <2>1. table[{}] = base
    BY <1>9
  <2>2. ASSUME NEW s \in SUBSET (1..n), s # {}, table[s \ {Max(s)}] \in V
        PROVE  table[s] = step[<<Max(s), table[s \ {Max(s)}]>>]
    <3>1. Max(s) \in 1..n
      BY <1>7, <2>2 DEF FoldTable
    <3> QED
      BY <1>6, <1>9, <2>2, <3>1
  <2> QED
    BY <2>1, <2>2 DEF IsFold
<1>11. PICK after : FoldsTo(n, V, base, step, table[1..n], after)
  BY <1>2, <1>5, <1>10, TableSteps
<1>12. ParseOptions(args) \in V
  <2>1. n \in 0..n
    OBVIOUS
  <2> QED
    BY <1>4, <1>11, <2>1 DEF FoldsTo
<1> QED
  BY <1>12 DEF V, OptionSets

-----------------------------------------------------------------------------
(* What a transport patch makes of bytes is bytes. *)
LEMMA TransportTyped ==
  ASSUME NEW cfg, ConfigFits(cfg), NEW loaded \in Seq(RuleSet), NEW protocol, NEW d \in Directions,
         NEW context, NEW p \in Seq(Token)
  PROVE  ApplyTransportPatch(cfg, loaded, protocol, d, context, p) \in Seq(Token)
<1>1. PICK own : own = [context EXCEPT !.protocol = protocol, !.direction = d]
  OBVIOUS
<1>2. PICK ruled \in Seq(Token) : ruled = ApplyTransport(loaded, own, p)
  <2>1. PICK n \in Nat : n = Len(loaded)
    OBVIOUS
  <2>2. PICK after : TransportRun(loaded, n, own, p, after)
    BY <2>1, TransportSteps
  <2>3. n \in 0..n
    OBVIOUS
  <2> QED
    BY <2>2, <2>3 DEF TransportRun
<1>3. PICK find, replace, find_hex, replace_hex :
        /\ find = cfg[PatchText[d]["find"]] /\ replace = cfg[PatchText[d]["replace"]]
        /\ find_hex = cfg[PatchText[d]["find_hex"]] /\ replace_hex = cfg[PatchText[d]["replace_hex"]]
  OBVIOUS
<1>4. /\ find \in Seq(Token) /\ replace \in Seq(Token)
      /\ find_hex \in Seq(Token) /\ replace_hex \in Seq(Token)
  BY <1>3 DEF ConfigFits, PatchTexts, Directions
<1>5. PICK text \in Seq(Token) :
        text = IF cfg["patch.enable_text_patch"] THEN ReplaceEvery(ruled, find, replace) ELSE ruled
  BY <1>4, ReplaceTyped
<1>6. PICK hex \in Seq(Token) : hex = HexFind(find_hex, replace_hex)
  BY <1>4, HexFindTyped
<1>7. ReplaceEvery(text, hex, replace_hex) \in Seq(Token)
  BY <1>4, <1>6, ReplaceTyped
<1>8. ApplyTransportPatch(cfg, loaded, protocol, d, context, p) \in {ReplaceEvery(text, hex, replace_hex), text}
  BY <1>1, <1>2, <1>3, <1>5, <1>6 DEF ApplyTransportPatch
<1> QED
  BY <1>7, <1>8

(* What is on its way. *)
LEMMA TrafficTyped ==
  ASSUME ServeInv, ConfigFits(config), NEW t \in traffic
  PROVE  /\ t.site \in Sites /\ t.direction \in Directions /\ t.structured \in BOOLEAN
         /\ t.in \in Seq(Token) /\ t.out \in Seq(Token)
<1>1. IsPatched(config, rules, t) /\ rules \in Seq(RuleSet)
  BY DEF ServeInv
<1>2. PICK s \in Sites, d \in Directions, p \in Payloads, kind \in ProtocolKinds : \E context, otherwise :
        /\ \E protocol, host, port : context = Context(protocol, d, host, port)
        /\ \/ otherwise = p
           \/ \E q \in TransportProtocols : otherwise = ApplyTransportPatch(config, rules, q, d, context, p)
        /\ t = [site |-> s, direction |-> d, in |-> p] ++ Patched(PatchPayload(config, rules, kind, context, p), otherwise)
  BY <1>1 DEF IsPatched
<1>3. PICK context, otherwise :
        /\ \/ otherwise = p
           \/ \E q \in TransportProtocols : otherwise = ApplyTransportPatch(config, rules, q, d, context, p)
        /\ t = [site |-> s, direction |-> d, in |-> p] ++ Patched(PatchPayload(config, rules, kind, context, p), otherwise)
  BY <1>2
<1>4. PICK structured : structured = PatchPayload(config, rules, kind, context, p)
  OBVIOUS
<1>5. /\ t.site = s /\ t.direction = d /\ t.in = p /\ t.structured = (structured # {})
      /\ structured = {} => t.out = otherwise
  BY <1>3, <1>4, PatchedFields
<1>6. p \in Seq(Token)
  BY PayloadsAssumption DEF IsPayload
<1>7. otherwise \in Seq(Token)
  BY <1>1, <1>3, <1>6, TransportTyped
<1>8. t.structured => t.out \in Seq(Token)
  <2> SUFFICES ASSUME t.structured PROVE t.out \in Seq(Token)
    OBVIOUS
  <2>1. StructuredOutput(t)
    BY StructuredIs
  <2> QED
    BY <2>1 DEF StructuredOutput, Rebuilt
<1> QED
  BY <1>5, <1>6, <1>7, <1>8

(* The types of what does not come from the traffic. *)
RunInv ==
  /\ setup \in Setups
  /\ pc \in {"config", "certutil", "rules", "serving", "exited"}
  /\ trusted \in BOOLEAN /\ code \in {0, 1, 2}
  /\ code = 2 <=> pc # "exited"
  /\ ConfigFits(config)

LEMMA RunInvStep == RunInv /\ [Next]_vars => RunInv'
<1> SUFFICES ASSUME RunInv, [Next]_vars PROVE RunInv'
  OBVIOUS
<1> USE DEF RunInv
<1>1. CASE LoadConfiguration
  <2>1. config' \in LoadConfig(File(options.config_path)) /\ pc = "config" /\ UNCHANGED <<setup, trusted, code>>
    BY <1>1 DEF LoadConfiguration
  <2>2. ConfigFits(config')
    BY <2>1, LoadedFits
  <2>3. pc' \in {"certutil", "rules"}
    BY <1>1 DEF LoadConfiguration
  <2>4. ConfigFits(config)'
    BY <2>2 DEF ConfigFits
  <2> QED
    BY <2>1, <2>3, <2>4
<1>2. CASE CertUtil
  <2>1. options.install \in BOOLEAN
    BY FilesAssumption, OptionsTyped DEF options
  <2> QED
    BY <1>2, <2>1 DEF CertUtil, Exit, ConfigFits
<1>3. CASE UNCHANGED <<setup, config, trusted>> /\ \E n \in {0, 1} : Exit(n)
  BY <1>3 DEF Exit, ConfigFits
<1>4. CASE LoadRuleFile
  BY <1>4 DEF LoadRuleFile, ConfigFits
<1>5. CASE UNCHANGED <<setup, pc, config, trusted, code>>
  BY <1>5 DEF ConfigFits
<1> QED
  BY <1>1, <1>2, <1>3, <1>4, <1>5 DEF Next, ConfigurationFails, CertUtilFails, RulesFail, ServerReturns,
    Forward, Sent, Exited, vars

LEMMA RunInvHolds == Spec => []RunInv
<1>1. Init => RunInv
  BY FilesAssumption, DefaultsFit DEF Init, RunInv
<1> QED
  BY <1>1, RunInvStep, PTL DEF Spec

(* Type correctness: whatever the files, the command line, the rules and the
   payloads, the configuration has the types of its keys, the rules those of
   theirs, and what is sent is bytes. *)
THEOREM TypesHold == Spec => []TypeOK
<1>1. RunInv /\ ServeInv => TypeOK
  <2> SUFFICES ASSUME RunInv, ServeInv PROVE TypeOK
    OBVIOUS
  <2>1. ConfigFits(config)
    BY DEF RunInv
  <2>2. \A t \in traffic : t.site \in Sites /\ t.direction \in Directions /\ t.structured \in BOOLEAN
                           /\ t.in \in Seq(Token) /\ t.out \in Seq(Token)
    BY <2>1, TrafficTyped
  <2>3. \A i \in DOMAIN rules : DOMAIN rules[i] = DOMAIN EmptyRule(NoText)
    <3>1. \A r \in RuleSet : DOMAIN r = DOMAIN EmptyRule(NoText)
      BY KeysOfRules DEF RuleSet
    <3>2. \A i \in DOMAIN rules : rules[i] \in RuleSet
      BY DEF ServeInv
    <3> QED
      BY <3>1, <3>2
  <2> QED
    BY <2>1, <2>2, <2>3 DEF RunInv, TypeOK, ConfigFits
<1> QED
  BY <1>1, RunInvHolds, ServeInvHolds, PTL

=============================================================================
