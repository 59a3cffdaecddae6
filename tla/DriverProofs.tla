---------------------------- MODULE DriverProofs ----------------------------
(***************************************************************************)
(* What workshopc promises of a run, for every command line, project and   *)
(* configuration file: the exit code tells the result, each finding is     *)
(* reported once, and a dumped configuration is read back as the same.     *)
(*                                                                         *)
(* The first part is about the lines of a source: the scan for suppression *)
(* comments computes what they mean, for files of any length.  The second  *)
(* says which sources are analyzed, the next two have the invariants of    *)
(* exit codes and of findings.  The rest is about the configuration:  what *)
(* a config is, that every file is read as one, that each part of a config *)
(* is read back as it was written, that the whole file therefore is, and   *)
(* that a run that dumps writes that file.                                 *)
(***************************************************************************)
EXTENDS Driver, FiniteSetTheorems, WellFoundedInduction, TLAPS

-----------------------------------------------------------------------------
(* Suppressions: the scan of a file of any length                         *)

\* A set of numbers with 0 and with the successor of each of its members below N has all the
\* numbers up to N: the least one missing would be the successor of one that is not.
LEMMA UpTo ==
    ASSUME NEW N \in Nat, NEW S, 0 \in S, \A n \in S : n \in Nat /\ n < N => n + 1 \in S
    PROVE  0..N \subseteq S
<1>  DEFINE Missing == {n \in Nat : n <= N /\ n \notin S}
<1>1. SUFFICES ASSUME Missing # {} PROVE FALSE
  <2> HIDE DEF Missing
  <2> QED BY Z3 DEF Missing
<1>2. PICK m \in Missing : \A k \in Missing : <<k, m>> \notin OpToRel(<, Nat)
  BY <1>1, WFMin, NatLessThanWellFounded, Zenon
<1>3. \A k \in Missing : ~(k < m)
  BY <1>2, Zenon DEF OpToRel
<1>4. m # 0 /\ m - 1 \in Nat /\ m - 1 <= N
  OBVIOUS
<1>5. m - 1 \in S
  BY <1>3, <1>4
<1>6. (m - 1) + 1 = m /\ m - 1 < N /\ m \notin S
  OBVIOUS
<1> HIDE DEF Missing
<1> QED
  BY <1>4, <1>5, <1>6

\* parseFile goes from one line to the next: the scan is defined for every file, and what it
\* knows after a line is made from what it knew before.
LEMMA ScanStep ==
    ASSUME NEW lines, Len(lines) \in Nat
    PROVE  /\ Scan(lines)[0] = NothingRead
           /\ \A n \in 1..Len(lines) :
                 Scan(lines)[n] = Close(Open(Scan(lines)[n - 1], lines[n], n), lines[n], n)
<1>  DEFINE N == Len(lines)
            Step(s, n) == Close(Open(s, lines[n], n), lines[n], n)
            Is(g, n) == g = [i \in 0..n |-> IF i = 0 THEN NothingRead ELSE Step(g[i - 1], i)]
            S == {n \in 0..N : \E g : Is(g, n)}
<1>1. 0 \in S
  <2>1. Is([i \in 0..0 |-> NothingRead], 0)
    <3> HIDE DEF Step
    <3> QED OBVIOUS
  <2>2. 0 \in 0..N /\ \E g : Is(g, 0)
    <3> HIDE DEF Is
    <3> QED BY <2>1, Zenon, SMT
  <2> HIDE DEF Is
  <2> QED BY <2>2
<1>2. ASSUME NEW n \in S, n < N PROVE n + 1 \in S
  <2>1. PICK g : Is(g, n)
    OBVIOUS
  <2>  DEFINE h == [i \in 0..(n + 1) |-> IF i = n + 1 THEN Step(g[n], n + 1) ELSE g[i]]
  <2>2. \A i \in 0..n : h[i] = g[i]
    OBVIOUS
  <2>3. \A i \in 0..n : g[i] = IF i = 0 THEN NothingRead ELSE Step(g[i - 1], i)
    <3> HIDE DEF Step
    <3> QED BY <2>1
  <2>4. ASSUME NEW i \in 0..(n + 1)
        PROVE  h[i] = IF i = 0 THEN NothingRead ELSE Step(h[i - 1], i)
    <3> HIDE DEF Step
    <3>1. CASE i = n + 1
      <4>1. h[i] = Step(g[n], n + 1) /\ h[i - 1] = g[n] /\ i # 0
        BY <3>1, <2>2
      <4> QED BY <3>1, <4>1
    <3>2. CASE i \in 0..n
      <4>1. h[i] = g[i] /\ (i # 0 => h[i - 1] = g[i - 1])
        BY <3>2, <2>2
      <4> HIDE DEF h
      <4> QED BY <3>2, <4>1, <2>3
    <3> QED BY <3>1, <3>2
  <2>5. h = [i \in 0..(n + 1) |-> h[i]]
    OBVIOUS
  <2>6. Is(h, n + 1)
    <3> HIDE DEF h, Step
    <3> QED BY <2>4, <2>5
  <2>7. n + 1 \in 0..N
    BY <1>2
  <2> HIDE DEF h, Is
  <2> QED BY <2>6, <2>7
<1>3. N \in S
  <2> HIDE DEF S
  <2>1. \A n \in S : n \in Nat /\ n < N => n + 1 \in S
    BY <1>2
  <2>2. 0..N \subseteq S
    BY <1>1, <2>1, UpTo
  <2> QED BY <2>2
<1>4. Is(Scan(lines), N)
  BY <1>3, Zenon DEF Scan
<1> HIDE DEF Step
<1>5. \A i \in 0..N : Scan(lines)[i] = IF i = 0 THEN NothingRead ELSE Step(Scan(lines)[i - 1], i)
  BY <1>4
<1> QED
  BY <1>5 DEF Step

\* What the scan knows of the first k lines.
Known(lines, k, s) ==
    /\ s = [disabled |-> s.disabled, start |-> s.start, ranges |-> s.ranges]
    /\ s.disabled \in BOOLEAN
    /\ s.disabled => /\ s.start \in 1..k /\ "off" \in lines[s.start]
                     /\ \A m \in s.start..k : "on" \notin lines[m]
    /\ ~s.disabled => \A j \in 1..k : "off" \in lines[j] => \E m \in j..k : "on" \in lines[m]
    /\ \A r \in s.ranges : /\ r[1] \in 1..k /\ r[2] \in 1..k /\ "off" \in lines[r[1]]
                          /\ \A m \in r[1]..(r[2] - 1) : "on" \notin lines[m]
    /\ \A i \in 1..k : Silenced(lines, i) =>
          \/ \E r \in s.ranges : r[1] <= i /\ i <= r[2]
          \/ s.disabled /\ s.start <= i

\* Reading the next line, with any comments on it, keeps what is known of the lines before.
LEMMA ReadLineKnown ==
    ASSUME NEW lines, NEW n \in Nat \ {0}, NEW s, Known(lines, n - 1, s)
    PROVE  Known(lines, n, Close(Open(s, lines[n], n), lines[n], n))
<1>  DEFINE o == Open(s, lines[n], n)
            t == Close(o, lines[n], n)
<1>0. SUFFICES Known(lines, n, t)
  OBVIOUS
<1>1. CASE s.disabled /\ "on" \notin lines[n]
  <2>1. t = s
    BY <1>1 DEF Open, Close
  <2>2. \A m \in s.start..n : "on" \notin lines[m]
    BY <1>1 DEF Known
  <2>3. ASSUME NEW i \in 1..n, Silenced(lines, i)
        PROVE  \/ s.start <= i
               \/ \E r \in s.ranges : r[1] <= i /\ i <= r[2]
    BY <1>1, <2>3 DEF Known
  <2> HIDE DEF t
  <2>4. Known(lines, n, s)
    BY <1>1, <2>2, <2>3 DEF Known
  <2> QED
    BY <2>1, <2>4
<1>2. CASE s.disabled /\ "on" \in lines[n]
  <2>1. t = [disabled |-> FALSE, start |-> s.start, ranges |-> s.ranges \cup {<<s.start, n>>}]
    BY <1>2 DEF Open, Close
  <2>2. \A j \in 1..n : \E m \in j..n : "on" \in lines[m]
    BY <1>2
  <2>3. ASSUME NEW r \in t.ranges
        PROVE  /\ r[1] \in 1..n /\ r[2] \in 1..n /\ "off" \in lines[r[1]]
               /\ \A m \in r[1]..(r[2] - 1) : "on" \notin lines[m]
    <3>1. CASE r \in s.ranges
      BY <3>1 DEF Known
    <3>2. CASE r = <<s.start, n>>
      BY <3>2, <1>2 DEF Known
    <3> QED BY <3>1, <3>2, <2>1
  <2>4. ASSUME NEW i \in 1..n, Silenced(lines, i)
        PROVE  \E r \in t.ranges : r[1] <= i /\ i <= r[2]
    <3>1. CASE s.start <= i
      <4>1. <<s.start, n>> \in t.ranges /\ <<s.start, n>>[1] <= i /\ i <= <<s.start, n>>[2]
        BY <3>1, <2>1
      <4> QED BY <4>1
    <3>2. CASE ~(s.start <= i)
      <4>1. i \in 1..(n - 1)
        BY <3>2, <1>2 DEF Known
      <4>2. \E r \in s.ranges : r[1] <= i /\ i <= r[2]
        BY <4>1, <3>2, <2>4 DEF Known
      <4> QED BY <4>2, <2>1
    <3> QED BY <3>1, <3>2
  <2> HIDE DEF t
  <2>5. t = [disabled |-> t.disabled, start |-> t.start, ranges |-> t.ranges] /\ t.disabled = FALSE
    BY <2>1
  <2> QED
    BY <2>2, <2>3, <2>4, <2>5 DEF Known
<1>3. CASE ~s.disabled /\ "off" \notin lines[n]
  <2>1. t = s
    BY <1>3 DEF Open, Close
  <2>2. \A j \in 1..n : "off" \in lines[j] => \E m \in j..n : "on" \in lines[m]
    BY <1>3 DEF Known
  <2>3. ~Silenced(lines, n)
    <3>1. SUFFICES ASSUME Silenced(lines, n) PROVE FALSE
      OBVIOUS
    <3>2. PICK j \in 1..n : /\ "off" \in lines[j]
                            /\ \A k \in j..(n - 1) : "on" \notin lines[k]
      BY <3>1 DEF Silenced
    <3>3. j \in 1..(n - 1)
      BY <3>2, <1>3
    <3> QED BY <3>2, <3>3, <1>3 DEF Known
  <2> HIDE DEF t
  <2> QED
    BY <1>3, <2>1, <2>2, <2>3 DEF Known
<1>4. CASE ~s.disabled /\ "off" \in lines[n] /\ "on" \notin lines[n]
  <2>1. t = [disabled |-> TRUE, start |-> n, ranges |-> s.ranges]
    BY <1>4 DEF Open, Close
  <2> HIDE DEF t
  <2> QED
    BY <1>4, <2>1 DEF Known
<1>5. CASE ~s.disabled /\ "off" \in lines[n] /\ "on" \in lines[n]
  <2>1. t = [disabled |-> FALSE, start |-> n, ranges |-> s.ranges \cup {<<n, n>>}]
    BY <1>5 DEF Open, Close
  <2>2. \A j \in 1..n : \E m \in j..n : "on" \in lines[m]
    BY <1>5
  <2>3. ASSUME NEW r \in t.ranges
        PROVE  /\ r[1] \in 1..n /\ r[2] \in 1..n /\ "off" \in lines[r[1]]
               /\ \A m \in r[1]..(r[2] - 1) : "on" \notin lines[m]
    <3>1. CASE r \in s.ranges
      BY <3>1 DEF Known
    <3>2. CASE r = <<n, n>>
      BY <3>2, <1>5
    <3> QED BY <3>1, <3>2, <2>1
  <2>4. ASSUME NEW i \in 1..n, Silenced(lines, i)
        PROVE  \E r \in t.ranges : r[1] <= i /\ i <= r[2]
    <3>1. CASE i = n
      <4>1. <<n, n>> \in t.ranges /\ <<n, n>>[1] <= i /\ i <= <<n, n>>[2]
        BY <3>1, <2>1
      <4> QED BY <4>1
    <3>2. CASE i \in 1..(n - 1)
      BY <3>2, <2>1, <2>4, <1>5 DEF Known
    <3> QED BY <3>1, <3>2
  <2> HIDE DEF t
  <2>5. t = [disabled |-> t.disabled, start |-> t.start, ranges |-> t.ranges] /\ t.disabled = FALSE
    BY <2>1
  <2> QED
    BY <2>2, <2>3, <2>4, <2>5 DEF Known
<1> QED
  BY <1>1, <1>2, <1>3, <1>4, <1>5 DEF Known

\* isSuppressed of the ranges that parseFile collects is what the comments mean, for every file
\* and each of its lines: a line is suppressed exactly when some off before it, or on it, has no
\* on in between.
THEOREM SuppressedIsSilenced ==
    ASSUME NEW lines, Len(lines) \in Nat, NEW i \in 1..Len(lines)
    PROVE  IsSuppressed(lines, i) <=> Silenced(lines, i)
<1>  DEFINE N == Len(lines)
            s == Scan(lines)[N]
            S == {k \in 0..N : Known(lines, k, Scan(lines)[k])}
<1>1. Known(lines, 0, Scan(lines)[0])
  <2>1. Scan(lines)[0] = NothingRead
    BY ScanStep
  <2>2. Known(lines, 0, NothingRead)
    BY DEF Known, NothingRead
  <2> QED
    BY <2>1, <2>2
<1>2. ASSUME NEW k \in S, k \in Nat, k < N PROVE k + 1 \in S
  <2>1. Known(lines, (k + 1) - 1, Scan(lines)[k]) /\ k + 1 \in 1..N
    BY <1>2
  <2>2. Scan(lines)[k + 1] = Close(Open(Scan(lines)[k], lines[k + 1], k + 1), lines[k + 1], k + 1)
    BY <2>1, ScanStep
  <2> QED
    BY <2>1, <2>2, ReadLineKnown
<1>3. Known(lines, N, s)
  <2>1. 0 \in S
    BY <1>1
  <2> HIDE DEF S
  <2>2. \A k \in S : k \in Nat /\ k < N => k + 1 \in S
    BY <1>2
  <2>3. 0..N \subseteq S
    BY <2>1, <2>2, UpTo
  <2> QED
    BY <2>3 DEF S
<1>4. /\ s.disabled \in BOOLEAN
      /\ s.disabled => /\ s.start \in 1..N /\ "off" \in lines[s.start]
                       /\ \A m \in s.start..N : "on" \notin lines[m]
      /\ \A r \in s.ranges : /\ r[1] \in 1..N /\ r[2] \in 1..N /\ "off" \in lines[r[1]]
                            /\ \A m \in r[1]..(r[2] - 1) : "on" \notin lines[m]
      /\ Silenced(lines, i) => \/ s.disabled /\ s.start <= i
                               \/ \E r \in s.ranges : r[1] <= i /\ i <= r[2]
  <2> HIDE DEF s, N
  <2>1. i \in 1..N
    BY DEF N
  <2> QED BY <1>3, <2>1 DEF Known
<1>5. ParseFile(lines) = s.ranges \cup (IF s.disabled THEN {<<s.start, N>>} ELSE {})
  BY DEF ParseFile
<1> HIDE DEF s
<1>6. ASSUME Silenced(lines, i) PROVE IsSuppressed(lines, i)
  <2>1. CASE \E r \in s.ranges : r[1] <= i /\ i <= r[2]
    BY <2>1, <1>5 DEF IsSuppressed
  <2>2. CASE s.disabled /\ s.start <= i
    <3>1. <<s.start, N>> \in ParseFile(lines) /\ <<s.start, N>>[1] <= i /\ i <= <<s.start, N>>[2]
      BY <2>2, <1>5
    <3> QED BY <3>1 DEF IsSuppressed
  <2> QED BY <1>4, <1>6, <2>1, <2>2
<1>7. ASSUME NEW r \in ParseFile(lines), r[1] <= i, i <= r[2] PROVE Silenced(lines, i)
  <2>1. /\ r[1] \in 1..N /\ r[2] \in 1..N /\ "off" \in lines[r[1]]
        /\ \A m \in r[1]..(r[2] - 1) : "on" \notin lines[m]
    <3>1. CASE r \in s.ranges
      BY <3>1, <1>4
    <3>2. CASE s.disabled /\ r = <<s.start, N>>
      BY <3>2, <1>4
    <3> QED BY <3>1, <3>2, <1>5
  <2>2. r[1] \in 1..i /\ \A m \in r[1]..(i - 1) : "on" \notin lines[m]
    BY <2>1, <1>7
  <2> QED BY <2>1, <2>2 DEF Silenced
<1> QED
  BY <1>6, <1>7 DEF IsSuppressed

-----------------------------------------------------------------------------
(* Sequences of data                                                       *)

\* Appending a sequence adds its elements.
LEMMA SequenceExtended ==
    ASSUME NEW A, NEW s \in Seq(A), NEW t \in Seq(A)
    PROVE  s \o t \in Seq(A) /\ ToSet(s \o t) = ToSet(s) \cup ToSet(t)
<1>1. /\ s \o t \in Seq(A) /\ DOMAIN (s \o t) = 1..(Len(s) + Len(t))
      /\ DOMAIN s = 1..Len(s) /\ DOMAIN t = 1..Len(t) /\ Len(s) \in Nat /\ Len(t) \in Nat
      /\ \A i \in 1..Len(s) : (s \o t)[i] = s[i]
      /\ \A i \in 1..Len(t) : (s \o t)[i + Len(s)] = t[i]
  OBVIOUS
<1>2. ASSUME NEW i \in DOMAIN (s \o t) PROVE (s \o t)[i] \in ToSet(s) \cup ToSet(t)
  <2>1. CASE i \in 1..Len(s)
    BY <2>1, <1>1 DEF ToSet
  <2>2. CASE i \notin 1..Len(s)
    <3>1. i - Len(s) \in 1..Len(t) /\ (i - Len(s)) + Len(s) = i
      BY <2>2, <1>1
    <3>2. (s \o t)[i] = t[i - Len(s)]
      BY <3>1, <1>1
    <3> QED BY <3>1, <3>2, <1>1 DEF ToSet
  <2> QED BY <2>1, <2>2
<1>3. ASSUME NEW i \in DOMAIN s PROVE s[i] \in ToSet(s \o t)
  BY <1>1 DEF ToSet
<1>4. ASSUME NEW i \in DOMAIN t PROVE t[i] \in ToSet(s \o t)
  <2>1. i + Len(s) \in DOMAIN (s \o t) /\ (s \o t)[i + Len(s)] = t[i]
    BY <1>1
  <2> QED BY <2>1 DEF ToSet
<1> QED
  BY <1>1, <1>2, <1>3, <1>4 DEF ToSet

\* Appending an element adds it.
LEMMA SequenceAppended ==
    ASSUME NEW s, IsSequence(s), NEW e
    PROVE  IsSequence(Append(s, e)) /\ ToSet(Append(s, e)) = ToSet(s) \cup {e}
<1>  DEFINE A == ToSet(s) \cup {e}
<1>1. s \in Seq(A) /\ Append(s, e) \in Seq(A)
  BY DEF IsSequence
<1>2. /\ DOMAIN Append(s, e) = 1..(Len(s) + 1) /\ DOMAIN s = 1..Len(s) /\ Len(s) \in Nat
      /\ \A i \in 1..Len(s) : Append(s, e)[i] = s[i]
      /\ Append(s, e)[Len(s) + 1] = e
  BY <1>1
<1>3. ToSet(Append(s, e)) = A
  BY <1>2 DEF ToSet
<1> QED
  BY <1>1, <1>3 DEF IsSequence

\* A folder's files, sorted by their paths, are all its files.
LEMMA InOrderIsAll ==
    ASSUME NEW S, IsFiniteSet(S), \A f \in S : world.files[f].rank \in Nat, NEW q \in InOrder(S)
    PROVE  q \in Seq(S) /\ ToSet(q) = S
<1>  DEFINE n == Cardinality(S)
<1>1. n \in Nat /\ IsFiniteSet(1..n) /\ Cardinality(1..n) = n
  BY FS_CardinalityType, FS_Interval
<1>2. q \in [1..n -> S]
  BY DEF InOrder
<1>3. ASSUME NEW i \in 1..n, NEW j \in 1..n, i < j PROVE q[i] # q[j]
  <2>1. world.files[q[i]].rank < world.files[q[j]].rank /\ world.files[q[i]].rank \in Nat
    BY <1>2, <1>3 DEF InOrder
  <2> QED BY <2>1
<1>4. \A i, j \in 1..n : q[i] = q[j] => i = j
  BY <1>1, <1>3
<1>5. q \in Injection(1..n, S)
  BY <1>2, <1>4 DEF Injection, IsInjective
<1>6. q \in Surjection(1..n, S)
  BY <1>1, <1>5, FS_Injection
<1>7. ToSet(q) = S
  BY <1>2, <1>6 DEF Surjection, ToSet
<1> QED
  BY <1>1, <1>2, <1>7

-----------------------------------------------------------------------------
(* The sources                                                             *)

Configuring == {"arguments", "config", "dump", "validate", "database"}
Collecting  == {"sources", "outputs"}

TypeOK ==
    /\ pc \in Configuring \cup Collecting \cup {"analyze", "exited"}
    /\ IsProject(options.inputs, world)
    /\ input \in 0..Len(options.inputs)
    /\ sources \in Seq(DOMAIN world.files)
    /\ source \in 0..Len(sources)
    /\ result \in {0, 1}

\* Nothing of the analysis has happened.
Unstarted ==
    source = 0 /\ checked = {} /\ found = {} /\ diagnostics = NothingReported /\ result = 0

\* Each phase leaves alone what the later ones are for.
Phases ==
    /\ pc \in Configuring => input = 0 /\ sources = <<>>
    /\ pc \in Configuring \cup Collecting => Unstarted
    /\ pc = "dump" => options.dumpConfig
    /\ pc \in {"outputs", "analyze"} => input = Len(options.inputs)
    /\ pc = "analyze" => DOMAIN disk = Files

\* The sources are those of the inputs that were searched.
Collected ==
    pc \in Collecting \cup {"analyze"} =>
        ToSet(sources) = UNION {SourcesOf(options.inputs[i]) : i \in 1..input}

\* What a path stands for depends on the command line, the project and the config alone.
LEMMA SearchStays ==
    ASSUME UNCHANGED <<options, world, config>>, NEW path
    PROVE  /\ RealPath(path)' = RealPath(path) /\ Lines(path)' = Lines(path)
           /\ ThirdPartyFolder(path)' = ThirdPartyFolder(path)
           /\ \A r : IsThirdParty(r, path)' = IsThirdParty(r, path)
           /\ IsInSystemHeader(path)' = IsInSystemHeader(path)
           /\ SourcesOf(path)' = SourcesOf(path)
<1>1. /\ \A p : RealPath(p)' = RealPath(p) /\ (ThirdPartyFolder(p)' <=> ThirdPartyFolder(p))
      /\ CompdbDir' = CompdbDir
  <2>1. ASSUME NEW p PROVE RealPath(p)' = RealPath(p)
    BY DEF RealPath
  <2>2. ASSUME NEW p PROVE ThirdPartyFolder(p)' <=> ThirdPartyFolder(p)
    BY DEF ThirdPartyFolder
  <2>3. ConfigPath' = ConfigPath
    BY DEF ConfigPath
  <2>4. CompdbDir' = CompdbDir
    BY <2>3 DEF CompdbDir
  <2> QED BY <2>1, <2>2, <2>4
<1>2. Lines(path)' = Lines(path) /\ IsInSystemHeader(path)' = IsInSystemHeader(path)
  BY <1>1 DEF Lines, IsInSystemHeader
<1>3. ASSUME NEW r PROVE IsThirdParty(r, path)' = IsThirdParty(r, path)
  BY <1>1 DEF IsThirdParty
<1>4. FilesBelow(path)' = FilesBelow(path)
  <2>1. ASSUME NEW f PROVE f \in FilesBelow(path)' <=> f \in FilesBelow(path)
    BY <1>1 DEF FilesBelow
  <2> QED BY <2>1
<1>5. IsFile(path)' = IsFile(path)
  BY <1>1 DEF IsFile
<1> QED
  BY <1>1, <1>2, <1>3, <1>4, <1>5 DEF SourcesOf

\* The command line and the project stay.
LEMMA OptionsStay == Next => UNCHANGED <<options, world>>
BY DEF Next, Arguments, LoadConfig, DumpConfig, Validate, LocateDatabase, CollectInput,
       CollectSources, OpenOutputs, AnalyzeSource, ReportFinding, WriteOutputs

\* collectSources: the sources of one more input are added to those found before.
LEMMA InputCollected ==
    ASSUME TypeOK, CollectInput
    PROVE  /\ sources' \in Seq(DOMAIN world.files)
           /\ pc' = "sources" =>
                 ToSet(sources') = ToSet(sources) \cup SourcesOf(options.inputs[input + 1])
<1>  DEFINE path == options.inputs[input + 1]
            All  == DOMAIN world.files
<1>  USE DEF TypeOK
<1>1. sources \in Seq(All) /\ IsFiniteSet(All) /\ \A f \in All : world.files[f].rank \in Nat
  BY DEF IsProject
<1>2. CASE IsFile(path)
  <2>1. sources' = AddOnce(RealPath(path)) /\ RealPath(path) \in All
    BY <1>2 DEF CollectInput, IsFile
  <2>2. IsSequence(sources)
    BY <1>1 DEF IsSequence, ToSet
  <2>3. /\ AddOnce(RealPath(path)) \in Seq(All)
        /\ ToSet(AddOnce(RealPath(path))) = ToSet(sources) \cup {RealPath(path)}
    <3>1. CASE RealPath(path) \in ToSet(sources)
      BY <1>1, <3>1 DEF AddOnce
    <3>2. CASE RealPath(path) \notin ToSet(sources)
      <4>1. AddOnce(RealPath(path)) = Append(sources, RealPath(path))
        BY <3>2 DEF AddOnce
      <4>2. Append(sources, RealPath(path)) \in Seq(All)
        <5> HIDE DEF All, path
        <5> QED BY <1>1, <2>1
      <4> QED BY <2>2, <4>1, <4>2, SequenceAppended
    <3> QED BY <3>1, <3>2
  <2> QED
    BY <1>2, <2>1, <2>3 DEF SourcesOf
<1>3. CASE ~IsFile(path) /\ IsFolder(path)
  <2>1. PICK q \in InOrder(FilesBelow(path) \ ToSet(sources)) : sources' = sources \o q
    BY <1>3 DEF CollectInput
  <2>  DEFINE S == FilesBelow(path) \ ToSet(sources)
  <2>2. S \subseteq All /\ IsFiniteSet(S)
    BY <1>1, FS_Subset DEF FilesBelow
  <2>3. q \in Seq(S) /\ ToSet(q) = S
    BY <1>1, <2>1, <2>2, InOrderIsAll
  <2>4. q \in Seq(All)
    BY <2>2, <2>3
  <2> QED
    BY <1>1, <1>3, <2>1, <2>3, <2>4, SequenceExtended DEF SourcesOf
<1>4. CASE ~IsFile(path) /\ ~IsFolder(path)
  BY <1>4 DEF CollectInput, Exit
<1> QED
  BY <1>2, <1>3, <1>4

\* The types hold when the program starts.
LEMMA TypeInit == Init => TypeOK
<1>1. SUFFICES ASSUME Init PROVE TypeOK
  OBVIOUS
<1>2. IsProject(options.inputs, world)
  BY <1>1, InvocationAssumption DEF Init
<1>3. Len(options.inputs) \in Nat
  BY <1>2 DEF IsProject, IsSequence
<1> QED
  BY <1>1, <1>2, <1>3 DEF Init, TypeOK, Configuring

\* Every step keeps the types.
LEMMA TypeStep == TypeOK /\ Phases /\ [Next]_vars => TypeOK'
<1>1. SUFFICES ASSUME TypeOK, Phases, [Next]_vars PROVE TypeOK'
  OBVIOUS
<1>2. Len(options.inputs) \in Nat /\ Len(sources) \in Nat
  BY <1>1 DEF TypeOK, IsProject, IsSequence
<1>3. IsProject(options.inputs, world)'
  <2>1. UNCHANGED <<options, world>>
    BY <1>1, OptionsStay DEF vars
  <2> QED BY <1>1, <2>1 DEF TypeOK
<1>  USE DEF TypeOK, Configuring, Collecting
<1>4. CASE Arguments \/ LoadConfig \/ DumpConfig \/ Validate \/ LocateDatabase
  BY <1>1, <1>3, <1>4
     DEF Arguments, LoadConfig, DumpConfig, Validate, LocateDatabase, Exit, progress
<1>5. CASE CollectInput
  <2>1. sources' \in Seq(DOMAIN world.files)
    BY <1>1, <1>5, InputCollected
  <2>2. source' \in 0..Len(sources')
    BY <1>1, <1>5, <2>1 DEF Phases, Unstarted, CollectInput
  <2> QED
    BY <1>1, <1>2, <1>3, <1>5, <2>1, <2>2 DEF CollectInput, Exit
<1>6. CASE CollectSources \/ OpenOutputs
  BY <1>1, <1>3, <1>6 DEF CollectSources, OpenOutputs, Exit, progress
<1>7. CASE AnalyzeSource
  BY <1>1, <1>2, <1>3, <1>7 DEF AnalyzeSource, Result
<1>8. CASE ReportFinding \/ WriteOutputs
  BY <1>1, <1>3, <1>8 DEF ReportFinding, WriteOutputs, Exit, progress
<1>9. CASE UNCHANGED vars
  BY <1>1, <1>9 DEF vars
<1> QED
  BY <1>1, <1>4, <1>5, <1>6, <1>7, <1>8, <1>9 DEF Next

\* main leaves a phase only with what the next one needs.
LEMMA PhasesStep == TypeOK /\ Phases /\ [Next]_vars => Phases'
<1>1. SUFFICES ASSUME TypeOK, Phases, [Next]_vars PROVE Phases'
  OBVIOUS
<1>  USE DEF Phases, Configuring, Collecting, Unstarted
<1>2. CASE Arguments \/ LoadConfig \/ DumpConfig \/ Validate \/ LocateDatabase
  BY <1>1, <1>2 DEF Arguments, LoadConfig, DumpConfig, Validate, LocateDatabase, Exit, progress
<1>3. CASE CollectInput
  BY <1>1, <1>3 DEF CollectInput, Exit
<1>4. CASE CollectSources
  BY <1>1, <1>4 DEF CollectSources, Exit, progress
<1>5. CASE OpenOutputs
  <2>  DEFINE fails  == {i \in DOMAIN Outputs :
                            options.outputs[Outputs[i]] \in Files \ world.writable}
              opened == {options.outputs[Outputs[i]] :
                            i \in {j \in DOMAIN Outputs : \A k \in fails : j < k}} \cap Files
  <2>1. fails = {} => opened = Files
    BY DEF Files, Wanted, ToSet
  <2>2. disk' = [f \in opened |-> <<>>] /\ (fails = {} \/ pc' = "exited")
    BY <1>5, Zenon DEF OpenOutputs, Exit
  <2>3. Files' = Files
    BY <1>5 DEF OpenOutputs, Files, Wanted
  <2>4. pc' = "analyze" => DOMAIN disk' = Files'
    BY <2>1, <2>2, <2>3
  <2> HIDE DEF fails, opened
  <2> QED
    BY <1>1, <1>5, <2>4 DEF OpenOutputs, Exit, progress
<1>6. CASE AnalyzeSource \/ ReportFinding
  <2>1. Files' = Files
    BY <1>6 DEF AnalyzeSource, ReportFinding, Files, Wanted
  <2> QED
    BY <1>1, <1>6, <2>1 DEF AnalyzeSource, ReportFinding
<1>7. CASE WriteOutputs
  BY <1>7 DEF WriteOutputs, Exit
<1>8. CASE UNCHANGED vars
  <2>1. Files' = Files
    BY <1>8 DEF vars, Files, Wanted
  <2> QED
    BY <1>1, <1>8, <2>1 DEF vars
<1> QED
  BY <1>1, <1>2, <1>3, <1>4, <1>5, <1>6, <1>7, <1>8 DEF Next

\* The search for sources goes through the inputs in order and leaves none out.
LEMMA CollectedStep == TypeOK /\ Phases /\ Collected /\ [Next]_vars => Collected'
<1>  SUFFICES ASSUME TypeOK, Phases, Collected, [Next]_vars PROVE Collected'
  OBVIOUS
<1>0. UNCHANGED options
  BY OptionsStay DEF vars
<1>1. SUFFICES ASSUME TypeOK, Phases, Collected, [Next]_vars, pc' \in Collecting \cup {"analyze"}
               PROVE  ToSet(sources') = UNION {SourcesOf(options.inputs[i])' : i \in 1..input'}
  BY <1>0, Zenon DEF Collected
<1>  USE DEF Configuring, Collecting
<1>2. CASE pc \in Configuring
  <2>1. input' = 0 /\ sources' = <<>>
    BY <1>1, <1>2 DEF Phases, Next, Arguments, LoadConfig, DumpConfig, Validate, LocateDatabase,
       CollectInput, CollectSources, OpenOutputs, AnalyzeSource, ReportFinding, WriteOutputs,
       progress, vars
  <2> QED
    BY <2>1 DEF ToSet
<1>3. CASE pc \notin Configuring
  <2>1. pc \in Collecting \cup {"analyze"} /\ UNCHANGED <<options, world, config>>
    BY <1>1, <1>3 DEF TypeOK, Next, Arguments, LoadConfig, DumpConfig, Validate, LocateDatabase,
       CollectInput, CollectSources, OpenOutputs, AnalyzeSource, ReportFinding, WriteOutputs,
       Exit, progress, vars
  <2>2. \A p : SourcesOf(p)' = SourcesOf(p)
    BY <2>1, SearchStays
  <2>3. ToSet(sources) = UNION {SourcesOf(options.inputs[i]) : i \in 1..input}
    BY <1>1, <2>1 DEF Collected
  <2>4. CASE CollectInput
    <3>1. ToSet(sources') = ToSet(sources) \cup SourcesOf(options.inputs[input + 1])
      <4>1. pc' = "sources"
        BY <1>1, <2>4 DEF CollectInput, Exit
      <4> QED BY <1>1, <2>4, <4>1, InputCollected
    <3>2. input' = input + 1 /\ 1..input' = (1..input) \cup {input + 1}
      BY <1>1, <2>4 DEF CollectInput, TypeOK
    <3> QED
      BY <2>1, <2>2, <2>3, <3>1, <3>2
  <2>5. CASE ~CollectInput
    <3>1. UNCHANGED <<input, sources>>
      BY <1>1, <1>3, <2>5 DEF Next, Arguments, LoadConfig, DumpConfig, Validate, LocateDatabase,
         CollectSources, OpenOutputs, AnalyzeSource, ReportFinding, WriteOutputs, progress, vars
    <3> QED
      BY <2>1, <2>2, <2>3, <3>1
  <2> QED BY <2>4, <2>5
<1> QED BY <1>2, <1>3

-----------------------------------------------------------------------------
(* The exit code                                                           *)

\* The result of the analysis is that of the sources analyzed so far.
ResultTold ==
    pc = "analyze" => (result # 0 <=> \E k \in 1..source : world.units[sources[k]].fails)

Has(diag, level) == \E i \in DOMAIN diag.records : diag.records[i].level = level

\* The counts tell whether there are records of a level.
Counts(diag) ==
    /\ IsSequence(diag.records) /\ diag.errors \in Nat /\ diag.warnings \in Nat
    /\ diag.errors > 0 <=> Has(diag, "Error")
    /\ diag.warnings > 0 <=> Has(diag, "Warning")

\* main keeps the failure of a source whatever the sources after it do.
LEMMA ResultToldStep == TypeOK /\ Phases /\ ResultTold /\ [Next]_vars => ResultTold'
<1>1. SUFFICES ASSUME TypeOK, Phases, ResultTold, [Next]_vars, pc' = "analyze"
               PROVE  (result # 0 <=> \E k \in 1..source : world.units[sources[k]].fails)'
  BY DEF ResultTold
<1>2. CASE pc # "analyze"
  <2>1. pc = "outputs" /\ UNCHANGED <<source, result>>
    BY <1>1, <1>2 DEF Next, Arguments, LoadConfig, DumpConfig, Validate, LocateDatabase,
       CollectInput, CollectSources, OpenOutputs, AnalyzeSource, ReportFinding, WriteOutputs,
       Exit, progress, vars
  <2> QED
    BY <1>1, <2>1 DEF Phases, Unstarted, Collecting
<1>3. CASE AnalyzeSource
  <2>1. /\ source' = source + 1 /\ UNCHANGED <<world, sources>> /\ source \in Nat
        /\ result' = Result(world.units[sources[source + 1]].fails)
        /\ (result # 0 <=> \E k \in 1..source : world.units[sources[k]].fails)
    BY <1>1, <1>3 DEF AnalyzeSource, ResultTold, TypeOK
  <2>2. CASE world.units[sources[source + 1]].fails
    <3>1. result' = 1 /\ source + 1 \in 1..source'
      BY <2>1, <2>2 DEF Result
    <3>2. \E k \in 1..source' : world'.units[sources'[k]].fails
      BY <2>1, <2>2, <3>1
    <3> QED BY <3>1, <3>2
  <2>3. CASE ~world.units[sources[source + 1]].fails
    <3>1. result' = result /\ 1..source' = (1..source) \cup {source + 1}
      BY <2>1, <2>3 DEF Result
    <3>2. (\E k \in 1..source' : world.units[sources[k]].fails)
          <=> (\E k \in 1..source : world.units[sources[k]].fails)
      BY <2>3, <3>1
    <3> QED BY <2>1, <3>1, <3>2
  <2> QED BY <2>2, <2>3
<1>4. CASE pc = "analyze" /\ ~AnalyzeSource
  <2>1. UNCHANGED <<world, sources, source, result>>
    BY <1>1, <1>4 DEF Next, Arguments, LoadConfig, DumpConfig, Validate, LocateDatabase,
       CollectInput, CollectSources, OpenOutputs, ReportFinding, WriteOutputs,
       Exit, progress, vars
  <2> QED BY <1>1, <1>4, <2>1 DEF ResultTold
<1> QED BY <1>2, <1>3, <1>4

\* report counts a finding exactly when it records it.
LEMMA ReportCounts ==
    ASSUME NEW diag, NEW d, Counts(diag)
    PROVE  Counts(Report(diag, d))
<1>  DEFINE level == Promoted(d.level)
            next  == Report(diag, d)
<1>1. CASE d.level = "Off" \/ Key(d) \in diag.seen
  BY <1>1 DEF Report
<1>2. CASE ~(d.level = "Off" \/ Key(d) \in diag.seen)
  <2>1. /\ next.records  = Append(diag.records, Record(d))
        /\ next.warnings = diag.warnings + (IF level = "Warning" THEN 1 ELSE 0)
        /\ next.errors   = diag.errors + (IF level = "Error" THEN 1 ELSE 0)
    BY <1>2 DEF Report
  <2>2. IsSequence(next.records) /\ Record(d).level = level
    BY <2>1, SequenceAppended DEF Counts, Record, Finding
  <2>3. \A l : Has(next, l) <=> Has(diag, l) \/ level = l
    <3>1. diag.records \in Seq(ToSet(diag.records))
      BY DEF Counts, IsSequence
    <3>2. /\ DOMAIN next.records = (DOMAIN diag.records) \cup {Len(diag.records) + 1}
          /\ \A i \in DOMAIN diag.records : next.records[i] = diag.records[i]
          /\ next.records[Len(diag.records) + 1] = Record(d)
      BY <2>1, <3>1
    <3> HIDE DEF next, level
    <3> QED BY <2>2, <3>2 DEF Has
  <2> HIDE DEF next, level
  <2>4. Counts(next)
    BY <2>1, <2>2, <2>3 DEF Counts
  <2> QED BY <2>4 DEF next
<1> QED BY <1>1, <1>2

\* Only report changes the records and their counts.
LEMMA CountsStep == Counts(diagnostics) /\ [Next]_vars => Counts(diagnostics)'
<1>1. SUFFICES ASSUME Counts(diagnostics), [Next]_vars PROVE Counts(diagnostics)'
  OBVIOUS
<1>2. CASE ReportFinding
  BY <1>1, <1>2, ReportCounts DEF ReportFinding
<1>3. CASE ~ReportFinding
  <2>1. UNCHANGED diagnostics
    BY <1>1, <1>3 DEF Next, Arguments, LoadConfig, DumpConfig, Validate, LocateDatabase,
       CollectInput, CollectSources, OpenOutputs, AnalyzeSource, WriteOutputs, progress, vars
  <2> QED BY <1>1, <2>1 DEF Counts, Has, IsSequence
<1> QED BY <1>2, <1>3

\* When all the inputs were searched, the sources are those that were asked for.
LEMMA AllCollected ==
    ASSUME TypeOK, Phases, Collected, pc = "analyze"
    PROVE  ToSet(sources) = Asked
<1>1. DOMAIN options.inputs = 1..Len(options.inputs)
  BY DEF TypeOK, IsProject, IsSequence
<1>  DEFINE in == options.inputs
<1>2. ToSet(sources) = UNION {SourcesOf(in[i]) : i \in 1..Len(in)}
  BY DEF Phases, Collected
<1>3. ToSet(in) = {in[i] : i \in 1..Len(in)}
  BY <1>1, Zenon DEF ToSet
<1>  HIDE DEF in
<1>4. UNION {SourcesOf(in[i]) : i \in 1..Len(in)} = UNION {SourcesOf(path) : path \in ToSet(in)}
  BY <1>3
<1> QED BY <1>2, <1>4, Zenon DEF Asked, in

\* Only the end of the analysis exits with a code below 64 or with 67.
LEMMA ExitStep ==
    TypeOK /\ Phases /\ Collected /\ ResultTold /\ Counts(diagnostics) /\ ExitCodeTellsTheResult
    /\ [Next]_vars => ExitCodeTellsTheResult'
<1>1. SUFFICES ASSUME TypeOK, Phases, Collected, ResultTold, Counts(diagnostics),
                      ExitCodeTellsTheResult, [Next]_vars,
                      pc' = "exited", ~options'.help, ~options'.dumpConfig
               PROVE  ExitCodeTellsTheResult'
  BY DEF ExitCodeTellsTheResult
<1>2. CASE pc = "exited"
  <2>1. UNCHANGED vars
    BY <1>1, <1>2 DEF Next, Arguments, LoadConfig, DumpConfig, Validate, LocateDatabase,
       CollectInput, CollectSources, OpenOutputs, AnalyzeSource, ReportFinding, WriteOutputs
  <2>2. Asked' = Asked /\ Files' = Files /\ ToStdout' = ToStdout
    <3>1. \A p : SourcesOf(p)' = SourcesOf(p)
      BY <2>1, SearchStays DEF vars
    <3> QED
      BY <2>1, <3>1 DEF vars, Asked, Files, Wanted, ToStdout
  <2> QED
    BY <1>1, <2>1, <2>2 DEF vars, ExitCodeTellsTheResult
<1>3. CASE pc \in Configuring \cup Collecting
  <2>1. diagnostics' = NothingReported
    BY <1>1, <1>3 DEF Phases, Unstarted, Configuring, Collecting, Next, Arguments, LoadConfig,
       DumpConfig, Validate, LocateDatabase, CollectInput, CollectSources, OpenOutputs,
       AnalyzeSource, ReportFinding, WriteOutputs, progress, vars
  <2>2. exitCode' \in {64, 65, 66}
    BY <1>1, <1>3 DEF Phases, Configuring, Collecting, Next, Arguments, LoadConfig,
       DumpConfig, Validate, LocateDatabase, CollectInput, CollectSources, OpenOutputs,
       AnalyzeSource, ReportFinding, WriteOutputs, Exit, ExitCode, vars
  <2> QED
    BY <2>1, <2>2 DEF ExitCodeTellsTheResult, NothingReported
<1>4. CASE pc = "analyze"
  <2>1. WriteOutputs
    BY <1>1, <1>4 DEF Next, Arguments, LoadConfig, DumpConfig, Validate, LocateDatabase,
       CollectInput, CollectSources, OpenOutputs, AnalyzeSource, ReportFinding, vars
  <2>2. /\ UNCHANGED <<options, world, config, sources, diagnostics>> /\ source = Len(sources)
        /\ disk' = [f \in DOMAIN disk |-> diagnostics.records]
        /\ stdout' = IF ToStdout = {} THEN stdout ELSE diagnostics.records
        /\ exitCode' = IF result # 0 THEN 67 ELSE Verdict
    BY <2>1 DEF WriteOutputs, Exit, ExitCode, progress
  <2>3. ToSet(sources) = Asked /\ DOMAIN disk = Files
    BY <1>1, <1>4, AllCollected DEF Phases
  <2>4. result # 0 <=> \E s \in Asked : world.units[s].fails
    <3>1. DOMAIN sources = 1..source
      BY <1>1, <2>2 DEF TypeOK
    <3>2. result # 0 <=> \E k \in 1..source : world.units[sources[k]].fails
      BY <1>1, <1>4 DEF ResultTold
    <3> QED
      BY <2>3, <3>1, <3>2 DEF ToSet
  <2>5. Verdict = (IF Has(diagnostics, "Error") THEN 1 ELSE 0)
                  + (IF Has(diagnostics, "Warning") THEN 2 ELSE 0)
    BY <1>1 DEF Verdict, Counts, ExitCode
  <2>6. Asked' = Asked /\ Files' = Files /\ ToStdout' = ToStdout
    <3>1. \A p : SourcesOf(p)' = SourcesOf(p)
      BY <2>2, SearchStays
    <3> QED
      BY <2>2, <3>1 DEF Asked, Files, Wanted, ToStdout
  <2>7. {disk'[f] : f \in DOMAIN disk'} \cup (IF ToStdout' = {} THEN {} ELSE {stdout'})
        \subseteq {diagnostics'.records}
    BY <2>2, <2>6
  <2>8. CASE result # 0
    BY <2>2, <2>4, <2>6, <2>8 DEF ExitCodeTellsTheResult
  <2>9. CASE result = 0
    <3>1. exitCode' = Verdict /\ exitCode' < 64 /\ Files' = DOMAIN disk'
      BY <2>2, <2>3, <2>5, <2>6, <2>9
    <3>2. \A s \in Asked' : ~world'.units[s].fails
      BY <2>2, <2>4, <2>6, <2>9
    <3>3. exitCode' = (IF Has(diagnostics', "Error") THEN 1 ELSE 0)
                      + (IF Has(diagnostics', "Warning") THEN 2 ELSE 0)
      BY <2>2, <2>5, <3>1
    <3>4. exitCode' # 67
      BY <3>1, <2>5, <2>9
    <3>5. ExitCodeTellsTheResult' <=>
             /\ \A s \in Asked' : ~world'.units[s].fails
             /\ exitCode' = (IF Has(diagnostics', "Error") THEN 1 ELSE 0)
                            + (IF Has(diagnostics', "Warning") THEN 2 ELSE 0)
             /\ {disk'[f] : f \in DOMAIN disk'} \cup (IF ToStdout' = {} THEN {} ELSE {stdout'})
                   \subseteq {diagnostics'.records}
             /\ Files' = DOMAIN disk'
      BY <1>1, <3>1, <3>4 DEF ExitCodeTellsTheResult, Has
    <3> QED
      BY <2>7, <3>1, <3>2, <3>3, <3>5
  <2> QED BY <2>8, <2>9
<1> QED
  BY <1>1, <1>2, <1>3, <1>4 DEF TypeOK

\* The inductive invariant of the exit code.
ExitInv ==
    /\ TypeOK /\ Phases /\ Collected /\ ResultTold /\ Counts(diagnostics)
    /\ ExitCodeTellsTheResult

\* The invariant of the exit code holds when the program starts.
LEMMA ExitInvInit == Init => ExitInv
<1>1. SUFFICES ASSUME Init PROVE ExitInv
  OBVIOUS
<1>2. Phases
  BY <1>1 DEF Init, Phases, Unstarted, Configuring, Collecting
<1>3. Collected /\ ResultTold /\ ExitCodeTellsTheResult
  BY <1>1 DEF Init, Collected, Collecting, ResultTold, ExitCodeTellsTheResult
<1>4. Counts(diagnostics)
  BY <1>1 DEF Init, NothingReported, Counts, Has, IsSequence
<1> QED
  BY <1>1, <1>2, <1>3, <1>4, TypeInit DEF ExitInv

\* The exit code of main tells the result: below 64 every source was compiled, its bits tell
\* whether errors and warnings were reported, and each output that was asked for holds the
\* findings; 67 says that a source failed; any other, that nothing was analyzed.
THEOREM ExitCodeIsTrue == Spec => []ExitCodeTellsTheResult
<1>1. ExitInv /\ [Next]_vars => ExitInv'
  BY TypeStep, PhasesStep, CollectedStep, ResultToldStep, CountsStep, ExitStep, Zenon DEF ExitInv
<1>2. ExitInv => ExitCodeTellsTheResult
  BY DEF ExitInv
<1> QED
  BY <1>1, <1>2, ExitInvInit, PTL DEF Spec

-----------------------------------------------------------------------------
(* The findings                                                            *)

\* The level at which a code is found.
CodeLevel(code) ==
    IF code \in Rules THEN LevelOf(config, code)
    ELSE IF code = "SuppressionMissingReason" THEN LevelOf(config, "suppression_reason_rule")
    ELSE IF code = "MissingIncludeGuard" THEN LevelOf(config, "prefix_namespace")
    ELSE "Error"

Proper(d) == /\ d = Finding(d.level, d.code, d.file, d.line, d.message)
             /\ d.level = CodeLevel(d.code) /\ d.level # "Off"

\* Of the include guards, not of what a unit holds whatever was checked before it.
IsGuard(d) == d.code = "MissingIncludeGuard"

\* The codes of the suppression rules, and that of the guards, are none of the other rules.
LEMMA SuppressionCodes ==
    /\ "SuppressionMissingReason" \notin Rules /\ "suppression_reason_rule" \in Rules
    /\ "MissingIncludeGuard" \notin Rules /\ "MissingIncludeGuard" # "SuppressionMissingReason"
    /\ \A lines : \A code \in DOMAIN FindUnbalanced(lines) :
          /\ code \notin Rules /\ code # "SuppressionMissingReason"
          /\ code # "MissingIncludeGuard"
<1>1. \A lines : DOMAIN FindUnbalanced(lines)
         = {"SuppressionNested", "SuppressionOnWithoutOff", "SuppressionNotTurnedBackOn"}
  BY DEF FindUnbalanced
<1> QED
  BY <1>1 DEF Rules

\* A finding of the rules is at a line that is compiled, ours and not suppressed.
LEMMA RuleFindingIs ==
    ASSUME NEW unit, NEW d
    PROVE  d \in RuleFindings(unit) <=>
              \E path \in DOMAIN unit.parts : \E i \in unit.parts[path] :
              \E r \in RulesBroken(path, i) :
                 /\ ~IsInSystemHeader(path) /\ ~IsSuppressed(Lines(path), i)
                 /\ d = Finding(LevelOf(config, r), r, path, i, Message(r, path))
BY DEF RuleFindings

\* The suppression rules report codes of their own.
LEMMA SuppressionFindingIs ==
    ASSUME NEW unit, NEW d \in SuppressionFindings(unit)
    PROVE  Proper(d) /\ d.code \notin Rules /\ ~IsGuard(d)
<1>1. PICK path : d \in Unbalanced(path) \/ d \in MissingReason(path)
  BY DEF SuppressionFindings
<1>2. CASE d \in Unbalanced(path)
  <2>1. PICK code, i : /\ code \in DOMAIN FindUnbalanced(Lines(path))
                       /\ d = Finding("Error", code, path, i, <<>>)
    BY <1>2 DEF Unbalanced
  <2>2. /\ code \notin Rules /\ code # "SuppressionMissingReason"
        /\ code # "MissingIncludeGuard"
    BY <2>1, SuppressionCodes
  <2>3. /\ d.level = "Error" /\ d.code = code /\ d.file = path /\ d.line = i
        /\ d.message = <<>>
    BY <2>1 DEF Finding
  <2> QED
    BY <2>1, <2>2, <2>3 DEF Proper, CodeLevel, IsGuard
<1>3. CASE d \in MissingReason(path)
  <2>1. PICK i : /\ d = Finding(LevelOf(config, "suppression_reason_rule"),
                                "SuppressionMissingReason", path, i, <<>>)
                 /\ "suppression_reason_rule" \in ActiveRules
    BY <1>3 DEF MissingReason
  <2>2. LevelOf(config, "suppression_reason_rule") # "Off"
    BY <2>1 DEF ActiveRules, IsOn
  <2>3. /\ d.level = LevelOf(config, "suppression_reason_rule")
        /\ d.code = "SuppressionMissingReason" /\ d.file = path /\ d.line = i
        /\ d.message = <<>>
    BY <2>1 DEF Finding
  <2> QED
    BY <2>1, <2>2, <2>3, SuppressionCodes DEF Proper, CodeLevel, IsGuard
<1> QED
  BY <1>1, <1>2, <1>3

\* Whatever is found in a unit is at the level of its code, and that is not Off.
LEMMA FindingIsProper ==
    ASSUME NEW unit, NEW d \in Findings(unit)
    PROVE  Proper(d) /\ ~IsGuard(d)
<1>1. CASE d \in RuleFindings(unit)
  <2>1. PICK path, i, r : /\ r \in RulesBroken(path, i)
                          /\ d = Finding(LevelOf(config, r), r, path, i, Message(r, path))
    BY <1>1, RuleFindingIs
  <2>2. r \in Rules /\ LevelOf(config, r) # "Off"
    BY <2>1 DEF RulesBroken, ActiveRules, IsOn
  <2>3. /\ d.level = LevelOf(config, r) /\ d.code = r /\ d.file = path /\ d.line = i
        /\ d.message = Message(r, path)
    BY <2>1 DEF Finding
  <2> QED
    BY <2>1, <2>2, <2>3, SuppressionCodes DEF Proper, CodeLevel, IsGuard
<1>2. CASE d \in SuppressionFindings(unit)
  BY <1>2, SuppressionFindingIs
<1> QED
  BY <1>1, <1>2 DEF Findings

\* A declaration that is visited is of a line where prefix_namespace is on.
LEMMA DeclarationIs ==
    ASSUME NEW unit, NEW v
    PROVE  v \in Declarations(unit) <=>
              \E path \in DOMAIN unit.parts : \E i \in unit.parts[path] :
                 /\ ~IsInSystemHeader(path) /\ ShouldCheckPath(path)
                 /\ ~IsSuppressed(Lines(path), i)
                 /\ "prefix_namespace" \in Lines(path)[i] \cap ActiveRules
                 /\ v = <<path, i>>
BY DEF Declarations

\* A guard is reported for a path that is visited and was not checked before, with the guard
\* that the path asks for, and for each of these paths one is.
LEMMA GuardFindingIs ==
    ASSUME NEW unit, NEW visited \in SUBSET Declarations(unit)
    PROVE  /\ \A d \in GuardFindings(visited) :
                 /\ Proper(d) /\ IsGuard(d)
                 /\ d.file \in PathsOf(visited) \ checked /\ GuardMissing(d.file)
                 /\ d.message = BelowTop(config, d.file)
           /\ \A p \in PathsOf(visited) \ checked :
                 GuardMissing(p) => \E d \in GuardFindings(visited) : d.file = p
           /\ \A d, e \in GuardFindings(visited) : d.file = e.file => d = e
<1>  DEFINE first(p) == Min({v[2] : v \in {w \in visited : w[1] = p}})
            guard(p) == Finding(LevelOf(config, "prefix_namespace"), "MissingIncludeGuard", p,
                                first(p), BelowTop(config, p))
            paths    == {p \in PathsOf(visited) \ checked : GuardMissing(p)}
<1>1. GuardFindings(visited) = {guard(p) : p \in paths}
  BY DEF GuardFindings
<1>2. ASSUME visited # {} PROVE LevelOf(config, "prefix_namespace") # "Off"
  <2>1. PICK v \in Declarations(unit) : TRUE
    BY <1>2
  <2>2. "prefix_namespace" \in ActiveRules
    BY <2>1, DeclarationIs
  <2> QED BY <2>2 DEF ActiveRules, IsOn
<1>3. CodeLevel("MissingIncludeGuard") = LevelOf(config, "prefix_namespace")
  BY SuppressionCodes DEF CodeLevel
<1>  HIDE DEF first
<1>4. ASSUME NEW p PROVE /\ guard(p).file = p /\ guard(p).code = "MissingIncludeGuard"
                         /\ guard(p).level = LevelOf(config, "prefix_namespace")
                         /\ guard(p).line = first(p)
                         /\ guard(p).message = BelowTop(config, p)
  BY DEF Finding
<1>5. paths # {} => visited # {}
  BY DEF PathsOf
<1>  HIDE DEF guard, paths
<1>6. ASSUME NEW p \in paths PROVE Proper(guard(p)) /\ IsGuard(guard(p))
  <2>1. guard(p) = Finding(guard(p).level, guard(p).code, guard(p).file, guard(p).line,
                           guard(p).message)
    BY <1>4 DEF guard
  <2> QED BY <1>2, <1>3, <1>4, <1>5, <1>6, <2>1 DEF Proper, IsGuard
<1>7. \A p \in paths : p \in PathsOf(visited) \ checked /\ GuardMissing(p)
  BY DEF paths
<1>8. \A p \in PathsOf(visited) \ checked : GuardMissing(p) => p \in paths
  BY DEF paths
<1> QED
  BY <1>1, <1>4, <1>6, <1>7, <1>8

\* What is found in a unit depends on the command line, the project and the config alone.
LEMMA FindingsStay ==
    ASSUME UNCHANGED <<options, world, config>>
    PROVE  /\ \A unit : Findings(unit)' = Findings(unit)
           /\ \A unit : Declarations(unit)' = Declarations(unit)
           /\ \A p : GuardMissing(p)' <=> GuardMissing(p)
           /\ \A d : Key(d)' = Key(d) /\ Record(d)' = Record(d) /\ (Proper(d)' <=> Proper(d))
           /\ \A code : CodeLevel(code)' = CodeLevel(code)
           /\ \A level : Promoted(level)' = Promoted(level)
<1>1. /\ \A p : Lines(p)' = Lines(p) /\ RealPath(p)' = RealPath(p)
      /\ \A p : ThirdPartyFolder(p)' <=> ThirdPartyFolder(p)
      /\ \A r, p : IsThirdParty(r, p)' <=> IsThirdParty(r, p)
      /\ \A p : IsInSystemHeader(p)' = IsInSystemHeader(p)
  BY SearchStays
<1>2. ActiveRules' = ActiveRules
  BY DEF ActiveRules
<1>3. /\ \A p : Prefix(p)' = Prefix(p) /\ (IsHeader(p)' <=> IsHeader(p))
      /\ \A r, p : Message(r, p)' = Message(r, p)
  <2>1. \A p : Prefix(p)' = Prefix(p)
    BY DEF Prefix
  <2>2. \A p : IsHeader(p)' <=> IsHeader(p)
    BY DEF IsHeader
  <2>3. \A r, p : Message(r, p)' = Message(r, p)
    BY <2>1 DEF Message
  <2> QED BY <2>1, <2>2, <2>3
<1>4. ASSUME NEW r, NEW p PROVE Holds(r, p)' <=> Holds(r, p)
  BY <1>1, <1>3 DEF Holds
<1>5. ASSUME NEW p, NEW i PROVE RulesBroken(p, i)' = RulesBroken(p, i)
  <2>1. ASSUME NEW r PROVE r \in RulesBroken(p, i)' <=> r \in RulesBroken(p, i)
    BY <1>1, <1>2, <1>4 DEF RulesBroken
  <2> QED BY <2>1
<1>6. ASSUME NEW unit, NEW d PROVE d \in RuleFindings(unit)' <=> d \in RuleFindings(unit)
  <2>1. d \in RuleFindings(unit)' <=>
              \E path \in DOMAIN unit.parts : \E i \in unit.parts[path] :
              \E r \in RulesBroken(path, i)' :
                 /\ ~IsInSystemHeader(path)' /\ ~IsSuppressed(Lines(path)', i)
                 /\ d = Finding(LevelOf(config', r), r, path, i, Message(r, path)')
    BY DEF RuleFindings
  <2> QED
    BY <1>1, <1>3, <1>5, <2>1, RuleFindingIs
<1>7. ASSUME NEW path
      PROVE  Unbalanced(path)' = Unbalanced(path) /\ MissingReason(path)' = MissingReason(path)
  <2>1. Lines(path)' = Lines(path)
    BY <1>1
  <2>2. ASSUME NEW d PROVE d \in Unbalanced(path)' <=> d \in Unbalanced(path)
    BY <2>1 DEF Unbalanced
  <2>3. ASSUME NEW d PROVE d \in MissingReason(path)' <=> d \in MissingReason(path)
    BY <1>2, <2>1 DEF MissingReason
  <2> QED
    <3>1. Unbalanced(path)' = Unbalanced(path)
      BY <2>2
    <3>2. MissingReason(path)' = MissingReason(path)
      BY <2>3
    <3> QED BY <3>1, <3>2
<1>8. ASSUME NEW unit PROVE SuppressionFindings(unit)' = SuppressionFindings(unit)
  <2>1. ASSUME NEW p PROVE p \in ProjectFiles(unit)' <=> p \in ProjectFiles(unit)
    BY <1>1 DEF ProjectFiles
  <2>2. ASSUME NEW d PROVE d \in SuppressionFindings(unit)' <=> d \in SuppressionFindings(unit)
    BY <1>7, <2>1 DEF SuppressionFindings
  <2> QED BY <2>2
<1>9. ASSUME NEW unit PROVE Findings(unit)' = Findings(unit)
  BY <1>6, <1>8 DEF Findings
<1>10. ASSUME NEW unit PROVE Declarations(unit)' = Declarations(unit)
  <2>1. \A p : ShouldCheckPath(p)' <=> ShouldCheckPath(p)
    BY <1>1, <1>3 DEF ShouldCheckPath
  <2>2. ASSUME NEW v PROVE v \in Declarations(unit)' <=> v \in Declarations(unit)
    BY <1>1, <1>2, <2>1 DEF Declarations
  <2> QED BY <2>2
<1>11. ASSUME NEW p PROVE GuardMissing(p)' <=> GuardMissing(p)
  BY <1>1 DEF GuardMissing
<1>12. \A level : Promoted(level)' = Promoted(level)
  BY DEF Promoted
<1>13. \A code : CodeLevel(code)' = CodeLevel(code)
  BY DEF CodeLevel
<1>14. ASSUME NEW d
       PROVE  Key(d)' = Key(d) /\ Record(d)' = Record(d) /\ (Proper(d)' <=> Proper(d))
  BY <1>1, <1>12, <1>13 DEF Key, Record, Proper
<1> QED
  BY <1>9, <1>10, <1>11, <1>12, <1>13, <1>14

-----------------------------------------------------------------------------
(* Each finding is reported once                                           *)

\* The analysis is going on, or over without a failure.
Analyzing == pc = "analyze" \/ Complete

\* What there is to be found in the sources so far, and the declarations of headers in them.
Analyzed == UNION {Findings(world.units[sources[k]]) : k \in 1..source}
Visited  == UNION {Declarations(world.units[sources[k]]) : k \in 1..source}

\* By what the records are told apart.
Keys(diag) == {Key(diag.records[i]) : i \in DOMAIN diag.records}

\* What was seen is what was reported, once each, at the level of its code.
Reports(diag) ==
    /\ IsSequence(diag.records)
    /\ diag.seen = Keys(diag)
    /\ \A i, j \in DOMAIN diag.records : i # j => Key(diag.records[i]) # Key(diag.records[j])
    /\ \A i \in DOMAIN diag.records :
          diag.records[i].level = Promoted(CodeLevel(diag.records[i].code))

\* What is reported or still to be reported.
Reported == diagnostics.seen \cup {Key(d) : d \in found}

\* The guards that paths ask for and miss, and those that are told to be missing.
MissingIn(paths) ==
    {<<RealPath(p), BelowTop(config, p)>> : p \in {q \in paths : GuardMissing(q)}}
GuardsOf(keys) == {<<k.file, k.message>> : k \in {j \in keys : IsGuard(j)}}

\* As long as every source compiled, what was found is reported or still to be reported, and
\* so are the guards that are missing in the headers visited.
AllReported ==
    Analyzing =>
      /\ Reports(diagnostics)
      /\ \A d \in found : Proper(d)
      /\ result = 0 => /\ {k \in Reported : ~IsGuard(k)} = {Key(d) : d \in Analyzed}
                       /\ GuardsOf(Reported) = MissingIn(checked)
                       /\ checked = PathsOf(Visited)

\* A header whose guard is told to be missing was checked, and this is told once.
GuardsOnce ==
    Analyzing =>
      /\ \A d \in found : IsGuard(d) =>
            /\ d.file \in checked
            /\ \A e \in found : IsGuard(e) /\ d # e => d.file # e.file
      /\ \A i \in DOMAIN diagnostics.records : IsGuard(diagnostics.records[i]) =>
            /\ diagnostics.records[i].file \in checked
            /\ \A d \in found : IsGuard(d) => d.file # diagnostics.records[i].file
            /\ \A j \in DOMAIN diagnostics.records :
                  i # j /\ IsGuard(diagnostics.records[j]) =>
                     diagnostics.records[i].file # diagnostics.records[j].file

\* A run that ends below 64 has analyzed all the sources it was asked for.
Finished ==
    Complete => /\ found = {} /\ result = 0 /\ source = Len(sources) /\ ToSet(sources) = Asked

\* A record keeps the key of its finding.
LEMMA RecordKey ==
    ASSUME NEW d
    PROVE  /\ Key(Record(d)) = Key(d) /\ Record(d).level = Promoted(d.level)
           /\ Record(d).code = d.code /\ Record(d).file = d.file
BY DEF Key, Record, Finding, Promoted

\* A key names the real file, and tells codes and messages apart.
LEMMA KeyIs ==
    ASSUME NEW d
    PROVE  /\ Key(d).code = d.code /\ Key(d).message = d.message /\ Key(d).line = d.line
           /\ Key(d).file = RealPath(d.file) /\ Key(d).level = Promoted(d.level)
           /\ IsGuard(Key(d)) <=> IsGuard(d)
BY DEF Key, Finding, IsGuard

\* report: a finding whose key was seen changes nothing, another one is recorded.
LEMMA ReportOnce ==
    ASSUME NEW diag, Reports(diag), NEW d, Proper(d)
    PROVE  Reports(Report(diag, d)) /\ Report(diag, d).seen = diag.seen \cup {Key(d)}
<1>  DEFINE next == Report(diag, d)
<1>1. d.level # "Off" /\ d.level = CodeLevel(d.code)
  BY DEF Proper
<1>2. CASE Key(d) \in diag.seen
  BY <1>2 DEF Report
<1>3. CASE Key(d) \notin diag.seen
  <2>1. /\ next.records = Append(diag.records, Record(d))
        /\ next.seen = diag.seen \cup {Key(d)}
    BY <1>1, <1>3 DEF Report
  <2>2. diag.records \in Seq(ToSet(diag.records))
    BY DEF Reports, IsSequence
  <2>3. IsSequence(next.records)
    BY <2>1, SequenceAppended DEF Reports
  <2>  DEFINE n == Len(diag.records) + 1
  <2>4. /\ DOMAIN next.records = (DOMAIN diag.records) \cup {n} /\ n \notin DOMAIN diag.records
        /\ \A i \in DOMAIN diag.records : next.records[i] = diag.records[i]
        /\ next.records[n] = Record(d)
    BY <2>1, <2>2
  <2> HIDE DEF n, next
  <2>5. Keys(next) = Keys(diag) \cup {Key(d)}
    BY <2>4, RecordKey DEF Keys
  <2>6. ASSUME NEW i \in DOMAIN next.records, NEW j \in DOMAIN next.records, i # j
        PROVE  Key(next.records[i]) # Key(next.records[j])
    <3>1. CASE i = n
      BY <1>3, <2>4, <2>6, <3>1, RecordKey DEF Reports, Keys
    <3>2. CASE j = n
      BY <1>3, <2>4, <2>6, <3>2, RecordKey DEF Reports, Keys
    <3>3. CASE i # n /\ j # n
      BY <2>4, <2>6, <3>3 DEF Reports
    <3> QED BY <3>1, <3>2, <3>3
  <2>7. \A i \in DOMAIN next.records :
           next.records[i].level = Promoted(CodeLevel(next.records[i].code))
    BY <1>1, <2>4, RecordKey DEF Reports
  <2>8. Reports(next) /\ next.seen = diag.seen \cup {Key(d)}
    BY <2>1, <2>3, <2>5, <2>6, <2>7 DEF Reports
  <2> QED BY <2>8 DEF next
<1> QED BY <1>2, <1>3

\* A run that ends before its analysis exits with a code from 64.
LEMMA RefusedIsNotComplete ==
    ASSUME TypeOK, Phases, Next, pc \in Configuring \cup Collecting
    PROVE  ~Complete'
BY DEF Complete, Phases, Configuring, Collecting, Next, Arguments, LoadConfig, DumpConfig, Validate,
   LocateDatabase, CollectInput, CollectSources, OpenOutputs, AnalyzeSource, ReportFinding,
   WriteOutputs, Exit, ExitCode, vars

\* The reports stay right while the command line, the project and the config stay.
LEMMA ReportsStay ==
    ASSUME UNCHANGED <<options, world, config>>, NEW diag, Reports(diag), diagnostics' = diag
    PROVE  Reports(diagnostics)'
<1>1. /\ \A d : Key(d)' = Key(d)
      /\ \A code : CodeLevel(code)' = CodeLevel(code)
      /\ \A level : Promoted(level)' = Promoted(level)
  BY FindingsStay
<1>2. Keys(diagnostics)' = Keys(diag)
  BY <1>1 DEF Keys
<1>3. IsSequence(diagnostics'.records)
  BY DEF Reports
<1> QED
  BY <1>1, <1>2, <1>3 DEF Reports

\* A source adds what is found in it to what is to be reported, a report moves one finding
\* from there to the records.
LEMMA AllReportedStep ==
    TypeOK /\ Phases /\ AllReported /\ [Next]_vars => AllReported'
<1>1. SUFFICES ASSUME TypeOK, Phases, AllReported, [Next]_vars, Analyzing' PROVE AllReported'
  BY DEF AllReported
<1>2. CASE pc = "outputs"
  <2>1. /\ source' = 0 /\ checked' = {} /\ found' = {} /\ diagnostics' = NothingReported
        /\ UNCHANGED <<options, world, config>>
    BY <1>1, <1>2, RefusedIsNotComplete DEF Phases, Unstarted, Configuring, Collecting,
       Analyzing, Next, Arguments, LoadConfig, DumpConfig, Validate, LocateDatabase,
       CollectInput, CollectSources,
       OpenOutputs, AnalyzeSource, ReportFinding, WriteOutputs, Exit, progress, vars, Complete
  <2>2. Reports(NothingReported)
    BY DEF Reports, Keys, NothingReported, IsSequence
  <2>3. Reports(diagnostics)'
    BY <2>1, <2>2, ReportsStay
  <2>4. Analyzed' = {} /\ PathsOf(Visited)' = {}
    BY <2>1 DEF Analyzed, Visited, PathsOf
  <2>5. Reported' = {} /\ GuardsOf(Reported') = {} /\ MissingIn(checked)' = {}
    BY <2>1 DEF Reported, NothingReported, GuardsOf, MissingIn
  <2> QED
    BY <2>1, <2>3, <2>4, <2>5 DEF AllReported
<1>3. CASE Analyzing
  <2>1. UNCHANGED <<options, world, config, sources>>
    BY <1>1, <1>3 DEF Analyzing, Complete, Next,
       Arguments, LoadConfig, DumpConfig, Validate, LocateDatabase, CollectInput, CollectSources,
       OpenOutputs, AnalyzeSource, ReportFinding, WriteOutputs, Exit, progress, vars
  <2>2. /\ Reports(diagnostics) /\ \A d \in found : Proper(d)
        /\ result = 0 => /\ {k \in Reported : ~IsGuard(k)} = {Key(d) : d \in Analyzed}
                         /\ GuardsOf(Reported) = MissingIn(checked)
                         /\ checked = PathsOf(Visited)
    BY <1>1, <1>3 DEF AllReported
  <2>3. /\ \A unit : /\ Findings(unit)' = Findings(unit)
                     /\ Declarations(unit)' = Declarations(unit)
        /\ \A d : Key(d)' = Key(d)
        /\ \A d : Proper(d)' <=> Proper(d)
        /\ \A p : GuardMissing(p)' <=> GuardMissing(p)
    BY <2>1, FindingsStay
  <2>4. \A paths : MissingIn(paths)' = MissingIn(paths)
    <3>1. \A p : RealPath(p)' = RealPath(p)
      BY <2>1, SearchStays
    <3> QED BY <2>1, <2>3, <3>1 DEF MissingIn
  <2>5. CASE AnalyzeSource
    <3>  DEFINE unit == world.units[sources[source + 1]]
    <3>1. /\ found = {} /\ source' = source + 1 /\ source \in Nat /\ UNCHANGED diagnostics
          /\ result' = Result(unit.fails)
      BY <1>1, <2>5 DEF AnalyzeSource, TypeOK
    <3>2. PICK visited \in Recovered(unit, Declarations(unit)),
               rest \in Recovered(unit, Findings(unit)) :
             /\ found' = rest \cup GuardFindings(visited)
             /\ checked' = checked \cup PathsOf(visited)
      BY <1>1, <2>5, <3>1 DEF AnalyzeSource
    <3>3. Reports(diagnostics)'
      BY <2>1, <2>2, <3>1, ReportsStay
    <3>4. /\ visited \in SUBSET Declarations(unit) /\ rest \subseteq Findings(unit)
          /\ result' = 0 => /\ result = 0 /\ rest = Findings(unit)
                            /\ visited = Declarations(unit)
      BY <3>1, <3>2 DEF Recovered, Result
    <3>  HIDE DEF unit
    <3>5. \A d \in rest : Proper(d) /\ ~IsGuard(d)
      BY <3>4, FindingIsProper
    <3>6. \A d \in found' : Proper(d)'
      BY <2>3, <3>2, <3>4, <3>5, GuardFindingIs
    <3>7. ASSUME result' = 0
          PROVE  /\ {k \in Reported' : ~IsGuard(k)} = {Key(d)' : d \in Analyzed'}
                 /\ GuardsOf(Reported') = MissingIn(checked')
                 /\ checked' = PathsOf(Visited)'
      <4>1. /\ {k \in diagnostics.seen : ~IsGuard(k)} = {Key(d) : d \in Analyzed}
            /\ GuardsOf(diagnostics.seen) = MissingIn(checked)
            /\ checked = PathsOf(Visited)
        BY <2>2, <3>1, <3>4, <3>7 DEF Reported
      <4>2. rest = Findings(unit) /\ visited = Declarations(unit)
        BY <3>4, <3>7
      <4>3. Analyzed' = Analyzed \cup rest /\ PathsOf(Visited)' = PathsOf(Visited) \cup PathsOf(visited)
        <5>1. /\ Analyzed' = UNION {Findings(world.units[sources[k]]) : k \in 1..(source + 1)}
              /\ Visited' = UNION {Declarations(world.units[sources[k]]) : k \in 1..(source + 1)}
          BY <2>1, <2>3, <3>1 DEF Analyzed, Visited
        <5>2. 1..(source + 1) = (1..source) \cup {source + 1}
          BY <3>1
        <5>3. Analyzed' = Analyzed \cup rest /\ Visited' = Visited \cup visited
          BY <4>2, <5>1, <5>2 DEF Analyzed, Visited, unit
        <5> QED BY <5>3 DEF PathsOf
      <4>4. ASSUME NEW k
            PROVE  k \in Reported' <=>
                      \/ k \in diagnostics.seen
                      \/ \E d \in rest : k = Key(d)
                      \/ \E d \in GuardFindings(visited) : k = Key(d)
        BY <2>3, <3>1, <3>2 DEF Reported
      <4>5. {k \in Reported' : ~IsGuard(k)} = {Key(d)' : d \in Analyzed'}
        <5>1. ASSUME NEW k
              PROVE  k \in Reported' /\ ~IsGuard(k) <=>
                        \/ k \in diagnostics.seen /\ ~IsGuard(k)
                        \/ \E d \in rest : k = Key(d)
          BY <3>4, <3>5, <4>4, GuardFindingIs, KeyIs
        <5>2. {Key(d)' : d \in Analyzed'} = {Key(d) : d \in Analyzed} \cup {Key(d) : d \in rest}
          BY <2>3, <4>3
        <5> QED BY <4>1, <5>1, <5>2
      <4>6. GuardsOf(Reported') = MissingIn(checked')
        <5>1. ASSUME NEW x
              PROVE  x \in GuardsOf(Reported') <=>
                        \/ x \in GuardsOf(diagnostics.seen)
                        \/ \E d \in GuardFindings(visited) : x = <<RealPath(d.file), d.message>>
          <6>1. x \in GuardsOf(Reported') <=>
                   \E k : k \in Reported' /\ IsGuard(k) /\ x = <<k.file, k.message>>
            BY DEF GuardsOf
          <6>2. x \in GuardsOf(diagnostics.seen) <=>
                   \E k : k \in diagnostics.seen /\ IsGuard(k) /\ x = <<k.file, k.message>>
            BY DEF GuardsOf
          <6>3. ASSUME NEW d \in GuardFindings(visited)
                PROVE  /\ IsGuard(Key(d))
                       /\ <<Key(d).file, Key(d).message>> = <<RealPath(d.file), d.message>>
            <7>1. IsGuard(d)
              BY <3>4, GuardFindingIs
            <7> QED BY <7>1, KeyIs
          <6>4. \A d \in rest : ~IsGuard(Key(d))
            BY <3>5, KeyIs
          <6> QED BY <4>4, <6>1, <6>2, <6>3, <6>4
        <5>2. ASSUME NEW x
              PROVE  (\E d \in GuardFindings(visited) : x = <<RealPath(d.file), d.message>>) <=>
                     (\E p \in PathsOf(visited) \ checked :
                         GuardMissing(p) /\ x = <<RealPath(p), BelowTop(config, p)>>)
          BY <3>4, GuardFindingIs
        <5>3. ASSUME NEW x
              PROVE  x \in MissingIn(checked') <=>
                        \/ x \in MissingIn(checked)
                        \/ \E p \in PathsOf(visited) \ checked :
                              GuardMissing(p) /\ x = <<RealPath(p), BelowTop(config, p)>>
          BY <3>2 DEF MissingIn
        <5>4. ASSUME NEW x PROVE x \in GuardsOf(Reported') <=> x \in MissingIn(checked')
          BY <4>1, <5>1, <5>2, <5>3
        <5>  DEFINE told == GuardsOf(Reported')
                    owed == MissingIn(checked')
        <5>5. \A x : x \in told <=> x \in owed
          BY <5>4
        <5>6. (\A x : x \in told <=> x \in owed) => told = owed
          <6> HIDE DEF told, owed
          <6> QED OBVIOUS
        <5> QED BY <5>5, <5>6
      <4> QED BY <3>2, <4>1, <4>3, <4>5, <4>6
    <3> QED BY <2>4, <3>3, <3>6, <3>7 DEF AllReported
  <2>6. CASE ReportFinding
    <3>  DEFINE d == CHOOSE d \in found : TRUE
    <3>1. /\ d \in found /\ diagnostics' = Report(diagnostics, d) /\ found' = found \ {d}
          /\ UNCHANGED <<source, checked, result>>
      BY <2>6 DEF ReportFinding
    <3> HIDE DEF d
    <3>2. /\ Reports(Report(diagnostics, d))
          /\ Report(diagnostics, d).seen = diagnostics.seen \cup {Key(d)}
      BY <2>2, <3>1, ReportOnce
    <3>3. Reports(diagnostics)'
      BY <2>1, <3>1, <3>2, ReportsStay
    <3>4. \A e \in found' : Proper(e)'
      BY <2>2, <2>3, <3>1
    <3>5. Analyzed' = Analyzed /\ Visited' = Visited
      BY <2>1, <2>3, <3>1 DEF Analyzed, Visited
    <3>6. Reported' = Reported
      BY <2>3, <3>1, <3>2 DEF Reported
    <3>7. {Key(e)' : e \in Analyzed'} = {Key(e) : e \in Analyzed}
      BY <2>3, <3>5
    <3> QED BY <2>2, <2>4, <3>1, <3>3, <3>4, <3>5, <3>6, <3>7 DEF AllReported
  <2>7. CASE ~AnalyzeSource /\ ~ReportFinding
    <3>1. UNCHANGED <<source, checked, found, diagnostics, result>>
      BY <1>1, <1>3, <2>7 DEF Analyzing, Complete, Next,
         Arguments, LoadConfig, DumpConfig, Validate, LocateDatabase, CollectInput, CollectSources,
         OpenOutputs, WriteOutputs, Exit, progress, vars
    <3>2. Reports(diagnostics)'
      BY <2>1, <2>2, <3>1, ReportsStay
    <3>3. Analyzed' = Analyzed /\ Visited' = Visited
      BY <2>1, <2>3, <3>1 DEF Analyzed, Visited
    <3>4. \A d \in found' : Proper(d)'
      BY <2>2, <2>3, <3>1
    <3>5. {Key(e)' : e \in Analyzed'} = {Key(e) : e \in Analyzed} /\ Reported' = Reported
      BY <2>3, <3>1, <3>3 DEF Reported
    <3> QED BY <2>2, <2>4, <3>1, <3>2, <3>3, <3>4, <3>5 DEF AllReported
  <2> QED BY <2>5, <2>6, <2>7
<1>4. CASE pc # "outputs" /\ ~Analyzing
  <2>1. CASE pc \in Configuring \cup Collecting
    BY <1>1, <1>4, <2>1, RefusedIsNotComplete DEF Analyzing, Configuring, Collecting, Next,
       Arguments, LoadConfig, DumpConfig, Validate, LocateDatabase, CollectInput, CollectSources,
       OpenOutputs, AnalyzeSource, ReportFinding, WriteOutputs, Exit, Complete, vars
  <2>2. CASE pc = "exited"
    BY <1>1, <1>4, <2>2 DEF Analyzing, Next,
       Arguments, LoadConfig, DumpConfig, Validate, LocateDatabase, CollectInput, CollectSources,
       OpenOutputs, AnalyzeSource, ReportFinding, WriteOutputs, Complete, vars
  <2> QED BY <1>1, <1>4, <2>1, <2>2 DEF TypeOK, Analyzing
<1> QED BY <1>2, <1>3, <1>4

\* Only headers that were not checked before are reported, and a report keeps its file.
LEMMA GuardsOnceStep ==
    TypeOK /\ Phases /\ AllReported /\ GuardsOnce /\ [Next]_vars => GuardsOnce'
<1>1. SUFFICES ASSUME TypeOK, Phases, AllReported, GuardsOnce, [Next]_vars, Analyzing'
               PROVE  GuardsOnce'
  BY DEF GuardsOnce
<1>2. CASE pc = "outputs"
  <2>1. found' = {} /\ diagnostics' = NothingReported
    BY <1>1, <1>2, RefusedIsNotComplete DEF Phases, Unstarted, Configuring, Collecting,
       Analyzing, Next, Arguments, LoadConfig, DumpConfig, Validate, LocateDatabase,
       CollectInput, CollectSources,
       OpenOutputs, AnalyzeSource, ReportFinding, WriteOutputs, Exit, progress, vars, Complete
  <2>2. DOMAIN diagnostics'.records = {}
    BY <2>1 DEF NothingReported
  <2> QED BY <2>1, <2>2 DEF GuardsOnce
<1>3. CASE Analyzing
  <2>  DEFINE recs == diagnostics.records
  <2>1. /\ \A d \in found : IsGuard(d) =>
              /\ d.file \in checked
              /\ \A e \in found : IsGuard(e) /\ d # e => d.file # e.file
        /\ \A i \in DOMAIN recs : IsGuard(recs[i]) =>
              /\ recs[i].file \in checked
              /\ \A d \in found : IsGuard(d) => d.file # recs[i].file
              /\ \A j \in DOMAIN recs : i # j /\ IsGuard(recs[j]) => recs[i].file # recs[j].file
        /\ Reports(diagnostics) /\ \A d \in found : Proper(d)
    BY <1>1, <1>3 DEF GuardsOnce, AllReported
  <2>2. CASE AnalyzeSource
    <3>  DEFINE unit == world.units[sources[source + 1]]
    <3>1. found = {} /\ source' = source + 1 /\ UNCHANGED diagnostics
      BY <1>1, <2>2 DEF AnalyzeSource, TypeOK
    <3>2. PICK visited \in Recovered(unit, Declarations(unit)),
               rest \in Recovered(unit, Findings(unit)) :
             /\ found' = rest \cup GuardFindings(visited)
             /\ checked' = checked \cup PathsOf(visited)
      BY <1>1, <2>2, <3>1 DEF AnalyzeSource
    <3>3. visited \in SUBSET Declarations(unit) /\ rest \subseteq Findings(unit)
      BY <3>2 DEF Recovered
    <3>  HIDE DEF unit
    <3>4. \A d \in found' : IsGuard(d) => d \in GuardFindings(visited)
      BY <3>2, <3>3, FindingIsProper
    <3>5. /\ \A d \in GuardFindings(visited) : d.file \in PathsOf(visited) \ checked
          /\ \A d, e \in GuardFindings(visited) : d # e => d.file # e.file
      BY <3>3, GuardFindingIs
    <3> QED BY <2>1, <3>1, <3>2, <3>4, <3>5 DEF GuardsOnce
  <2>3. CASE ReportFinding
    <3>  DEFINE d == CHOOSE d \in found : TRUE
    <3>1. /\ d \in found /\ diagnostics' = Report(diagnostics, d) /\ found' = found \ {d}
          /\ UNCHANGED checked
      BY <2>3 DEF ReportFinding
    <3>  HIDE DEF d
    <3>2. CASE diagnostics'.records = recs
      BY <2>1, <3>1, <3>2 DEF GuardsOnce
    <3>3. CASE diagnostics'.records = Append(recs, Record(d))
      <4>  DEFINE n    == Len(recs) + 1
                  next == diagnostics'.records
      <4>1. recs \in Seq(ToSet(recs))
        BY <2>1 DEF Reports, IsSequence
      <4>2. /\ DOMAIN next = (DOMAIN recs) \cup {n} /\ n \notin DOMAIN recs
            /\ \A i \in DOMAIN recs : next[i] = recs[i]
            /\ next[n] = Record(d)
        BY <3>3, <4>1
      <4>3. (IsGuard(next[n]) <=> IsGuard(d)) /\ next[n].file = d.file
        BY <4>2, RecordKey DEF IsGuard
      <4>  HIDE DEF n, next, recs
      <4>4. \A e \in found' : e \in found /\ e # d
        BY <3>1
      <4>5. \A i \in DOMAIN next : IsGuard(next[i]) =>
              /\ next[i].file \in checked
              /\ \A e \in found' : IsGuard(e) => e.file # next[i].file
        BY <2>1, <3>1, <4>2, <4>3, <4>4
      <4>6. \A i, j \in DOMAIN next :
              i # j /\ IsGuard(next[i]) /\ IsGuard(next[j]) => next[i].file # next[j].file
        BY <2>1, <3>1, <4>2, <4>3
      <4>7. \A e \in found' : IsGuard(e) =>
              /\ e.file \in checked
              /\ \A c \in found' : IsGuard(c) /\ e # c => e.file # c.file
        BY <2>1, <4>4
      <4> QED BY <3>1, <4>5, <4>6, <4>7 DEF GuardsOnce, next
    <3> QED BY <3>1, <3>2, <3>3 DEF Report
  <2>4. CASE ~AnalyzeSource /\ ~ReportFinding
    <3>1. UNCHANGED <<checked, found, diagnostics>>
      BY <1>1, <1>3, <2>4 DEF Analyzing, Complete, Next,
         Arguments, LoadConfig, DumpConfig, Validate, LocateDatabase, CollectInput, CollectSources,
         OpenOutputs, WriteOutputs, Exit, progress, vars
    <3> QED BY <2>1, <3>1 DEF GuardsOnce
  <2> QED BY <2>2, <2>3, <2>4
<1>4. CASE pc # "outputs" /\ ~Analyzing
  <2>1. CASE pc \in Configuring \cup Collecting
    BY <1>1, <1>4, <2>1, RefusedIsNotComplete DEF Analyzing, Configuring, Collecting, Next,
       Arguments, LoadConfig, DumpConfig, Validate, LocateDatabase, CollectInput, CollectSources,
       OpenOutputs, AnalyzeSource, ReportFinding, WriteOutputs, Exit, Complete, vars
  <2>2. CASE pc = "exited"
    BY <1>1, <1>4, <2>2 DEF Analyzing, Next,
       Arguments, LoadConfig, DumpConfig, Validate, LocateDatabase, CollectInput, CollectSources,
       OpenOutputs, AnalyzeSource, ReportFinding, WriteOutputs, Complete, vars
  <2> QED BY <1>1, <1>4, <2>1, <2>2 DEF TypeOK, Analyzing
<1> QED BY <1>2, <1>3, <1>4

\* main ends below 64 when every source was analyzed, everything found reported, and none
\* failed.
LEMMA FinishedStep ==
    TypeOK /\ Phases /\ Collected /\ Finished /\ [Next]_vars => Finished'
<1>1. SUFFICES ASSUME TypeOK, Phases, Collected, Finished, [Next]_vars, Complete'
               PROVE  (found = {} /\ result = 0 /\ source = Len(sources) /\ ToSet(sources) = Asked)'
  BY DEF Finished
<1>2. CASE pc = "exited"
  <2>1. UNCHANGED vars
    BY <1>1, <1>2 DEF Next, Arguments, LoadConfig, DumpConfig, Validate, LocateDatabase,
       CollectInput, CollectSources, OpenOutputs, AnalyzeSource, ReportFinding, WriteOutputs
  <2>2. Asked' = Asked
    <3>1. \A p : SourcesOf(p)' = SourcesOf(p)
      BY <2>1, SearchStays DEF vars
    <3> QED
      BY <2>1, <3>1 DEF vars, Asked
  <2> QED
    BY <1>1, <2>1, <2>2 DEF vars, Finished, Complete
<1>3. CASE pc \in Configuring \cup Collecting
  BY <1>1, <1>3, RefusedIsNotComplete DEF Configuring, Collecting, vars, Complete
<1>4. CASE pc = "analyze"
  <2>1. WriteOutputs
    BY <1>1, <1>4 DEF Complete, Next, Arguments, LoadConfig, DumpConfig, Validate, LocateDatabase,
       CollectInput, CollectSources, OpenOutputs, AnalyzeSource, ReportFinding, vars
  <2>2. /\ UNCHANGED <<options, world, config, sources, source, found, result>>
        /\ found = {} /\ source = Len(sources)
        /\ exitCode' = IF result # 0 THEN 67 ELSE Verdict
    BY <2>1 DEF WriteOutputs, Exit, ExitCode, progress
  <2>3. Asked' = Asked
    <3>1. \A p : SourcesOf(p)' = SourcesOf(p)
      BY <2>2, SearchStays
    <3> QED
      BY <2>2, <3>1 DEF Asked
  <2>4. ToSet(sources) = Asked
    BY <1>1, <1>4, AllCollected
  <2> QED
    BY <1>1, <2>2, <2>3, <2>4 DEF Complete
<1> QED
  BY <1>1, <1>2, <1>3, <1>4 DEF TypeOK

\* Every source asked for is one whose compilation the project knows.
LEMMA AskedHaveUnits ==
    ASSUME TypeOK, NEW s \in Asked
    PROVE  /\ s \in DOMAIN world.units
           /\ \A p \in DOMAIN world.units[s].parts :
                 Len(Lines(p)) \in Nat /\ world.units[s].parts[p] \subseteq 1..Len(Lines(p))
<1>1. IsProject(options.inputs, world)
  BY DEF TypeOK
<1>2. PICK path \in ToSet(options.inputs) : s \in SourcesOf(path)
  BY DEF Asked
<1>3. s \in DOMAIN world.units
  <2>1. CASE IsFile(path)
    <3>1. s = RealPathIn(world, path) /\ s \in DOMAIN world.files
      BY <1>2, <2>1 DEF SourcesOf, IsFile, RealPath
    <3> QED
      BY <1>1, <1>2, <3>1 DEF IsProject
  <2>2. CASE ~IsFile(path)
    BY <1>1, <1>2, <2>2 DEF SourcesOf, FilesBelow, IsProject
  <2> QED BY <2>1, <2>2
<1>4. ASSUME NEW p \in DOMAIN world.units[s].parts
      PROVE  Len(Lines(p)) \in Nat /\ world.units[s].parts[p] \subseteq 1..Len(Lines(p))
  <2>1. /\ RealPathIn(world, p) \in DOMAIN world.files
        /\ world.units[s].parts[p] \subseteq DOMAIN world.files[RealPathIn(world, p)].lines
        /\ IsSequence(world.files[RealPathIn(world, p)].lines)
    BY <1>1, <1>3, <1>4 DEF IsProject
  <2>2. Lines(p) \in Seq(ToSet(Lines(p))) /\ world.units[s].parts[p] \subseteq DOMAIN Lines(p)
    BY <2>1 DEF Lines, RealPath, IsSequence
  <2> QED BY <2>2
<1> QED BY <1>3, <1>4

\* What is broken in unsuppressed lines of the sources asked for is what the rules find in
\* their units.
LEMMA BrokenIsFound ==
    ASSUME TypeOK, NEW t
    PROVE  t \in Broken <=>
              \E s \in Asked : \E d \in RuleFindings(world.units[s]) :
                 t = <<RealPath(d.file), d.line, d.code, d.message>>
<1>1. ASSUME NEW s \in Asked, NEW d \in RuleFindings(world.units[s])
      PROVE  <<RealPath(d.file), d.line, d.code, d.message>> \in Broken
  <2>1. PICK path \in DOMAIN world.units[s].parts :
              \E i \in world.units[s].parts[path] : \E r \in RulesBroken(path, i) :
                 /\ ~IsInSystemHeader(path) /\ ~IsSuppressed(Lines(path), i)
                 /\ d = Finding(LevelOf(config, r), r, path, i, Message(r, path))
    BY RuleFindingIs
  <2>2. PICK i, r :
                 /\ i \in world.units[s].parts[path] /\ r \in RulesBroken(path, i)
                 /\ ~IsInSystemHeader(path) /\ ~IsSuppressed(Lines(path), i)
                 /\ d = Finding(LevelOf(config, r), r, path, i, Message(r, path))
    BY <2>1
  <2>3. ~Silenced(Lines(path), i)
    BY <2>2, AskedHaveUnits, SuppressedIsSilenced
  <2>4. d.file = path /\ d.line = i /\ d.code = r /\ d.message = Message(r, path)
    BY <2>2 DEF Finding
  <2>5. <<RealPath(path), i, r, Message(r, path)>> \in Broken
    BY <2>2, <2>3 DEF Broken
  <2> QED BY <2>4, <2>5
<1>2. ASSUME t \in Broken
      PROVE  \E s \in Asked : \E d \in RuleFindings(world.units[s]) :
                 t = <<RealPath(d.file), d.line, d.code, d.message>>
  <2>1. PICK path, s, i, r :
           /\ s \in Asked /\ path \in DOMAIN world.units[s].parts
           /\ i \in world.units[s].parts[path] /\ r \in RulesBroken(path, i)
           /\ ~IsInSystemHeader(path) /\ ~Silenced(Lines(path), i)
           /\ t = <<RealPath(path), i, r, Message(r, path)>>
    BY <1>2 DEF Broken
  <2>2. ~IsSuppressed(Lines(path), i)
    BY <2>1, AskedHaveUnits, SuppressedIsSilenced
  <2>  DEFINE d == Finding(LevelOf(config, r), r, path, i, Message(r, path))
  <2>3. d \in RuleFindings(world.units[s])
    BY <2>1, <2>2, RuleFindingIs
  <2>4. d.file = path /\ d.line = i /\ d.code = r /\ d.message = Message(r, path)
    BY DEF Finding
  <2> QED BY <2>1, <2>3, <2>4
<1> QED BY <1>1, <1>2

\* With nothing left to report, the records are one for each line that breaks a rule and each
\* thing that is said of it: records of one line and code have the same level, so that their
\* files differ or their messages do.
LEMMA OnceFollows ==
    ASSUME TypeOK, AllReported, GuardsOnce, Finished, Complete
    PROVE  EveryFindingOnce
<1>1. /\ Reports(diagnostics) /\ Reported = diagnostics.seen
      /\ {k \in diagnostics.seen : ~IsGuard(k)} = {Key(d) : d \in Analyzed}
      /\ GuardsOf(diagnostics.seen) = MissingIn(PathsOf(Visited))
  BY DEF AllReported, Finished, Analyzing, Reported
<1>2. /\ Analyzed = UNION {Findings(world.units[s]) : s \in Asked}
      /\ Visited = UNION {Declarations(world.units[s]) : s \in Asked}
  <2>1. DOMAIN sources = 1..source
    BY DEF Finished, TypeOK
  <2>2. Asked = {sources[k] : k \in 1..source}
    BY <2>1 DEF Finished, ToSet
  <2> QED BY <2>2 DEF Analyzed, Visited
<1>3. ASSUME NEW i \in DOMAIN diagnostics.records, diagnostics.records[i].code \in Rules
      PROVE  <<RealPath(diagnostics.records[i].file), diagnostics.records[i].line,
               diagnostics.records[i].code, diagnostics.records[i].message>> \in Broken
  <2>  DEFINE e == diagnostics.records[i]
  <2>1. Key(e) \in diagnostics.seen /\ ~IsGuard(Key(e))
    <3>1. Key(e) \in diagnostics.seen
      BY <1>1 DEF Reports, Keys
    <3>2. ~IsGuard(e)
      BY <1>3, SuppressionCodes DEF IsGuard
    <3> QED BY <3>1, <3>2, KeyIs
  <2>2. PICK s, d : s \in Asked /\ d \in Findings(world.units[s]) /\ Key(d) = Key(e)
    BY <1>1, <1>2, <2>1
  <2>3. /\ d.code = e.code /\ RealPath(d.file) = RealPath(e.file) /\ d.line = e.line
        /\ d.message = e.message
    BY <2>2 DEF Key, Finding
  <2>4. d \in RuleFindings(world.units[s])
    BY <1>3, <2>2, <2>3, SuppressionFindingIs DEF Findings
  <2>5. <<RealPath(d.file), d.line, d.code, d.message>> \in Broken
    BY <2>2, <2>4, BrokenIsFound
  <2> QED BY <2>3, <2>5
<1>4. ASSUME NEW t \in Broken
      PROVE  \E i \in DOMAIN diagnostics.records :
                LET e == diagnostics.records[i]
                IN  e.code \in Rules /\ t = <<RealPath(e.file), e.line, e.code, e.message>>
  <2>1. PICK s, d : /\ s \in Asked /\ d \in RuleFindings(world.units[s])
                    /\ t = <<RealPath(d.file), d.line, d.code, d.message>>
    BY BrokenIsFound
  <2>2. Key(d) \in diagnostics.seen
    BY <1>1, <1>2, <2>1 DEF Findings
  <2>3. PICK i \in DOMAIN diagnostics.records : Key(diagnostics.records[i]) = Key(d)
    BY <1>1, <2>2 DEF Reports, Keys
  <2>  DEFINE e == diagnostics.records[i]
  <2>4. /\ d.code = e.code /\ RealPath(d.file) = RealPath(e.file) /\ d.line = e.line
        /\ d.message = e.message
    BY <2>3 DEF Key, Finding
  <2>5. d.code \in Rules
    <3>1. PICK path, n, r : /\ r \in RulesBroken(path, n)
                            /\ d = Finding(LevelOf(config, r), r, path, n, Message(r, path))
      BY <2>1, RuleFindingIs
    <3> QED BY <3>1 DEF Finding, RulesBroken, ActiveRules
  <2> QED BY <2>1, <2>4, <2>5
<1>5. {<<RealPath(d.file), d.line, d.code, d.message>> : d \in UNION {RecordsOf(r) : r \in Rules}}
         = Broken
  <2>1. \A d : d \in UNION {RecordsOf(r) : r \in Rules} <=>
           \E i \in DOMAIN diagnostics.records : d = diagnostics.records[i] /\ d.code \in Rules
    BY DEF RecordsOf, ToSet
  <2> QED BY <1>3, <1>4, <2>1
<1>6. {<<RealPath(d.file), d.message>> : d \in RecordsOf("MissingIncludeGuard")} = Unguarded
  <2>  DEFINE told == {<<RealPath(d.file), d.message>> : d \in RecordsOf("MissingIncludeGuard")}
  <2>1. \A d : d \in RecordsOf("MissingIncludeGuard") <=>
           \E i \in DOMAIN diagnostics.records : d = diagnostics.records[i] /\ IsGuard(d)
    BY DEF RecordsOf, ToSet, IsGuard
  <2>2. ASSUME NEW x PROVE x \in told <=> x \in GuardsOf(diagnostics.seen)
    <3>1. x \in GuardsOf(diagnostics.seen) <=>
             \E k : k \in diagnostics.seen /\ IsGuard(k) /\ x = <<k.file, k.message>>
      BY DEF GuardsOf
    <3>2. \A k : k \in diagnostics.seen <=>
             \E i \in DOMAIN diagnostics.records : k = Key(diagnostics.records[i])
      BY <1>1 DEF Reports, Keys
    <3>3. x \in told <=>
             \E i \in DOMAIN diagnostics.records :
                /\ IsGuard(diagnostics.records[i])
                /\ x = <<RealPath(diagnostics.records[i].file), diagnostics.records[i].message>>
      BY <2>1
    <3> QED BY <3>1, <3>2, <3>3, KeyIs
  <2>3. ASSUME NEW x PROVE x \in Unguarded <=> x \in MissingIn(PathsOf(Visited))
    <3>1. \A p : p \in PathsOf(Visited) <=>
             \E s \in Asked : p \in PathsOf(Declarations(world.units[s]))
      BY <1>2 DEF PathsOf
    <3> QED BY <3>1 DEF Unguarded, MissingIn
  <2> QED BY <1>1, <2>2, <2>3
<1>7. ASSUME NEW i \in DOMAIN diagnostics.records, NEW j \in DOMAIN diagnostics.records, i # j,
             diagnostics.records[i].code = diagnostics.records[j].code
      PROVE  /\ /\ diagnostics.records[i].line = diagnostics.records[j].line
                /\ diagnostics.records[i].message = diagnostics.records[j].message
                => RealPath(diagnostics.records[i].file) # RealPath(diagnostics.records[j].file)
             /\ diagnostics.records[i].code = "MissingIncludeGuard" =>
                   diagnostics.records[i].file # diagnostics.records[j].file
  <2>1. diagnostics.records[i].level = diagnostics.records[j].level
    BY <1>1, <1>7 DEF Reports
  <2>2. Key(diagnostics.records[i]) # Key(diagnostics.records[j])
    BY <1>1, <1>7 DEF Reports
  <2>3. diagnostics.records[i].code = "MissingIncludeGuard" =>
           diagnostics.records[i].file # diagnostics.records[j].file
    BY <1>7 DEF GuardsOnce, Analyzing, IsGuard
  <2> QED BY <1>7, <2>1, <2>2, <2>3 DEF Key
<1> QED
  BY <1>5, <1>6, <1>7 DEF EveryFindingOnce

\* The inductive invariant of the reports.
ReportInv == TypeOK /\ Phases /\ Collected /\ AllReported /\ GuardsOnce /\ Finished

\* Diagnostics report each unsuppressed violation of the project's own lines and each include
\* guard that is missing, in whatever sources and through whatever spellings of its path the
\* file is reached, nothing else of these rules, and nothing twice in the same words.
THEOREM FindingsAreReportedOnce == Spec => []EveryFindingOnce
<1>1. Init => ReportInv
  <2>1. SUFFICES ASSUME Init PROVE ReportInv
    OBVIOUS
  <2>2. Phases /\ TypeOK
    BY <2>1, ExitInvInit DEF ExitInv
  <2>3. Collected /\ AllReported /\ GuardsOnce /\ Finished
    BY <2>1 DEF Init, Collected, Collecting, AllReported, GuardsOnce, Finished, Analyzing, Complete
  <2> QED BY <2>2, <2>3 DEF ReportInv
<1>2. ReportInv /\ [Next]_vars => ReportInv'
  BY TypeStep, PhasesStep, CollectedStep, AllReportedStep, GuardsOnceStep, FinishedStep, Zenon
     DEF ReportInv
<1>3. ReportInv => EveryFindingOnce
  <2>1. ASSUME ReportInv, ~Complete PROVE EveryFindingOnce
    BY <2>1 DEF EveryFindingOnce
  <2> QED BY <2>1, OnceFollows DEF ReportInv
<1> QED
  BY <1>1, <1>2, <1>3, PTL DEF Spec

-----------------------------------------------------------------------------
(* Reading lines                                                           *)

\* The reader that knows s knows t after some lines.
StatesOf(g, s, lines) ==
    g[0] = s /\ \A n \in 1..Len(lines) : g[n] = ReadNext(g[n - 1], lines[n])
Reads(s, lines, t) ==
    \E g : /\ g[0] = s /\ g[Len(lines)] = t
           /\ \A n \in 1..Len(lines) : g[n] = ReadNext(g[n - 1], lines[n])

\* The items of two sequences, one after the other.
LEMMA Joined ==
    ASSUME NEW A, NEW a \in Seq(A), NEW b \in Seq(A)
    PROVE  /\ Len(a \o b) = Len(a) + Len(b)
           /\ \A i \in 1..Len(a) : (a \o b)[i] = a[i]
           /\ \A i \in 1..Len(b) : (a \o b)[Len(a) + i] = b[i]
OBVIOUS

\* No lines change nothing.
LEMMA ReadsNothing ==
    ASSUME NEW s PROVE Reads(s, <<>>, s)
<1>1. [n \in {0} |-> s][0] = s /\ [n \in {0} |-> s][Len(<<>>)] = s /\ 1..Len(<<>>) = {}
  OBVIOUS
<1> QED BY <1>1 DEF Reads

\* One line is one step of the reader.
LEMMA ReadsLine ==
    ASSUME NEW s, NEW l, NEW t, t = ReadNext(s, l) PROVE Reads(s, <<l>>, t)
<1>  DEFINE g == [n \in {0, 1} |-> IF n = 0 THEN s ELSE t]
<1>1. g[0] = s /\ g[Len(<<l>>)] = t /\ \A n \in 1..Len(<<l>>) : n = 1 /\ g[n] = t /\ g[n - 1] = s
      /\ <<l>>[n] = l
  OBVIOUS
<1> HIDE DEF g
<1>2. \A n \in 1..Len(<<l>>) : g[n] = ReadNext(g[n - 1], <<l>>[n])
  BY <1>1
<1> QED BY <1>1, <1>2 DEF Reads

\* What is read of some lines and then of others is read of both.
LEMMA ReadsBoth ==
    ASSUME NEW A, NEW a \in Seq(A), NEW b \in Seq(A), NEW s, NEW t, NEW u,
           Reads(s, a, t), Reads(t, b, u)
    PROVE  Reads(s, a \o b, u)
<1>1. PICK g : /\ g[0] = s /\ g[Len(a)] = t
               /\ \A n \in 1..Len(a) : g[n] = ReadNext(g[n - 1], a[n])
  BY DEF Reads
<1>2. PICK h : /\ h[0] = t /\ h[Len(b)] = u
               /\ \A n \in 1..Len(b) : h[n] = ReadNext(h[n - 1], b[n])
  BY DEF Reads
<1>  DEFINE k == [n \in 0..(Len(a) + Len(b)) |-> IF n <= Len(a) THEN g[n] ELSE h[n - Len(a)]]
<1>3. /\ Len(a) \in Nat /\ Len(b) \in Nat /\ Len(a \o b) = Len(a) + Len(b)
      /\ \A n \in 1..Len(a) : (a \o b)[n] = a[n]
      /\ \A n \in 1..Len(b) : (a \o b)[n + Len(a)] = b[n]
  OBVIOUS
<1>4. k[0] = s /\ k[Len(a \o b)] = u
  BY <1>1, <1>2, <1>3
<1>5. ASSUME NEW n \in 1..Len(a \o b) PROVE k[n] = ReadNext(k[n - 1], (a \o b)[n])
  <2>1. CASE n \in 1..Len(a)
    <3>1. k[n] = g[n] /\ k[n - 1] = g[n - 1] /\ (a \o b)[n] = a[n]
      BY <2>1, <1>3
    <3> HIDE DEF k
    <3> QED BY <3>1, <2>1, <1>1
  <2>2. CASE n \notin 1..Len(a)
    <3>1. n - Len(a) \in 1..Len(b) /\ (n - Len(a)) + Len(a) = n
      BY <2>2, <1>3
    <3>2. k[n] = h[n - Len(a)] /\ (a \o b)[n] = b[n - Len(a)]
      BY <2>2, <3>1, <1>3
    <3>3. k[n - 1] = h[(n - Len(a)) - 1]
      <4>1. CASE n - 1 = Len(a)
        <5>1. k[n - 1] = g[Len(a)] /\ (n - Len(a)) - 1 = 0
          BY <4>1, <1>3
        <5> HIDE DEF k
        <5> QED BY <5>1, <1>1, <1>2
      <4>2. CASE n - 1 # Len(a)
        <5>1. n - 1 \in 0..(Len(a) + Len(b)) /\ ~(n - 1 <= Len(a))
              /\ (n - 1) - Len(a) = (n - Len(a)) - 1
          BY <4>2, <2>2, <1>3
        <5> QED BY <5>1
      <4> QED BY <4>1, <4>2
    <3> HIDE DEF k
    <3> QED BY <3>1, <3>2, <3>3, <1>2
  <2> QED BY <2>1, <2>2
<1> HIDE DEF k
<1> QED BY <1>4, <1>5 DEF Reads

\* FlattenSeq joins one sequence after the other.
LEMMA FlattenStep ==
    ASSUME NEW ss, Len(ss) \in Nat \ {0}
    PROVE  \E f : /\ f[Len(ss)] = FlattenSeq(ss) /\ f[1] = ss[1]
                 /\ \A i \in 2..Len(ss) : f[i] = f[i - 1] \o ss[i]
<1>  DEFINE N == Len(ss)
            Is(g, n) == g = [i \in 1..n |-> IF i = 1 THEN ss[i] ELSE g[i - 1] \o ss[i]]
            S == {n \in 0..N : \E g : Is(g, n)}
<1>1. 0 \in S
  <2>1. Is([i \in 1..0 |-> ss[i]], 0)
    OBVIOUS
  <2>2. 0 \in 0..N /\ \E g : Is(g, 0)
    <3> HIDE DEF Is
    <3> QED BY <2>1, Zenon, SMT
  <2> HIDE DEF Is
  <2> QED BY <2>2
<1>2. ASSUME NEW n \in S, n < N PROVE n + 1 \in S
  <2>1. PICK g : Is(g, n)
    OBVIOUS
  <2>  DEFINE h == [i \in 1..(n + 1) |->
                  IF i # n + 1 THEN g[i] ELSE IF i = 1 THEN ss[i] ELSE g[n] \o ss[i]]
  <2>2. \A i \in 1..n : h[i] = g[i]
    OBVIOUS
  <2>3. \A i \in 1..n : g[i] = IF i = 1 THEN ss[i] ELSE g[i - 1] \o ss[i]
    BY <2>1
  <2>4. ASSUME NEW i \in 1..(n + 1)
        PROVE  h[i] = IF i = 1 THEN ss[i] ELSE h[i - 1] \o ss[i]
    <3>1. CASE i = n + 1
      <4>1. h[i] = (IF i = 1 THEN ss[i] ELSE g[n] \o ss[i]) /\ (i # 1 => h[i - 1] = g[n])
        BY <3>1, <2>2
      <4> HIDE DEF h
      <4> QED BY <3>1, <4>1
    <3>2. CASE i \in 1..n
      <4>1. h[i] = g[i] /\ (i # 1 => h[i - 1] = g[i - 1])
        BY <3>2, <2>2
      <4> HIDE DEF h
      <4> QED BY <3>2, <4>1, <2>3
    <3> QED BY <3>1, <3>2
  <2>5. h = [i \in 1..(n + 1) |-> h[i]]
    OBVIOUS
  <2>6. Is(h, n + 1)
    <3> HIDE DEF h
    <3> QED BY <2>4, <2>5
  <2>7. n + 1 \in 0..N
    BY <1>2
  <2> HIDE DEF h, Is
  <2> QED BY <2>6, <2>7
<1>3. N \in S
  <2> HIDE DEF S
  <2>1. \A n \in S : n \in Nat /\ n < N => n + 1 \in S
    BY <1>2
  <2>2. 0..N \subseteq S
    BY <1>1, <2>1, UpTo
  <2> QED BY <2>2
<1>  DEFINE f == CHOOSE g : Is(g, N)
<1>4. Is(f, N)
  <2> HIDE DEF Is
  <2> QED BY <1>3, Zenon
<1>5. FlattenSeq(ss) = IF Len(ss) = 0 THEN ss ELSE f[N]
  BY Zenon DEF FlattenSeq
<1> HIDE DEF f
<1>6. \A i \in 1..N : f[i] = IF i = 1 THEN ss[i] ELSE f[i - 1] \o ss[i]
  BY <1>4
<1>7. f[N] = FlattenSeq(ss) /\ f[1] = ss[1] /\ \A i \in 2..N : f[i] = f[i - 1] \o ss[i]
  <2>1. N \in Nat /\ N # 0
    OBVIOUS
  <2> HIDE DEF Is, S, N
  <2>2. f[1] = ss[1]
    <3>1. 1 \in 1..N
      BY <2>1
    <3> QED BY <3>1, <1>6
  <2>3. ASSUME NEW i \in 2..N PROVE f[i] = f[i - 1] \o ss[i]
    <3>1. i \in 1..N /\ i # 1
      BY <2>1
    <3> QED BY <3>1, <1>6
  <2>4. f[N] = FlattenSeq(ss)
    BY <2>1, <1>5 DEF N
  <2> QED BY <2>2, <2>3, <2>4
<1> QED
  BY <1>7

\* Any lines are read.
LEMMA ReadsOn ==
    ASSUME NEW lines, NEW s, Len(lines) \in Nat
    PROVE  \E g : StatesOf(g, s, lines)
<1>  DEFINE N == Len(lines)
            Is(g, n) == g[0] = s /\ \A i \in 1..n : g[i] = ReadNext(g[i - 1], lines[i])
            S == {n \in 0..N : \E g : Is(g, n)}
<1>1. 0 \in S
  <2>1. Is([i \in {0} |-> s], 0)
    OBVIOUS
  <2>2. 0 \in 0..N /\ \E g : Is(g, 0)
    <3> HIDE DEF Is
    <3> QED BY <2>1, Zenon, SMT
  <2> HIDE DEF Is
  <2> QED BY <2>2
<1>2. ASSUME NEW n \in S, n \in Nat, n < N PROVE n + 1 \in S
  <2>1. PICK g : Is(g, n)
    OBVIOUS
  <2>  DEFINE h == [i \in 0..(n + 1) |-> IF i = n + 1 THEN ReadNext(g[n], lines[n + 1]) ELSE g[i]]
  <2>2. /\ \A i \in 0..n : h[i] = g[i]
        /\ h[n + 1] = ReadNext(g[n], lines[n + 1])
    BY <1>2
  <2> HIDE DEF h
  <2>3. g[0] = s /\ \A i \in 1..n : g[i] = ReadNext(g[i - 1], lines[i])
    BY <2>1
  <2>4. h[0] = s
    BY <2>2, <2>3, <1>2
  <2>5. ASSUME NEW i \in 1..(n + 1) PROVE h[i] = ReadNext(h[i - 1], lines[i])
    <3>1. CASE i = n + 1
      <4>1. h[i - 1] = g[n]
        BY <3>1, <2>2, <1>2
      <4> QED BY <3>1, <4>1, <2>2
    <3>2. CASE i \in 1..n
      <4>1. h[i] = g[i] /\ h[i - 1] = g[i - 1]
        BY <3>2, <2>2, <1>2
      <4> QED BY <3>2, <4>1, <2>3
    <3> QED BY <3>1, <3>2, <1>2
  <2>6. Is(h, n + 1) /\ n + 1 \in 0..N
    BY <2>4, <2>5, <1>2
  <2> HIDE DEF Is
  <2> QED BY <2>6
<1>3. N \in S
  <2> HIDE DEF S
  <2>1. \A n \in S : n \in Nat /\ n < N => n + 1 \in S
    BY <1>2
  <2>2. 0..N \subseteq S
    BY <1>1, <2>1, UpTo
  <2> QED BY <2>2
<1> QED BY <1>3 DEF StatesOf

\* Where each line is read from one set of states to the next, all are.
LEMMA ReadsEach ==
    ASSUME NEW lines, Len(lines) \in Nat, NEW Q,
           \A n \in 1..Len(lines) : \A t \in Q[n - 1] : ReadNext(t, lines[n]) \in Q[n],
           NEW s \in Q[0]
    PROVE  \E t \in Q[Len(lines)] : Reads(s, lines, t)
<1>0. PICK g : StatesOf(g, s, lines)
  BY ReadsOn
<1>1. g[0] = s /\ \A n \in 1..Len(lines) : g[n] = ReadNext(g[n - 1], lines[n])
  BY <1>0 DEF StatesOf
<1>2. 0..Len(lines) \subseteq {n \in 0..Len(lines) : g[n] \in Q[n]}
  <2>  DEFINE S == {n \in 0..Len(lines) : g[n] \in Q[n]}
  <2>1. 0 \in S
    BY <1>1
  <2>2. ASSUME NEW n \in S, n \in Nat, n < Len(lines) PROVE n + 1 \in S
    <3>1. n + 1 \in 1..Len(lines) /\ (n + 1) - 1 = n /\ g[n] \in Q[n]
      BY <2>2
    <3> QED BY <3>1, <1>1
  <2> HIDE DEF S
  <2>3. \A n \in S : n \in Nat /\ n < Len(lines) => n + 1 \in S
    BY <2>2
  <2>4. 0..Len(lines) \subseteq S
    BY <2>1, <2>3, UpTo
  <2> QED BY <2>4 DEF S
<1>3. g[Len(lines)] \in Q[Len(lines)]
  BY <1>2
<1>4. Reads(s, lines, g[Len(lines)])
  BY <1>1 DEF Reads
<1> QED BY <1>3, <1>4

\* Where each of some sequences of lines is read from one set of states to the next, all are.
LEMMA ReadsParts ==
    ASSUME NEW A, NEW ss \in Seq(Seq(A)), NEW Q,
           \A i \in 1..Len(ss) : \A s \in Q[i - 1] : \E t \in Q[i] : Reads(s, ss[i], t)
    PROVE  /\ FlattenSeq(ss) \in Seq(A)
           /\ \A s \in Q[0] : \E t \in Q[Len(ss)] : Reads(s, FlattenSeq(ss), t)
<1>1. CASE Len(ss) = 0
  <2>1. FlattenSeq(ss) = ss
    BY <1>1 DEF FlattenSeq
  <2>2. ss = <<>> /\ ss \in Seq(A)
    BY <1>1
  <2>3. ASSUME NEW s \in Q[0] PROVE s \in Q[Len(ss)] /\ Reads(s, <<>>, s)
    BY <1>1, ReadsNothing
  <2> QED BY <2>1, <2>2, <2>3
<1>2. CASE Len(ss) # 0
  <2>  DEFINE N == Len(ss)
  <2>0. N \in Nat \ {0}
    BY <1>2
  <2>1. PICK f : /\ f[N] = FlattenSeq(ss) /\ f[1] = ss[1]
                 /\ \A i \in 2..N : f[i] = f[i - 1] \o ss[i]
    BY <2>0, FlattenStep
  <2>  DEFINE S == {n \in 0..N : n # 0 => /\ f[n] \in Seq(A)
                                          /\ \A s \in Q[0] : \E t \in Q[n] : Reads(s, f[n], t)}
  <2>2. 0 \in S
    BY <2>0
  <2>3. ASSUME NEW n \in S, n \in Nat, n < N PROVE n + 1 \in S
    <3>1. n + 1 \in 1..N /\ (n + 1) - 1 = n /\ ss[n + 1] \in Seq(A)
      BY <2>3, <2>0
    <3>2. CASE n = 0
      BY <3>1, <3>2, <2>1
    <3>3. CASE n # 0
      <4>0. n + 1 \in 2..N
        BY <3>3, <3>1, <2>0
      <4>1. /\ f[n] \in Seq(A) /\ f[n + 1] = f[n] \o ss[n + 1]
            /\ \A s \in Q[0] : \E t \in Q[n] : Reads(s, f[n], t)
        <5>1. f[n + 1] = f[n] \o ss[n + 1]
          BY <4>0, <3>1, <2>1
        <5> QED BY <5>1, <3>3, <2>3
      <4>2. f[n + 1] \in Seq(A)
        BY <4>1, <3>1
      <4>3. ASSUME NEW s \in Q[0] PROVE \E u \in Q[n + 1] : Reads(s, f[n + 1], u)
        <5>1. PICK t \in Q[n] : Reads(s, f[n], t)
          BY <4>1
        <5>2. PICK u \in Q[n + 1] : Reads(t, ss[n + 1], u)
          BY <3>1
        <5>3. Reads(s, f[n] \o ss[n + 1], u)
          BY <5>1, <5>2, <4>1, <3>1, ReadsBoth
        <5> QED BY <5>3, <4>1
      <4> QED BY <3>1, <4>2, <4>3
    <3> QED BY <3>2, <3>3
  <2>4. N \in S
    <3> HIDE DEF S
    <3>1. \A n \in S : n \in Nat /\ n < N => n + 1 \in S
      BY <2>3
    <3>2. 0..N \subseteq S
      BY <2>0, <2>2, <3>1, UpTo
    <3> QED BY <2>0, <3>2
  <2> QED BY <2>0, <2>1, <2>4
<1> QED BY <1>1, <1>2

\* The loop of loadFromStream goes from one line to the next.
LEMMA ReadingIs ==
    ASSUME NEW lines, Len(lines) \in Nat
    PROVE  StatesOf([n \in 0..Len(lines) |-> Reading(lines)[n].reader], Reader, lines)
<1>  DEFINE N == Len(lines)
            Next1(r, n) == [r EXCEPT !.reader = ReadNext(@, lines[n])]
            Is(g) == g = [n \in 0..N |-> IF n = 0 THEN [reader |-> Reader] ELSE Next1(g[n - 1], n)]
<1>1. PICK g : StatesOf(g, Reader, lines)
  BY ReadsOn
<1>  DEFINE h == [n \in 0..N |-> [reader |-> g[n]]]
<1>2. g[0] = Reader /\ \A n \in 1..N : g[n] = ReadNext(g[n - 1], lines[n])
  BY <1>1 DEF StatesOf
<1>3. \A n \in 1..N : Next1([reader |-> g[n - 1]], n) = [reader |-> g[n]]
  <2>1. \A r, n : Next1([reader |-> r], n) = [reader |-> ReadNext(r, lines[n])]
    OBVIOUS
  <2> HIDE DEF Next1
  <2> QED BY <2>1, <1>2
<1>  HIDE DEF Next1
<1>4. Is(h)
  <2>1. ASSUME NEW n \in 0..N
        PROVE  h[n] = IF n = 0 THEN [reader |-> Reader] ELSE Next1(h[n - 1], n)
    <3>1. /\ h[n] = [reader |-> g[n]]
          /\ n # 0 => n \in 1..N /\ h[n - 1] = [reader |-> g[n - 1]]
      OBVIOUS
    <3> HIDE DEF h
    <3> QED BY <3>1, <1>2, <1>3
  <2>2. h = [n \in 0..N |-> h[n]]
    OBVIOUS
  <2> HIDE DEF h, N
  <2> QED BY <2>1, <2>2
<1>5. Is(Reading(lines))
  <2> HIDE DEF h, Is
  <2>1. \E f : Is(f)
    BY <1>4, Zenon
  <2>2. Reading(lines) = CHOOSE f : Is(f)
    BY Zenon DEF Reading, Is, Next1
  <2> QED BY <2>1, <2>2, Zenon
<1>  DEFINE f == Reading(lines)
            S == {n \in 0..N : f[n] = [reader |-> g[n]]}
<1>6. \A n \in 0..N : f[n] = IF n = 0 THEN [reader |-> Reader] ELSE Next1(f[n - 1], n)
  <2> HIDE DEF f
  <2> QED BY <1>5 DEF f
<1>  HIDE DEF f
<1>7. 0 \in S
  BY <1>2, <1>6
<1>8. ASSUME NEW n \in S, n \in Nat, n < N PROVE n + 1 \in S
  <2>1. n + 1 \in 1..N /\ (n + 1) - 1 = n /\ f[n] = [reader |-> g[n]]
    BY <1>8
  <2>2. f[n + 1] = Next1(f[n], n + 1)
    BY <2>1, <1>6
  <2>3. Next1([reader |-> g[n]], n + 1) = [reader |-> g[n + 1]]
    BY <2>1, <1>3
  <2> QED BY <2>1, <2>2, <2>3
<1>9. 0..N \subseteq S
  <2> HIDE DEF S
  <2>1. \A n \in S : n \in Nat /\ n < N => n + 1 \in S
    BY <1>8
  <2> QED BY <1>7, <2>1, UpTo
<1>  DEFINE d == [n \in 0..N |-> f[n].reader]
<1>10. ASSUME NEW n \in 0..N PROVE d[n] = g[n]
  <2>1. f[n] = [reader |-> g[n]]
    BY <1>9
  <2>2. d[n] = f[n].reader
    BY Zenon
  <2> HIDE DEF d
  <2> QED BY <2>1, <2>2
<1>  HIDE DEF d
<1>11. d[0] = Reader /\ \A n \in 1..N : d[n] = ReadNext(d[n - 1], lines[n])
  BY <1>2, <1>10
<1> QED BY <1>11 DEF StatesOf, d, f

\* What the reader knows at the end is what loadFromStream returns.
LEMMA LoadIs ==
    ASSUME NEW lines, Len(lines) \in Nat, NEW t, Reads(Reader, lines, t)
    PROVE  LoadFromStream(lines) = t.config
<1>  DEFINE f == [n \in 0..Len(lines) |-> Reading(lines)[n].reader]
            N == Len(lines)
<1>1. f[0] = Reader /\ \A n \in 1..N : f[n] = ReadNext(f[n - 1], lines[n])
  BY ReadingIs DEF StatesOf
<1>2. PICK g : /\ g[0] = Reader /\ g[N] = t
               /\ \A n \in 1..N : g[n] = ReadNext(g[n - 1], lines[n])
  BY DEF Reads
<1>  HIDE DEF f
<1>  DEFINE S == {n \in 0..N : f[n] = g[n]}
<1>3. 0 \in S
  BY <1>1, <1>2
<1>4. ASSUME NEW n \in S, n \in Nat, n < N PROVE n + 1 \in S
  <2>1. n + 1 \in 1..N /\ (n + 1) - 1 = n /\ f[n] = g[n]
    BY <1>4
  <2>2. f[n + 1] = ReadNext(f[n], lines[n + 1]) /\ g[n + 1] = ReadNext(g[n], lines[n + 1])
    BY <2>1, <1>1, <1>2
  <2> QED BY <2>1, <2>2
<1>5. N \in S
  <2> HIDE DEF S
  <2>1. \A n \in S : n \in Nat /\ n < N => n + 1 \in S
    BY <1>4
  <2>2. 0..N \subseteq S
    BY <1>3, <2>1, UpTo
  <2> QED BY <2>2
<1>6. f[N] = t
  BY <1>2, <1>5
<1> QED BY <1>6 DEF LoadFromStream, f

-----------------------------------------------------------------------------
(* Configurations                                                          *)

\* What a setting of a kind may be.
Values(kind) ==
    CASE kind = "level"  -> {<<"Off">>, <<"Warning">>, <<"Error">>}
      [] kind = "flag"   -> {<<"true">>, <<"false">>}
      [] kind = "number" -> {<<n>> : n \in Numerals}
      [] kind = "legacy" -> {<<>>, <<"given">>}
      [] OTHER           -> Seq(STRING)

\* A config has every setting of every rule, each with a value of its kind.
IsConfig(c) ==
    /\ c = [rules |-> c.rules, thirdPartyIncludes |-> c.thirdPartyIncludes,
            compileCommandsDir |-> c.compileCommandsDir]
    /\ c.thirdPartyIncludes \in Seq(Seq(STRING)) /\ c.compileCommandsDir \in Seq(STRING)
    /\ c.rules = [r \in Rules |-> [k \in DOMAIN Settings[r] |-> c.rules[r][k]]]
    /\ \A r \in Rules : \A k \in DOMAIN Settings[r] : c.rules[r][k] \in Values(KindOf(r, k))

\* What loadFromStream knows, and that it knows a config.
State(c, section, rule, indent, key, third) ==
    [config |-> c, section |-> section, rule |-> rule, indent |-> indent, listKey |-> key,
     inThirdParty |-> third]
IsReader(s) ==
    /\ s = State(s.config, s.section, s.rule, s.indent, s.listKey, s.inThirdParty)
    /\ IsConfig(s.config)

\* One setting of a config.
Put(c, r, k, v) ==
    [rules |-> [q \in Rules |-> [j \in DOMAIN Settings[q] |->
                   IF q = r /\ j = k THEN v ELSE c.rules[q][j]]],
     thirdPartyIncludes |-> c.thirdPartyIncludes, compileCommandsDir |-> c.compileCommandsDir]

\* EXCEPT changes one setting, and with a value of its kind leaves a config.
LEMMA PutIs ==
    ASSUME NEW c, IsConfig(c), NEW r \in Rules, NEW k \in DOMAIN Settings[r], NEW v
    PROVE  /\ [c EXCEPT !.rules[r][k] = v] = Put(c, r, k, v)
           /\ v \in Values(KindOf(r, k)) => IsConfig(Put(c, r, k, v))
<1>1. [c.rules EXCEPT ![r] = [c.rules[r] EXCEPT ![k] = v]] =
      [q \in Rules |-> [j \in DOMAIN Settings[q] |-> IF q = r /\ j = k THEN v ELSE c.rules[q][j]]]
  <2>1. DOMAIN c.rules = Rules /\ \A q \in Rules : DOMAIN c.rules[q] = DOMAIN Settings[q]
                                    /\ c.rules[q] = [j \in DOMAIN Settings[q] |-> c.rules[q][j]]
    BY Zenon DEF IsConfig
  <2>2. [c.rules[r] EXCEPT ![k] = v]
          = [j \in DOMAIN Settings[r] |-> IF j = k THEN v ELSE c.rules[r][j]]
    BY <2>1
  <2>  DEFINE f == [c.rules EXCEPT ![r] = [c.rules[r] EXCEPT ![k] = v]]
              g == [q \in Rules |-> [j \in DOMAIN Settings[q] |->
                  IF q = r /\ j = k THEN v ELSE c.rules[q][j]]]
  <2>3. DOMAIN f = Rules /\ f[r] = [c.rules[r] EXCEPT ![k] = v]
        /\ \A q \in Rules \ {r} : f[q] = c.rules[q]
    BY <2>1
  <2>4. \A q \in Rules : g[q]
          = [j \in DOMAIN Settings[q] |-> IF q = r /\ j = k THEN v ELSE c.rules[q][j]]
    BY Zenon
  <2>5. g[r] = f[r]
    BY <2>2, <2>3, <2>4
  <2>6. ASSUME NEW q \in Rules \ {r} PROVE g[q] = f[q]
    <3>1. g[q] = [j \in DOMAIN Settings[q] |-> c.rules[q][j]]
      BY <2>4
    <3> QED BY <3>1, <2>1, <2>3
  <2>7. DOMAIN g = Rules /\ f = [q \in Rules |-> f[q]] /\ g = [q \in Rules |-> g[q]]
    BY <2>3
  <2> HIDE DEF f, g
  <2>8. f = g
    BY <2>3, <2>5, <2>6, <2>7
  <2> QED BY <2>8 DEF f, g
<1>2. [c EXCEPT !.rules[r][k] = v] = Put(c, r, k, v)
  <2>1. c = [rules |-> c.rules, thirdPartyIncludes |-> c.thirdPartyIncludes,
             compileCommandsDir |-> c.compileCommandsDir]
    BY DEF IsConfig
  <2>  DEFINE f == [c.rules EXCEPT ![r][k] = v]
  <2>2. [c EXCEPT !.rules[r][k] = v] = [c EXCEPT !.rules = f]
    OBVIOUS
  <2>3. Put(c, r, k, v) = [rules |-> f, thirdPartyIncludes |-> c.thirdPartyIncludes,
                           compileCommandsDir |-> c.compileCommandsDir]
    BY <1>1 DEF Put
  <2> HIDE DEF f
  <2>4. [c EXCEPT !.rules = f] = [rules |-> f, thirdPartyIncludes |-> c.thirdPartyIncludes,
                                  compileCommandsDir |-> c.compileCommandsDir]
    BY <2>1
  <2> QED BY <2>2, <2>3, <2>4
<1>3. ASSUME v \in Values(KindOf(r, k)) PROVE IsConfig(Put(c, r, k, v))
  <2>  DEFINE p == Put(c, r, k, v)
  <2>1. /\ p = [rules |-> p.rules, thirdPartyIncludes |-> c.thirdPartyIncludes,
               compileCommandsDir |-> c.compileCommandsDir]
        /\ p.thirdPartyIncludes = c.thirdPartyIncludes
        /\ p.compileCommandsDir = c.compileCommandsDir
        /\ p.rules = [q \in Rules |-> [j \in DOMAIN Settings[q] |->
               IF q = r /\ j = k THEN v ELSE c.rules[q][j]]]
    BY DEF Put
  <2> HIDE DEF p
  <2>2. \A q \in Rules : p.rules[q]
          = [j \in DOMAIN Settings[q] |-> IF q = r /\ j = k THEN v ELSE c.rules[q][j]]
    BY <2>1, Zenon
  <2>3. \A q \in Rules : \A j \in DOMAIN Settings[q] : p.rules[q][j]
          = IF q = r /\ j = k THEN v ELSE c.rules[q][j]
    BY <2>2
  <2>4. p.rules = [q \in Rules |-> [j \in DOMAIN Settings[q] |-> p.rules[q][j]]]
    BY <2>1, <2>2, <2>3
  <2>5. \A q \in Rules : \A j \in DOMAIN Settings[q] : p.rules[q][j] \in Values(KindOf(q, j))
    BY <1>3, <2>3 DEF IsConfig
  <2>6. IsConfig(p)
    BY <2>1, <2>4, <2>5 DEF IsConfig
  <2> QED BY <2>6 DEF p
<1> QED BY <1>2, <1>3

\* One setting has the new value, the others keep theirs.
LEMMA PutGives ==
    ASSUME NEW c, NEW r \in Rules, NEW k \in DOMAIN Settings[r], NEW v
    PROVE  /\ \A q \in Rules : \A j \in DOMAIN Settings[q] :
                 Put(c, r, k, v).rules[q][j] = IF q = r /\ j = k THEN v ELSE c.rules[q][j]
           /\ Put(c, r, k, v).rules[r][k] = v
           /\ Put(c, r, k, v).thirdPartyIncludes = c.thirdPartyIncludes
           /\ Put(c, r, k, v).compileCommandsDir = c.compileCommandsDir
<1>  DEFINE p == Put(c, r, k, v)
<1>1. \A q \in Rules : \A j \in DOMAIN Settings[q] :
          p.rules[q][j] = IF q = r /\ j = k THEN v ELSE c.rules[q][j]
  <2>1. p.rules = [q \in Rules |-> [j \in DOMAIN Settings[q] |->
                       IF q = r /\ j = k THEN v ELSE c.rules[q][j]]]
    BY DEF Put
  <2> HIDE DEF p
  <2>2. \A q \in Rules : p.rules[q] = [j \in DOMAIN Settings[q] |->
                                        IF q = r /\ j = k THEN v ELSE c.rules[q][j]]
    BY <2>1, Zenon
  <2> QED BY <2>2
<1>2. p.thirdPartyIncludes = c.thirdPartyIncludes /\ p.compileCommandsDir = c.compileCommandsDir
  BY DEF Put
<1> HIDE DEF p
<1> QED BY <1>1, <1>2 DEF p

\* A setting that is put back changes nothing.
LEMMA PutBack ==
    ASSUME NEW c, IsConfig(c), NEW r \in Rules, NEW k \in DOMAIN Settings[r]
    PROVE  Put(c, r, k, c.rules[r][k]) = c
<1>1. ASSUME NEW q \in Rules
      PROVE  [j \in DOMAIN Settings[q] |-> IF q = r /\ j = k THEN c.rules[r][k] ELSE c.rules[q][j]]
             = [j \in DOMAIN Settings[q] |-> c.rules[q][j]]
  OBVIOUS
<1>2. c.rules = [q \in Rules |-> [j \in DOMAIN Settings[q] |-> c.rules[q][j]]]
  BY DEF IsConfig
<1>3. c.rules = [q \in Rules |-> [j \in DOMAIN Settings[q] |->
                     IF q = r /\ j = k THEN c.rules[r][k] ELSE c.rules[q][j]]]
  BY <1>1, <1>2
<1> QED BY <1>3 DEF Put, IsConfig

\* The last value that is put counts.
LEMMA PutAgain ==
    ASSUME NEW c, NEW r \in Rules, NEW k \in DOMAIN Settings[r], NEW v, NEW w
    PROVE  Put(Put(c, r, k, v), r, k, w) = Put(c, r, k, w)
<1>  DEFINE p == Put(c, r, k, v)
<1>1. ASSUME NEW q \in Rules
      PROVE  [j \in DOMAIN Settings[q] |-> IF q = r /\ j = k THEN w ELSE p.rules[q][j]]
             = [j \in DOMAIN Settings[q] |-> IF q = r /\ j = k THEN w ELSE c.rules[q][j]]
  <2> HIDE DEF p
  <2> QED BY PutGives DEF p
<1>2. [q \in Rules |-> [j \in DOMAIN Settings[q] |-> IF q = r /\ j = k THEN w ELSE p.rules[q][j]]]
      = [q \in Rules |-> [j \in DOMAIN Settings[q] |->
          IF q = r /\ j = k THEN w ELSE c.rules[q][j]]]
  BY <1>1
<1>3. p.thirdPartyIncludes = c.thirdPartyIncludes /\ p.compileCommandsDir = c.compileCommandsDir
  BY DEF Put
<1> HIDE DEF p
<1>4. Put(p, r, k, w) = Put(c, r, k, w)
  BY <1>2, <1>3 DEF Put
<1> QED BY <1>4 DEF p

\* One item is a sequence.
LEMMA OneIs ==
    ASSUME NEW A, NEW a \in A PROVE <<a>> \in Seq(A)
OBVIOUS

\* Text without its quotes or brackets is text.
LEMMA TextIs ==
    ASSUME NEW v \in Seq(STRING)
    PROVE  /\ Unquote(v) \in Seq(STRING) /\ ParseInlineList(v) \in Seq(STRING)
           /\ \A w \in STRING : <<w>> \in Seq(STRING)
<1>1. ASSUME Len(v) >= 2 PROVE SubSeq(v, 2, Len(v) - 1) \in Seq(STRING)
  <2>  DEFINE n == Len(v)
  <2>1. n \in Nat /\ \A i \in 2..(n - 1) : v[i] \in STRING
    BY <1>1
  <2>2. SubSeq(v, 2, n - 1) = [i \in 1..(n - 2) |-> v[i + 1]]
    BY <1>1, <2>1
  <2>3. [i \in 1..(n - 2) |-> v[i + 1]] \in [1..(n - 2) -> STRING]
    BY <1>1, <2>1
  <2>4. n - 2 \in Nat
    BY <1>1, <2>1
  <2> QED BY <2>2, <2>3, <2>4
<1>2. \A w \in STRING : <<w>> \in Seq(STRING)
  BY OneIs
<1>3. <<>> \in Seq(STRING)
  OBVIOUS
<1> QED BY <1>1, <1>2, <1>3 DEF Unquote, ParseInlineList

\* What is read of a setting is a value of its kind.
LEMMA ParseGives ==
    ASSUME NEW kind, NEW old \in Values(kind), NEW v \in Seq(STRING)
    PROVE  Parse(kind, old, v) \in Values(kind)
<1>2. CASE kind \in {"level", "flag", "legacy"}
  BY <1>2 DEF Parse, Values, ParseLevel, ParseBool
<1>3. CASE kind = "number"
  BY <1>3 DEF Parse, Values, ParseInt
<1>4. CASE kind \notin {"level", "flag", "number", "legacy"}
  <2>1. Values(kind) = Seq(STRING)
    BY <1>4 DEF Values
  <2>2. Parse(kind, old, v) \in {Unquote(v), ParseInlineList(v), v}
    BY <1>4 DEF Parse
  <2> QED BY TextIs, <2>1, <2>2
<1> QED BY <1>2, <1>3, <1>4

\* The settings outside of the rules are changed alone and leave a config.
LEMMA WithParts ==
    ASSUME NEW c, IsConfig(c)
    PROVE  /\ \A v \in Seq(Seq(STRING)) :
                 /\ [c EXCEPT !.thirdPartyIncludes = v]
                    = [rules |-> c.rules, thirdPartyIncludes |-> v,
                       compileCommandsDir |-> c.compileCommandsDir]
                 /\ IsConfig([c EXCEPT !.thirdPartyIncludes = v])
           /\ \A v \in Seq(STRING) :
                 /\ [c EXCEPT !.compileCommandsDir = v]
                    = [rules |-> c.rules, thirdPartyIncludes |-> c.thirdPartyIncludes,
                       compileCommandsDir |-> v]
                 /\ IsConfig([c EXCEPT !.compileCommandsDir = v])
<1>1. c = [rules |-> c.rules, thirdPartyIncludes |-> c.thirdPartyIncludes,
           compileCommandsDir |-> c.compileCommandsDir]
  BY DEF IsConfig
<1>2. \A v : [c EXCEPT !.thirdPartyIncludes = v]
            = [rules |-> c.rules, thirdPartyIncludes |-> v,
               compileCommandsDir |-> c.compileCommandsDir]
  BY <1>1
<1>7. \A v : [c EXCEPT !.compileCommandsDir = v]
            = [rules |-> c.rules, thirdPartyIncludes |-> c.thirdPartyIncludes,
               compileCommandsDir |-> v]
  BY <1>1
<1>3. ASSUME NEW third \in Seq(Seq(STRING)), NEW dir \in Seq(STRING)
      PROVE  IsConfig([rules |-> c.rules, thirdPartyIncludes |-> third,
                       compileCommandsDir |-> dir])
  <2>  DEFINE d == [rules |-> c.rules, thirdPartyIncludes |-> third, compileCommandsDir |-> dir]
  <2>1. d.rules = c.rules /\ d.thirdPartyIncludes = third /\ d.compileCommandsDir = dir
    OBVIOUS
  <2>2. d = [rules |-> d.rules, thirdPartyIncludes |-> d.thirdPartyIncludes,
             compileCommandsDir |-> d.compileCommandsDir]
    OBVIOUS
  <2> HIDE DEF d
  <2>3. IsConfig(d)
    BY <2>1, <2>2, Zenon DEF IsConfig
  <2> QED BY <2>3 DEF d
<1>4. c.thirdPartyIncludes \in Seq(Seq(STRING)) /\ c.compileCommandsDir \in Seq(STRING)
  BY DEF IsConfig
<1>5. ASSUME NEW v \in Seq(Seq(STRING)) PROVE IsConfig([c EXCEPT !.thirdPartyIncludes = v])
  BY <1>2, <1>3, <1>4, Zenon
<1>6. ASSUME NEW v \in Seq(STRING) PROVE IsConfig([c EXCEPT !.compileCommandsDir = v])
  BY <1>7, <1>3, <1>4, Zenon
<1> QED BY <1>2, <1>7, <1>5, <1>6, Zenon

\* Names that stand for the reader's sections and flags.
NoName     == ""
InRules    == "rules"
RuleIndent == 2
TopIndent  == 0
No         == FALSE
Yes        == TRUE

\* The changes of state that a line makes.
WithConfig(s, x)  == [s EXCEPT !.config = x]
InSection(s, x)   == [s EXCEPT !.section = x]
OfRule(s, x)      == [s EXCEPT !.rule = x]
WithIndent(s, x)  == [s EXCEPT !.indent = x]
WithKey(s, x)     == [s EXCEPT !.listKey = x]
WithThird(s, x)   == [s EXCEPT !.inThirdParty = x]
WithSetting(s, d) == WithConfig(WithKey(s, NoName), d)
WithTop(s, d)     == WithConfig(WithThird(s, No), d)
WithRule(s, r)    == WithKey(WithIndent(OfRule(s, r), RuleIndent), NoName)
WithSection(s, e) == WithThird(WithKey(OfRule(InSection(s, e), NoName), NoName), No)

\* Each of the changes is of one part of the state.
LEMMA StateWithOne ==
    ASSUME NEW c, NEW a, NEW r, NEW n, NEW k, NEW b, NEW x
    PROVE  /\ WithConfig(State(c, a, r, n, k, b), x) = State(x, a, r, n, k, b)
           /\ InSection(State(c, a, r, n, k, b), x) = State(c, x, r, n, k, b)
           /\ OfRule(State(c, a, r, n, k, b), x) = State(c, a, x, n, k, b)
           /\ WithIndent(State(c, a, r, n, k, b), x) = State(c, a, r, x, k, b)
           /\ WithKey(State(c, a, r, n, k, b), x) = State(c, a, r, n, x, b)
           /\ WithThird(State(c, a, r, n, k, b), x) = State(c, a, r, n, k, x)
<1>1. WithConfig(State(c, a, r, n, k, b), x) = State(x, a, r, n, k, b)
  BY DEF State, WithConfig
<1>2. InSection(State(c, a, r, n, k, b), x) = State(c, x, r, n, k, b)
  BY DEF State, InSection
<1>3. OfRule(State(c, a, r, n, k, b), x) = State(c, a, x, n, k, b)
  BY DEF State, OfRule
<1>4. WithIndent(State(c, a, r, n, k, b), x) = State(c, a, r, x, k, b)
  BY DEF State, WithIndent
<1>5. WithKey(State(c, a, r, n, k, b), x) = State(c, a, r, n, x, b)
  BY DEF State, WithKey
<1>6. WithThird(State(c, a, r, n, k, b), x) = State(c, a, r, n, k, x)
  BY DEF State, WithThird
<1> QED BY <1>1, <1>2, <1>3, <1>4, <1>5, <1>6, Zenon

\* Several changes, one after the other.
LEMMA StateWith ==
    ASSUME NEW c, NEW a, NEW r, NEW n, NEW k, NEW b, NEW x
    PROVE  /\ WithSetting(State(c, a, r, n, k, b), x) = State(x, a, r, n, NoName, b)
           /\ WithTop(State(c, a, r, n, k, b), x) = State(x, a, r, n, k, No)
           /\ WithRule(State(c, a, r, n, k, b), x) = State(c, a, x, RuleIndent, NoName, b)
           /\ WithSection(State(c, a, r, n, k, b), x) = State(c, x, NoName, n, NoName, No)
<1>1. WithSetting(State(c, a, r, n, k, b), x) = State(x, a, r, n, NoName, b)
  BY StateWithOne DEF WithSetting
<1>2. WithTop(State(c, a, r, n, k, b), x) = State(x, a, r, n, k, No)
  BY StateWithOne DEF WithTop
<1>3. WithRule(State(c, a, r, n, k, b), x) = State(c, a, x, RuleIndent, NoName, b)
  BY StateWithOne DEF WithRule
<1>4. WithSection(State(c, a, r, n, k, b), x) = State(c, x, NoName, n, NoName, No)
  BY StateWithOne DEF WithSection
<1> QED BY <1>1, <1>2, <1>3, <1>4, Zenon

\* The parts of a state.
LEMMA StateParts ==
    ASSUME NEW c, NEW a, NEW r, NEW n, NEW k, NEW b
    PROVE  LET s == State(c, a, r, n, k, b) IN
           /\ s.config = c /\ s.section = a /\ s.rule = r /\ s.indent = n /\ s.listKey = k
           /\ s.inThirdParty = b
           /\ IsConfig(c) => IsReader(s)
<1>  DEFINE s == State(c, a, r, n, k, b)
<1>1. /\ s.config = c /\ s.section = a /\ s.rule = r /\ s.indent = n /\ s.listKey = k
      /\ s.inThirdParty = b
  BY DEF State
<1>  HIDE DEF s
<1>2. s = State(s.config, s.section, s.rule, s.indent, s.listKey, s.inThirdParty)
  BY <1>1, Zenon DEF s
<1>3. IsConfig(c) => IsReader(s)
  BY <1>1, <1>2, Zenon DEF IsReader
<1> QED BY <1>1, <1>3, Zenon DEF s

\* Changing parts of a state, the config by another one, leaves a state.
LEMMA ReaderWith ==
    ASSUME NEW s, IsReader(s)
    PROVE  /\ \A d : IsConfig(d) => IsReader([s EXCEPT !.config = d])
           /\ \A t, d : IsConfig(d) => IsReader([s EXCEPT !.inThirdParty = t, !.config = d])
           /\ \A j, d : IsConfig(d) => IsReader([s EXCEPT !.listKey = j, !.config = d])
           /\ \A t : IsReader([s EXCEPT !.inThirdParty = t])
           /\ \A j : IsReader([s EXCEPT !.listKey = j])
           /\ \A q, m, j : IsReader([s EXCEPT !.rule = q, !.indent = m, !.listKey = j])
           /\ \A e, q, j, t :
                 IsReader([s EXCEPT !.section = e, !.rule = q, !.listKey = j, !.inThirdParty = t])
<1>1. ASSUME NEW u, IsReader(u), NEW x
      PROVE  /\ IsReader([u EXCEPT !.section = x]) /\ IsReader([u EXCEPT !.rule = x])
             /\ IsReader([u EXCEPT !.indent = x]) /\ IsReader([u EXCEPT !.listKey = x])
             /\ IsReader([u EXCEPT !.inThirdParty = x])
             /\ IsConfig(x) => IsReader([u EXCEPT !.config = x])
  <2>  DEFINE c == u.config
              a == u.section
              r == u.rule
              n == u.indent
              k == u.listKey
              b == u.inThirdParty
  <2>1. u = State(c, a, r, n, k, b) /\ IsConfig(c)
    BY <1>1 DEF IsReader
  <2> HIDE DEF c, a, r, n, k, b
  <2>2. /\ [u EXCEPT !.config = x] = State(x, a, r, n, k, b)
        /\ [u EXCEPT !.section = x] = State(c, x, r, n, k, b)
        /\ [u EXCEPT !.rule = x] = State(c, a, x, n, k, b)
        /\ [u EXCEPT !.indent = x] = State(c, a, r, x, k, b)
        /\ [u EXCEPT !.listKey = x] = State(c, a, r, n, x, b)
        /\ [u EXCEPT !.inThirdParty = x] = State(c, a, r, n, k, x)
    BY <2>1, StateWithOne
       DEF WithConfig, InSection, OfRule, WithIndent, WithKey, WithThird
  <2>3. /\ IsConfig(x) => IsReader(State(x, a, r, n, k, b))
        /\ IsReader(State(c, x, r, n, k, b)) /\ IsReader(State(c, a, x, n, k, b))
        /\ IsReader(State(c, a, r, x, k, b)) /\ IsReader(State(c, a, r, n, x, b))
        /\ IsReader(State(c, a, r, n, k, x))
    BY <2>1, StateParts, Zenon
  <2> QED BY <2>2, <2>3, Zenon
<1>2. \A d : IsConfig(d) => IsReader([s EXCEPT !.config = d])
  BY <1>1, Zenon
<1>3. \A t, d : IsConfig(d) => IsReader([s EXCEPT !.inThirdParty = t, !.config = d])
  BY <1>1, Zenon
<1>4. \A j, d : IsConfig(d) => IsReader([s EXCEPT !.listKey = j, !.config = d])
  BY <1>1, Zenon
<1>5. \A t : IsReader([s EXCEPT !.inThirdParty = t])
  BY <1>1, Zenon
<1>6. \A j : IsReader([s EXCEPT !.listKey = j])
  BY <1>1, Zenon
<1>7. \A q, m, j : IsReader([s EXCEPT !.rule = q, !.indent = m, !.listKey = j])
  BY <1>1, Zenon
<1>8. \A e, q, j, t :
          IsReader([s EXCEPT !.section = e, !.rule = q, !.listKey = j, !.inThirdParty = t])
  BY <1>1, Zenon
<1> QED BY <1>2, <1>3, <1>4, <1>5, <1>6, <1>7, <1>8, Zenon

\* Each line leaves a config.
LEMMA ReadNextKeeps ==
    ASSUME NEW s, IsReader(s), NEW l \in ConfigLine
    PROVE  IsReader(ReadNext(s, l))
<1>  DEFINE c == s.config
<1>0. l.value \in Seq(STRING) /\ IsConfig(c)
  BY DEF ConfigLine, IsReader
<1>1. s = State(c, s.section, s.rule, s.indent, s.listKey, s.inThirdParty)
  BY DEF IsReader
<1>2. IsConfig(ApplyRuleSetting(c, s.rule, l.key, l.value))
  <2>1. ASSUME s.rule \in Rules, l.key \in DOMAIN Settings[s.rule]
        PROVE  IsConfig(ApplyRuleSetting(c, s.rule, l.key, l.value))
    <3>  DEFINE v == Parse(KindOf(s.rule, l.key), c.rules[s.rule][l.key], l.value)
    <3>1. v \in Values(KindOf(s.rule, l.key))
      BY <1>0, <2>1, ParseGives DEF IsConfig
    <3>2. ApplyRuleSetting(c, s.rule, l.key, l.value) = [c EXCEPT !.rules[s.rule][l.key] = v]
      BY <2>1 DEF ApplyRuleSetting
    <3> HIDE DEF v, c
    <3>3. IsConfig([c EXCEPT !.rules[s.rule][l.key] = v])
      BY <3>1, <1>0, <2>1, PutIs
    <3> QED BY <3>2, <3>3, Zenon
  <2> QED BY <2>1, <1>0 DEF ApplyRuleSetting
<1>3. IsConfig(ApplyRuleListItem(c, s.rule, s.listKey, l.value))
  <2>1. ASSUME NEW k, s.rule \in Rules, k \in DOMAIN Settings[s.rule], KindOf(s.rule, k) = "list"
        PROVE  IsConfig([c EXCEPT !.rules[s.rule][k] = @ \o Unquote(l.value)])
    <3>  DEFINE v == c.rules[s.rule][k] \o Unquote(l.value)
    <3>1. c.rules[s.rule][k] \in Seq(STRING) /\ Unquote(l.value) \in Seq(STRING)
      BY <1>0, <2>1, TextIs DEF IsConfig, Values
    <3>2. v \in Values(KindOf(s.rule, k))
      BY <3>1, <2>1 DEF Values
    <3>3. [c EXCEPT !.rules[s.rule][k] = @ \o Unquote(l.value)] = [c EXCEPT !.rules[s.rule][k] = v]
      OBVIOUS
    <3> HIDE DEF v, c
    <3>4. IsConfig([c EXCEPT !.rules[s.rule][k] = v])
      BY <3>2, <1>0, <2>1, PutIs
    <3> QED BY <3>3, <3>4, Zenon
  <2> QED BY <2>1, <1>0 DEF ApplyRuleListItem
<1>4. IsReader(ReadItem(s, l))
  <2>  DEFINE v == Append(c.thirdPartyIncludes, l.value)
              d == [c EXCEPT !.thirdPartyIncludes = v]
              e == ApplyRuleListItem(c, s.rule, s.listKey, l.value)
  <2>1. IsConfig(d) /\ IsConfig(e)
    <3>1. v \in Seq(Seq(STRING))
      BY <1>0 DEF IsConfig
    <3> QED BY <3>1, <1>0, <1>3, WithParts
  <2>2. ReadItem(s, l) \in {[s EXCEPT !.config = e], [s EXCEPT !.config = d], s}
    BY DEF ReadItem
  <2> HIDE DEF d, e, c
  <2>3. IsReader([s EXCEPT !.config = e]) /\ IsReader([s EXCEPT !.config = d])
    BY <2>1, <1>1, ReaderWith, Zenon
  <2> QED BY <2>2, <2>3
<1>5. IsReader(ReadRuleHead(s, l))
  <2>1. ReadRuleHead(s, l) \in {[s EXCEPT !.listKey = l.key],
                                [s EXCEPT !.rule = l.key, !.indent = l.indent, !.listKey = ""]}
    BY DEF ReadRuleHead
  <2> HIDE DEF c
  <2>2. IsReader([s EXCEPT !.listKey = l.key])
    BY <1>0, <1>1, ReaderWith, Zenon
  <2>3. IsReader([s EXCEPT !.rule = l.key, !.indent = l.indent, !.listKey = ""])
    BY <1>0, <1>1, ReaderWith, Zenon
  <2> QED BY <2>1, <2>2, <2>3
<1>6. IsReader(ReadTopSetting(s, l))
  <2>  DEFINE v == IF l.key = "compile_commands_dir" THEN Unquote(l.value)
                  ELSE c.compileCommandsDir
              d == [c EXCEPT !.compileCommandsDir = v]
  <2>1. v \in Seq(STRING)
    BY <1>0, TextIs DEF IsConfig
  <2>2. ReadTopSetting(s, l) = [s EXCEPT !.inThirdParty = FALSE, !.config = d]
    BY DEF ReadTopSetting
  <2>3. IsConfig(d)
    <3> HIDE DEF v, c
    <3> QED BY <2>1, <1>0, WithParts
  <2> HIDE DEF d, c
  <2>4. IsReader([s EXCEPT !.inThirdParty = FALSE, !.config = d])
    BY <2>3, <1>1, ReaderWith, Zenon
  <2> QED BY <2>2, <2>4, Zenon
<1>7. IsReader(ReadRuleSetting(s, l))
  <2>  DEFINE d == ApplyRuleSetting(c, s.rule, l.key, l.value)
  <2>1. ReadRuleSetting(s, l) \in {s, [s EXCEPT !.listKey = "", !.config = d]}
    BY DEF ReadRuleSetting
  <2> HIDE DEF d, c
  <2>2. IsReader([s EXCEPT !.listKey = "", !.config = d])
    BY <1>1, <1>2, ReaderWith, Zenon DEF d
  <2> QED BY <2>1, <2>2
<1>8. /\ IsReader([s EXCEPT !.section = l.key, !.rule = "", !.listKey = "",
             !.inThirdParty = FALSE])
      /\ IsReader([s EXCEPT !.inThirdParty = TRUE]) /\ IsReader([s EXCEPT !.inThirdParty = FALSE])
  <2> HIDE DEF c
  <2>1. IsReader([s EXCEPT !.section = l.key, !.rule = "", !.listKey = "", !.inThirdParty = FALSE])
    BY <1>0, <1>1, ReaderWith, Zenon
  <2>2. IsReader([s EXCEPT !.inThirdParty = TRUE]) /\ IsReader([s EXCEPT !.inThirdParty = FALSE])
    BY <1>0, <1>1, ReaderWith, Zenon
  <2> QED BY <2>1, <2>2
<1>  HIDE DEF c
<1>9. l.form \in {"head", "pair", "item", "note"}
  BY DEF ConfigLine
<1>10. l.form # "pair" /\ ~IsHead(l) => IsReader(ReadLine(s, l))
  BY <1>4, <1>8, <1>9 DEF ReadLine, IsHead
<1>11. IsReader(ReadRuleLine(s, l)) /\ IsReader(ReadTopLine(s, l))
  BY <1>5, <1>6, <1>7, <1>8, <1>10 DEF ReadRuleLine, ReadTopLine
<1> QED BY <1>11 DEF ReadNext

\* A default is a value of its kind.
LEMMA DefaultIs ==
    ASSUME NEW r, NEW k PROVE Default(r, k) \in Values(KindOf(r, k))
<1>1. <<>> \in Seq(STRING)
  OBVIOUS
<1> QED BY <1>1 DEF Default, Values, Numerals

\* The defaults are a config.
LEMMA ConfigIs ==
    IsConfig(Config)
<1>1. \A r \in Rules : \A k \in DOMAIN Settings[r] : Default(r, k) \in Values(KindOf(r, k))
  BY DefaultIs
<1>2. /\ Config = [rules |-> Config.rules, thirdPartyIncludes |-> <<>>,
             compileCommandsDir |-> <<>>]
      /\ Config.rules = [r \in Rules |-> [k \in DOMAIN Settings[r] |-> Default(r, k)]]
      /\ Config.thirdPartyIncludes = <<>> /\ Config.compileCommandsDir = <<>>
  BY DEF Config
<1>3. \A r \in Rules : Config.rules[r] = [k \in DOMAIN Settings[r] |-> Default(r, k)]
  BY <1>2, Zenon
<1>4. \A r \in Rules : \A k \in DOMAIN Settings[r] : Config.rules[r][k] = Default(r, k)
  BY <1>3
<1>5. Config.rules = [r \in Rules |-> [k \in DOMAIN Settings[r] |-> Config.rules[r][k]]]
  BY <1>2, <1>4
<1>6. <<>> \in Seq(STRING) /\ <<>> \in Seq(Seq(STRING))
  OBVIOUS
<1> QED BY <1>1, <1>2, <1>4, <1>5, <1>6 DEF IsConfig

\* What is read from lines, whatever they are, is a config.
LEMMA LinesGiveAConfig ==
    ASSUME NEW lines \in Seq(ConfigLine)
    PROVE  IsConfig(LoadFromStream(lines))
<1>  DEFINE g == [n \in 0..Len(lines) |-> Reading(lines)[n].reader]
<1>1. IsReader(Reader)
  <2>1. Reader = State(Config, "", "", 0, "", FALSE)
    BY DEF Reader, State
  <2> QED BY <2>1, StateParts, ConfigIs, Zenon
<1>2. g[0] = Reader /\ \A n \in 1..Len(lines) : g[n] = ReadNext(g[n - 1], lines[n])
  <2>1. Len(lines) \in Nat
    OBVIOUS
  <2>2. StatesOf(g, Reader, lines)
    BY <2>1, ReadingIs, Zenon
  <2> QED BY <2>2 DEF StatesOf
<1>  HIDE DEF g
<1>  DEFINE S == {n \in 0..Len(lines) : IsReader(g[n])}
<1>3. 0 \in S
  BY <1>1, <1>2
<1>4. ASSUME NEW n \in S, n \in Nat, n < Len(lines) PROVE n + 1 \in S
  <2>1. n + 1 \in 1..Len(lines) /\ (n + 1) - 1 = n /\ IsReader(g[n]) /\ lines[n + 1] \in ConfigLine
    BY <1>4
  <2>2. g[n + 1] = ReadNext(g[n], lines[n + 1])
    BY <2>1, <1>2
  <2>3. IsReader(g[n + 1])
    BY <2>1, <2>2, ReadNextKeeps
  <2> QED BY <2>1, <2>3
<1>5. Len(lines) \in S
  <2> HIDE DEF S
  <2>1. \A n \in S : n \in Nat /\ n < Len(lines) => n + 1 \in S
    BY <1>4
  <2>2. 0..Len(lines) \subseteq S
    BY <1>3, <2>1, UpTo
  <2> QED BY <2>2
<1> QED BY <1>5 DEF IsReader, LoadFromStream, g

-----------------------------------------------------------------------------
(* The settings that are written are those that are read                   *)

\* The rules in the order in which they are written.
Rule(i) == Written[i][1]

\* The lines for a rule are of settings that it reads and not of a legacy one, and all of the
\* others are written; only restricted_malloc has a list, after its level.
Agrees(r, keys) ==
    /\ Len(keys) \in Nat /\ DOMAIN keys = 1..Len(keys)
    /\ \A j \in 1..Len(keys) : keys[j] \in DOMAIN Settings[r]
    /\ \A k \in DOMAIN Settings[r] :
          IF KindOf(r, k) = "legacy" THEN r = "global_variable"
          ELSE \E j \in 1..Len(keys) : keys[j] = k
    /\ \A j \in 1..Len(keys) :
          /\ KindOf(r, keys[j]) # "legacy"
          /\ KindOf(r, keys[j]) = "list" =>
                /\ r = "restricted_malloc" /\ keys[j] = "list_of_allowed_malloc_functions"
                /\ \A i \in 1..Len(keys) : i < j => keys[i] # keys[j]

\* Each rule's lines, as writeConfig has them, agree with what its applySetting reads.
LEMMA EnumAgrees ==
    Agrees("enum",
           <<"level", "allow_enum_typedef">>)
<1>1. Settings["enum"] = EnumSettings
  BY DEF Settings, Rules
<1> QED BY <1>1 DEF Agrees, KindOf, EnumSettings, Level, Flags, Texts, Kind, ++

LEMMA PrivateAgrees ==
    Agrees("private",
           <<"level", "private_field", "getter_contains", "setter_contains">>)
<1>1. Settings["private"] = PrivateSettings
  BY DEF Settings, Rules
<1> QED BY <1>1 DEF Agrees, KindOf, PrivateSettings, Level, Flags, Texts, Kind, ++

LEMMA AssignmentAgrees ==
    Agrees("assignment",
           <<"level", "forbid_zero_init_for_objects_with_pointers",
             "forbid_null_assign", "forbid_mut_arg_pointer", "forbid_arg_reassign",
             "forbid_null_as_arg">>)
<1>1. Settings["assignment"] = AssignmentSettings
  BY DEF Settings, Rules
<1> QED BY <1>1 DEF Agrees, KindOf, AssignmentSettings, Level, Flags, Texts, Kind, ++

LEMMA PrefixNamespaceAgrees ==
    Agrees("prefix_namespace",
           <<"level", "top_dir", "work_from_top", "stop_at_count", "use_separator",
             "separator", "require_ifndef_for_filepath", "apply_to_functions",
             "apply_to_structs", "apply_to_typedefs", "case_insensitive">>)
<1>1. Settings["prefix_namespace"] = PrefixNamespaceSettings
  BY DEF Settings, Rules
<1> QED BY <1>1 DEF Agrees, KindOf, PrefixNamespaceSettings, Level, Flags, Texts, Kind, ++

LEMMA NullCheckAgrees ==
    Agrees("null_check",
           <<"level", "allow_direct_ptr_in_if_statement">>)
<1>1. Settings["null_check"] = NullCheckSettings
  BY DEF Settings, Rules
<1> QED BY <1>1 DEF Agrees, KindOf, NullCheckSettings, Level, Flags, Texts, Kind, ++

LEMMA ArgumentPointerMovementAgrees ==
    Agrees("argument_pointer_movement",
           <<"level", "require_operator_for_move_callsite",
             "require_operator_for_out_callsite",
             "require_operator_for_modify_callsite">>)
<1>1. Settings["argument_pointer_movement"] = ArgumentPointerMovementSettings
  BY DEF Settings, Rules
<1> QED BY <1>1 DEF Agrees, KindOf, ArgumentPointerMovementSettings, Level, Flags, Texts, Kind, ++

LEMMA StructResourceManagementAgrees ==
    Agrees("struct_resource_management",
           <<"level", "pod_struct_creator_suffix", "raii_struct_creator_suffix",
             "raii_struct_destroyer_suffix", "raii_struct_copy_suffix",
             "raii_struct_move_suffix", "raii_struct_return_suffix",
             "raii_struct_valid_suffix", "free_struct_creator_suffix",
             "allow_raii_struct_arrays", "raii_struct_array_destroyer_suffix",
             "raii_use_after_destroy", "raii_may_only_move_value_ref",
             "raii_may_only_destroy_value_ref", "raii_destroy_in_reverse_order",
             "raii_standardized_destroy_definitions">>)
<1>1. Settings["struct_resource_management"] = StructResourceManagementSettings
  BY DEF Settings, Rules
<1> QED BY <1>1 DEF Agrees, KindOf, StructResourceManagementSettings, Level, Flags, Texts, Kind, ++

LEMMA InterfacesAgrees ==
    Agrees("interfaces",
           <<"level", "vtable_suffix", "interface_suffix", "const_interface_suffix",
             "interface_must_have_fields_that_are_private_alternative">>)
<1>1. Settings["interfaces"] = InterfacesSettings
  BY DEF Settings, Rules
<1> QED BY <1>1 DEF Agrees, KindOf, InterfacesSettings, Level, Flags, Texts, Kind, ++

LEMMA RestrictedMallocAgrees ==
    Agrees("restricted_malloc",
           <<"level", "list_of_allowed_malloc_functions">>)
<1>1. Settings["restricted_malloc"] = RestrictedMallocSettings
  BY DEF Settings, Rules
<1> QED BY <1>1 DEF Agrees, KindOf, RestrictedMallocSettings, Level, Flags, Texts, Kind, ++

LEMMA SingleReturnAgrees ==
    Agrees("single_return",
           <<"level", "allow_early_return", "require_return_for_void">>)
<1>1. Settings["single_return"] = SingleReturnSettings
  BY DEF Settings, Rules
<1> QED BY <1>1 DEF Agrees, KindOf, SingleReturnSettings, Level, Flags, Texts, Kind, ++

LEMMA GlobalVariableAgrees ==
    Agrees("global_variable",
           <<"level", "must_be_static", "must_be_const", "forbid_static_in_header",
             "mutable_require_prefix", "mutable_prefix", "mutable_must_be_caps",
             "const_require_prefix", "const_prefix", "const_must_be_caps",
             "mutable_local_static_require_prefix", "mutable_local_static_prefix",
             "mutable_local_static_must_be_caps", "const_local_static_require_prefix",
             "const_local_static_prefix", "const_local_static_must_be_caps">>)
<1>1. Settings["global_variable"] = GlobalVariableSettings
  BY DEF Settings, Rules
<1> QED BY <1>1 DEF Agrees, KindOf, GlobalVariableSettings, Level, Flags, Texts, Kind, ++

LEMMA ReferencePointerAgrees ==
    Agrees("reference_pointer",
           <<"level", "disable_null_check_rule_for_reference_pointers">>)
<1>1. Settings["reference_pointer"] = ReferencePointerSettings
  BY DEF Settings, Rules
<1> QED BY <1>1 DEF Agrees, KindOf, ReferencePointerSettings, Level, Flags, Texts, Kind, ++

LEMMA ArrayStructAgrees ==
    Agrees("array_struct",
           <<"level", "only_allow_array_passing_to_library_functions",
             "enforce_size_suffix_for_array_structs", "size_suffix_with_underscore",
             "flexible_size_name", "enforce_suffix_for_array_structs",
             "array_struct_suffix", "struct_name_as_prefix",
             "use_naming_rules_on_one_array_field_structs_without_forbidding_public_arrays">>)
<1>1. Settings["array_struct"] = ArrayStructSettings
  BY DEF Settings, Rules
<1> QED BY <1>1 DEF Agrees, KindOf, ArrayStructSettings, Level, Flags, Texts, Kind, ++

LEMMA SpanStructAgrees ==
    Agrees("span_struct",
           <<"level", "span_struct_suffix", "const_span_struct_suffix",
             "only_allow_array_passing_to_library_functions_and_spans",
             "allow_string_literals_as_const_char_arguments",
             "only_allow_span_data_passing_in_one_line_static_functions",
             "allow_spans_to_be_given_fewer_elements_than_their_size",
             "require_span_immediately_after_array",
             "allow_pod_span_to_be_initialized_manually_if_static">>)
<1>1. Settings["span_struct"] = SpanStructSettings
  BY DEF Settings, Rules
<1> QED BY <1>1 DEF Agrees, KindOf, SpanStructSettings, Level, Flags, Texts, Kind, ++

\* The rules that only have a level.
LEMMA LevelAgrees ==
    ASSUME NEW r \in {"suppression_reason_rule", "private_alternative", "function_pointer",
                      "typedef_struct", "strict_switch",
                      "function_discard", "const_field", "no_goto"}
    PROVE  r \in Rules /\ Agrees(r, <<"level">>)
<1>1. r \in Rules /\ Settings[r] = Level
  BY DEF Settings, Rules
<1>2. DOMAIN Level = {"level"} /\ Level["level"] = "level"
  BY DEF Level, Kind
<1> QED BY <1>1, <1>2 DEF Agrees, KindOf

\* All rules are written, and the lines of each agree with what is read.
LEMMA WrittenAgrees ==
    /\ Len(Written) = 22 /\ DOMAIN Written = 1..22
    /\ \A i \in 1..22 : Rule(i) \in Rules /\ Agrees(Rule(i), Written[i][2])
    /\ \A r \in Rules : \E i \in 1..22 : Rule(i) = r
    /\ \A i \in 1..22 : Rule(i) = "restricted_malloc" => i = 13
<1>1. /\ Len(WrittenFirst) = 11 /\ Len(WrittenNext) = 11
  BY DEF WrittenFirst, WrittenNext
<1>2. /\ Len(Written) = 22 /\ DOMAIN Written = 1..22
      /\ \A i \in 1..11 : Written[i] = WrittenFirst[i]
      /\ \A i \in 12..22 : Written[i] = WrittenNext[i - 11]
  <2>  DEFINE A == {WrittenFirst[i] : i \in 1..11} \cup {WrittenNext[i] : i \in 1..11}
  <2>1. WrittenFirst \in Seq(A)
    <3>1. WrittenFirst = [i \in 1..11 |-> WrittenFirst[i]]
      BY DEF WrittenFirst
    <3> QED BY <3>1
  <2>2. WrittenNext \in Seq(A)
    <3>1. WrittenNext = [i \in 1..11 |-> WrittenNext[i]]
      BY DEF WrittenNext
    <3> QED BY <3>1
  <2> HIDE DEF A
  <2>3. /\ Len(Written) = 22
        /\ \A i \in 1..11 : Written[i] = WrittenFirst[i]
        /\ \A i \in 1..11 : Written[11 + i] = WrittenNext[i]
    <3>1. /\ Len(Written) = Len(WrittenFirst) + Len(WrittenNext)
          /\ \A i \in 1..Len(WrittenFirst) : Written[i] = WrittenFirst[i]
          /\ \A i \in 1..Len(WrittenNext) : Written[Len(WrittenFirst) + i] = WrittenNext[i]
      BY <2>1, <2>2, Joined, Z3 DEF Written
    <3> QED BY <3>1, <1>1
  <2>4. ASSUME NEW i \in 12..22 PROVE Written[i] = WrittenNext[i - 11]
    <3>1. i - 11 \in 1..11 /\ 11 + (i - 11) = i
      OBVIOUS
    <3> QED BY <3>1, <2>3
  <2>5. DOMAIN Written = 1..Len(Written)
    <3>1. Written \in Seq(A)
      BY <2>1, <2>2 DEF Written
    <3> QED BY <3>1
  <2> QED BY <2>3, <2>4, <2>5
<1>3. Rule(1) = "suppression_reason_rule" /\ Rule(1) \in Rules /\ Agrees(Rule(1), Written[1][2])
  BY <1>2, LevelAgrees, SMTT(30) DEF Rule, Rules, WrittenFirst
<1>4. Rule(2) = "enum" /\ Rule(2) \in Rules /\ Agrees(Rule(2), Written[2][2])
  BY <1>2, EnumAgrees, SMTT(30) DEF Rule, Rules, WrittenFirst
<1>5. Rule(3) = "private" /\ Rule(3) \in Rules /\ Agrees(Rule(3), Written[3][2])
  BY <1>2, PrivateAgrees, SMTT(30) DEF Rule, Rules, WrittenFirst
<1>6. Rule(4) = "private_alternative" /\ Rule(4) \in Rules /\ Agrees(Rule(4), Written[4][2])
  BY <1>2, LevelAgrees, SMTT(30) DEF Rule, Rules, WrittenFirst
<1>7. Rule(5) = "function_pointer" /\ Rule(5) \in Rules /\ Agrees(Rule(5), Written[5][2])
  BY <1>2, LevelAgrees, SMTT(30) DEF Rule, Rules, WrittenFirst
<1>8. Rule(6) = "typedef_struct" /\ Rule(6) \in Rules /\ Agrees(Rule(6), Written[6][2])
  BY <1>2, LevelAgrees, SMTT(30) DEF Rule, Rules, WrittenFirst
<1>9. Rule(7) = "assignment" /\ Rule(7) \in Rules /\ Agrees(Rule(7), Written[7][2])
  BY <1>2, AssignmentAgrees, SMTT(30) DEF Rule, Rules, WrittenFirst
<1>10. Rule(8) = "prefix_namespace" /\ Rule(8) \in Rules /\ Agrees(Rule(8), Written[8][2])
  BY <1>2, PrefixNamespaceAgrees, SMTT(30) DEF Rule, Rules, WrittenFirst
<1>11. Rule(9) = "null_check" /\ Rule(9) \in Rules /\ Agrees(Rule(9), Written[9][2])
  BY <1>2, NullCheckAgrees, SMTT(30) DEF Rule, Rules, WrittenFirst
<1>12. Rule(10) = "argument_pointer_movement" /\ Rule(10) \in Rules
       /\ Agrees(Rule(10), Written[10][2])
  BY <1>2, ArgumentPointerMovementAgrees, SMTT(30) DEF Rule, Rules, WrittenFirst
<1>13. Rule(11) = "struct_resource_management" /\ Rule(11) \in Rules
       /\ Agrees(Rule(11), Written[11][2])
  BY <1>2, StructResourceManagementAgrees, SMTT(30) DEF Rule, Rules, WrittenFirst
<1>14. Rule(12) = "interfaces" /\ Rule(12) \in Rules /\ Agrees(Rule(12), Written[12][2])
  BY <1>2, InterfacesAgrees, SMTT(30) DEF Rule, Rules, WrittenNext
<1>15. Rule(13) = "restricted_malloc" /\ Rule(13) \in Rules /\ Agrees(Rule(13), Written[13][2])
  BY <1>2, RestrictedMallocAgrees, SMTT(30) DEF Rule, Rules, WrittenNext
<1>16. Rule(14) = "single_return" /\ Rule(14) \in Rules /\ Agrees(Rule(14), Written[14][2])
  BY <1>2, SingleReturnAgrees, SMTT(30) DEF Rule, Rules, WrittenNext
<1>17. Rule(15) = "strict_switch" /\ Rule(15) \in Rules /\ Agrees(Rule(15), Written[15][2])
  BY <1>2, LevelAgrees, SMTT(30) DEF Rule, Rules, WrittenNext
<1>18. Rule(16) = "global_variable" /\ Rule(16) \in Rules /\ Agrees(Rule(16), Written[16][2])
  BY <1>2, GlobalVariableAgrees, SMTT(30) DEF Rule, Rules, WrittenNext
<1>19. Rule(17) = "reference_pointer" /\ Rule(17) \in Rules /\ Agrees(Rule(17), Written[17][2])
  BY <1>2, ReferencePointerAgrees, SMTT(30) DEF Rule, Rules, WrittenNext
<1>20. Rule(18) = "function_discard" /\ Rule(18) \in Rules /\ Agrees(Rule(18), Written[18][2])
  BY <1>2, LevelAgrees, SMTT(30) DEF Rule, Rules, WrittenNext
<1>21. Rule(19) = "array_struct" /\ Rule(19) \in Rules /\ Agrees(Rule(19), Written[19][2])
  BY <1>2, ArrayStructAgrees, SMTT(30) DEF Rule, Rules, WrittenNext
<1>22. Rule(20) = "span_struct" /\ Rule(20) \in Rules /\ Agrees(Rule(20), Written[20][2])
  BY <1>2, SpanStructAgrees, SMTT(30) DEF Rule, Rules, WrittenNext
<1>23. Rule(21) = "const_field" /\ Rule(21) \in Rules /\ Agrees(Rule(21), Written[21][2])
  BY <1>2, LevelAgrees, SMTT(30) DEF Rule, Rules, WrittenNext
<1>24. Rule(22) = "no_goto" /\ Rule(22) \in Rules /\ Agrees(Rule(22), Written[22][2])
  BY <1>2, LevelAgrees, SMTT(30) DEF Rule, Rules, WrittenNext
<1> QED BY <1>2, <1>3, <1>4, <1>5, <1>6, <1>7, <1>8, <1>9, <1>10, <1>11, <1>12, <1>13, <1>14,
           <1>15, <1>16, <1>17, <1>18, <1>19, <1>20, <1>21, <1>22, <1>23,
           <1>24 DEF Rules

-----------------------------------------------------------------------------
(* Reading what was written                                                *)

\* The lines that are written.
Names == {"", "third_party_includes", "compile_commands_dir", "rules"} \cup Rules
         \cup UNION {DOMAIN Settings[r] : r \in Rules}
Given ==
    Seq(STRING) \cup {<<"[", "]">>}
    \cup UNION {Values(kind) : kind \in {"level", "flag", "number"}}
Dumped ==
    [form : {"head", "pair", "item", "note"}, indent : {0, 2, 4, 6}, key : Names, value : Given]

\* The lines that writeConfig makes are among them.
LEMMA LinesAreDumped ==
    /\ Note \in Dumped
    /\ \A n \in {0, 2, 4, 6} : \A k \in Names : HeadAt(n, k) \in Dumped
    /\ \A n \in {0, 2, 4, 6} : \A k \in Names : \A v \in Given : Pair(n, k, v) \in Dumped
    /\ \A n \in {0, 2, 4, 6} : \A v \in Given : Item(n, v) \in Dumped
<1>1. <<>> \in Given /\ "" \in Names
  BY DEF Given, Names
<1> QED BY <1>1 DEF Dumped, Note, HeadAt, Pair, Item

\* What is known of c when the settings W were read.
Part(c, W) ==
    [rules |-> [r \in Rules |-> [k \in DOMAIN Settings[r] |->
                   IF <<r, k>> \in W THEN c.rules[r][k] ELSE Default(r, k)]],
     thirdPartyIncludes |-> c.thirdPartyIncludes, compileCommandsDir |-> c.compileCommandsDir]

\* The reader is among the settings of a rule, or between two rules.
At(p, r, k)  == State(p, InRules, r, RuleIndent, k, No)
Start(p)     == State(p, InRules, NoName, TopIndent, NoName, No)
InRule(p, r) == {At(p, r, k) : k \in Names}
Between(p)   == {Start(p)} \cup UNION {InRule(p, r) : r \in Rules}

\* A part of a config is a config.
LEMMA PartIs ==
    ASSUME NEW c, IsConfig(c), NEW W
    PROVE  /\ IsConfig(Part(c, W))
           /\ \A r \in Rules : \A k \in DOMAIN Settings[r] :
                 Part(c, W).rules[r][k] = IF <<r, k>> \in W THEN c.rules[r][k] ELSE Default(r, k)
<1>  DEFINE p == Part(c, W)
<1>1. /\ p = [rules |-> p.rules, thirdPartyIncludes |-> c.thirdPartyIncludes,
              compileCommandsDir |-> c.compileCommandsDir]
      /\ p.thirdPartyIncludes = c.thirdPartyIncludes /\ p.compileCommandsDir = c.compileCommandsDir
      /\ p.rules = [r \in Rules |-> [k \in DOMAIN Settings[r] |->
                       IF <<r, k>> \in W THEN c.rules[r][k] ELSE Default(r, k)]]
  BY DEF Part
<1>  HIDE DEF p
<1>2. \A r \in Rules : p.rules[r] = [k \in DOMAIN Settings[r] |->
                          IF <<r, k>> \in W THEN c.rules[r][k] ELSE Default(r, k)]
  BY <1>1, Zenon
<1>3. \A r \in Rules : \A k \in DOMAIN Settings[r] :
          p.rules[r][k] = IF <<r, k>> \in W THEN c.rules[r][k] ELSE Default(r, k)
  BY <1>2
<1>4. p.rules = [r \in Rules |-> [k \in DOMAIN Settings[r] |-> p.rules[r][k]]]
  BY <1>1, <1>2, <1>3
<1>5. \A r \in Rules : \A k \in DOMAIN Settings[r] : p.rules[r][k] \in Values(KindOf(r, k))
  <2>1. ASSUME NEW r \in Rules, NEW k \in DOMAIN Settings[r]
        PROVE  p.rules[r][k] \in Values(KindOf(r, k))
    <3>1. p.rules[r][k] \in {c.rules[r][k], Default(r, k)}
      BY <1>3
    <3>2. c.rules[r][k] \in Values(KindOf(r, k)) /\ Default(r, k) \in Values(KindOf(r, k))
      BY DefaultIs DEF IsConfig
    <3> QED BY <3>1, <3>2
  <2> QED BY <2>1
<1>6. IsConfig(p)
  BY <1>1, <1>4, <1>5 DEF IsConfig
<1> QED BY <1>3, <1>6 DEF p

\* One more setting of c.
LEMMA PartWith ==
    ASSUME NEW c, IsConfig(c), NEW W, NEW r \in Rules, NEW k \in DOMAIN Settings[r]
    PROVE  /\ Put(Part(c, W), r, k, c.rules[r][k]) = Part(c, W \cup {<<r, k>>})
           /\ c.rules[r][k] = Default(r, k) => Part(c, W) = Part(c, W \cup {<<r, k>>})
<1>  DEFINE p == Part(c, W)
            V == W \cup {<<r, k>>}
<1>1. /\ p.thirdPartyIncludes = c.thirdPartyIncludes /\ p.compileCommandsDir = c.compileCommandsDir
      /\ \A q \in Rules : \A j \in DOMAIN Settings[q] :
             p.rules[q][j] = IF <<q, j>> \in W THEN c.rules[q][j] ELSE Default(q, j)
  BY PartIs DEF Part
<1>2. \A q \in Rules : \A j \in DOMAIN Settings[q] : <<q, j>> \in V <=> <<q, j>> \in W
      \/ (q = r /\ j = k)
  OBVIOUS
<1>3. [q \in Rules |-> [j \in DOMAIN Settings[q] |->
          IF q = r /\ j = k THEN c.rules[r][k] ELSE p.rules[q][j]]]
      = [q \in Rules |-> [j \in DOMAIN Settings[q] |->
          IF <<q, j>> \in V THEN c.rules[q][j] ELSE Default(q, j)]]
  <2> HIDE DEF p, V
  <2>1. ASSUME NEW q \in Rules
        PROVE  [j \in DOMAIN Settings[q] |->
                   IF q = r /\ j = k THEN c.rules[r][k] ELSE p.rules[q][j]]
               = [j \in DOMAIN Settings[q] |->
                   IF <<q, j>> \in V THEN c.rules[q][j] ELSE Default(q, j)]
    <3>1. ASSUME NEW j \in DOMAIN Settings[q]
          PROVE  (IF q = r /\ j = k THEN c.rules[r][k] ELSE p.rules[q][j])
                 = (IF <<q, j>> \in V THEN c.rules[q][j] ELSE Default(q, j))
      BY <1>1, <1>2
    <3> QED BY <3>1
  <2> QED BY <2>1
<1>4. ASSUME c.rules[r][k] = Default(r, k)
      PROVE  [q \in Rules |-> [j \in DOMAIN Settings[q] |->
                 IF <<q, j>> \in W THEN c.rules[q][j] ELSE Default(q, j)]]
             = [q \in Rules |-> [j \in DOMAIN Settings[q] |->
                 IF <<q, j>> \in V THEN c.rules[q][j] ELSE Default(q, j)]]
  <2> HIDE DEF p, V
  <2>1. ASSUME NEW q \in Rules
        PROVE  [j \in DOMAIN Settings[q] |->
                   IF <<q, j>> \in W THEN c.rules[q][j] ELSE Default(q, j)]
               = [j \in DOMAIN Settings[q] |->
                   IF <<q, j>> \in V THEN c.rules[q][j] ELSE Default(q, j)]
    <3>1. ASSUME NEW j \in DOMAIN Settings[q]
          PROVE  (IF <<q, j>> \in W THEN c.rules[q][j] ELSE Default(q, j))
                 = (IF <<q, j>> \in V THEN c.rules[q][j] ELSE Default(q, j))
      BY <1>2, <1>4
    <3> QED BY <3>1
  <2> QED BY <2>1
<1>5. Put(p, r, k, c.rules[r][k]) = Part(c, V)
  <2> HIDE DEF p
  <2> QED BY <1>1, <1>3 DEF Put, Part
<1>6. c.rules[r][k] = Default(r, k) => p = Part(c, V)
  BY <1>4 DEF Part
<1> QED BY <1>5, <1>6

\* A value that is written is read as it is.
LEMMA ParseBack ==
    ASSUME NEW kind, kind \notin {"list", "legacy"}, NEW v \in Values(kind),
           kind = "unquoted" => ~Quoted(v), NEW old
    PROVE  Parse(kind, old, v) = v /\ v \in Given
<1>1. CASE kind \notin {"level", "flag", "number"}
  <2>1. Parse(kind, old, v) = v
    BY <1>1 DEF Parse, Quoted
  <2>2. v \in Given
    BY <1>1 DEF Values, Given
  <2> QED BY <2>1, <2>2
<1>2. CASE kind = "level"
  BY <1>2 DEF Parse, Values, ParseLevel, Given
<1>3. CASE kind = "flag"
  BY <1>3 DEF Parse, Values, ParseBool, Given
<1>4. CASE kind = "number"
  <2>1. Parse(kind, old, v) = v
    BY <1>4 DEF Parse, Values, ParseInt
  <2>2. v \in Given
    BY <1>4 DEF Given
  <2> QED BY <2>1, <2>2
<1> QED BY <1>1, <1>2, <1>3, <1>4

\* An empty list is read as one.
LEMMA ListBack ==
    ASSUME NEW old PROVE Parse("list", old, <<"[", "]">>) = <<>> /\ <<"[", "]">> \in Given
BY DEF Parse, ParseInlineList, Given

-----------------------------------------------------------------------------
(* Lines of a rule                                                         *)

\* No rule is named like a section.
LEMMA RuleNames ==
    \A r \in Rules : r \notin {"", "paths", "rules", "third_party_includes"}
BY DEF Rules

\* A setting's line is read as the setting.
LEMMA NextSetting ==
    ASSUME NEW p, IsConfig(p), NEW r \in Rules, NEW k \in DOMAIN Settings[r], NEW v, NEW j
    PROVE  ReadNext(At(p, r, j), Pair(4, k, v))
           = At(Put(p, r, k, Parse(KindOf(r, k), p.rules[r][k], v)), r, NoName)
<1>  DEFINE l == Pair(4, k, v)
            s == At(p, r, j)
            x == Parse(KindOf(r, k), p.rules[r][k], v)
            d == Put(p, r, k, x)
<1>2. s.config = p /\ s.section = "rules" /\ s.rule = r
  BY DEF At, State, InRules, RuleIndent
<1>3. l.form = "pair" /\ l.key = k /\ l.value = v /\ ~IsHead(l)
  BY DEF Pair, IsHead
<1>4. r # ""
  BY RuleNames
<1>5. ApplyRuleSetting(p, r, k, v) = d
  <2>1. ApplyRuleSetting(p, r, k, v) = [p EXCEPT !.rules[r][k] = x]
    BY DEF ApplyRuleSetting
  <2>2. [p EXCEPT !.rules[r][k] = x] = d
    <3> HIDE DEF x
    <3> QED BY PutIs
  <2> QED BY <2>1, <2>2, Zenon
<1>6. WithSetting(s, d) = At(d, r, NoName)
  <2> HIDE DEF d
  <2> QED BY StateWith DEF At
<1>7. ReadRuleSetting(s, l)
        = [s EXCEPT !.listKey = "", !.config = ApplyRuleSetting(s.config, s.rule, l.key, l.value)]
  <2> HIDE DEF l, s
  <2>1. ReadRuleSetting(s, l)
          = [s EXCEPT !.listKey = "", !.config = ApplyRuleSetting(@, s.rule, l.key, l.value)]
    BY <1>2, <1>4 DEF ReadRuleSetting
  <2> QED BY <2>1
<1>  HIDE DEF l, d, s
<1>8. ReadNext(s, l) = WithSetting(s, d)
  <2>1. ReadNext(s, l) = ReadRuleSetting(s, l)
    BY <1>2, <1>3 DEF ReadNext, ReadRuleLine
  <2>2. ApplyRuleSetting(s.config, s.rule, l.key, l.value) = d
    BY <1>2, <1>3, <1>5
  <2> QED BY <2>1, <2>2, <1>7 DEF WithSetting, WithConfig, WithKey, NoName
<1> QED BY <1>6, <1>8 DEF l, d, s

\* The head of a rule is not deeper than that of the rule before it.
LEMMA NotBelowItself ==
    ASSUME NEW n, n = 2 PROVE ~(2 > n)
OBVIOUS

\* The head of a rule ends the rule before it; a comment changes nothing.
LEMMA NextRule ==
    ASSUME NEW p, NEW q, NEW n, NEW j, q = NoName \/ n = RuleIndent, NEW r \in Rules
    PROVE  /\ ReadNext(State(p, InRules, q, n, j, No), HeadAt(2, r))
              = At(p, r, NoName)
           /\ ReadNext(State(p, InRules, q, n, j, No), Note)
              = State(p, InRules, q, n, j, No)
<1>  DEFINE l == HeadAt(2, r)
            s == State(p, InRules, q, n, j, No)
<1>2. s.section = "rules" /\ s.rule = q /\ s.indent = n
  BY DEF At, State, InRules, RuleIndent
<1>3. l.form = "head" /\ l.key = r /\ l.indent = 2 /\ IsHead(l)
  BY RuleNames DEF HeadAt, IsHead, Sections
<1>6. WithRule(s, r) = At(p, r, NoName)
  BY StateWith DEF At
<1>  HIDE DEF l, s
<1>4. ReadNext(s, Note) = s
  <2>1. Note.form = "note" /\ ~IsHead(Note)
    BY DEF Note, IsHead
  <2> QED BY <2>1, <1>2 DEF ReadNext, ReadRuleLine, ReadLine
<1>5. ReadNext(s, l) = WithRule(s, r)
  <2>1. ReadNext(s, l) = ReadRuleHead(s, l)
    BY <1>2, <1>3 DEF ReadNext, ReadRuleLine
  <2>2. CASE q = NoName
    BY <1>2, <2>1, <1>3, <2>2
       DEF ReadRuleHead, WithRule, OfRule, WithIndent, WithKey, NoName, RuleIndent
  <2>3. CASE n = RuleIndent
    <3>1. ~(l.indent > s.indent)
      BY <1>2, <1>3, <2>3, NotBelowItself DEF RuleIndent
    <3> QED BY <1>2, <2>1, <1>3, <3>1
               DEF ReadRuleHead, WithRule, OfRule, WithIndent, WithKey, NoName, RuleIndent
  <2> QED BY <2>2, <2>3
<1> QED BY <1>4, <1>5, <1>6 DEF l, s

\* The head of a list, and its items.
LEMMA NextItem ==
    ASSUME NEW p, IsConfig(p), NEW r \in Rules, NEW k \in DOMAIN Settings[r],
           KindOf(r, k) = "list", k = "list_of_allowed_malloc_functions"
    PROVE  /\ \A j : ReadNext(At(p, r, j), HeadAt(4, k))
                     = At(p, r, k)
           /\ \A x : ReadNext(At(p, r, k), Item(6, <<x>>))
                     = At(Put(p, r, k, p.rules[r][k] \o <<x>>), r, k)
<1>1. ASSUME NEW j
      PROVE  ReadNext(At(p, r, j), HeadAt(4, k)) = At(p, r, k)
  <2>  DEFINE l == HeadAt(4, k)
              s == At(p, r, j)
  <2>2. s.section = "rules" /\ s.rule = r /\ s.indent = 2
    BY DEF At, State, InRules, RuleIndent
  <2>3. l.form = "head" /\ l.key = k /\ l.indent = 4 /\ IsHead(l)
    BY DEF HeadAt, IsHead, Sections
  <2>4. r # ""
    BY RuleNames
  <2>6. WithKey(s, k) = At(p, r, k)
    BY StateWithOne DEF At
  <2>  HIDE DEF l, s
  <2>5. ReadNext(s, l) = WithKey(s, k)
    <3>1. ReadNext(s, l) = ReadRuleHead(s, l)
      BY <2>2, <2>3 DEF ReadNext, ReadRuleLine
    <3>2. 4 > 2
      OBVIOUS
    <3> QED BY <3>1, <3>2, <2>2, <2>3, <2>4 DEF ReadRuleHead, WithKey
  <2> QED BY <2>5, <2>6 DEF l, s
<1>2. ASSUME NEW x
      PROVE  ReadNext(At(p, r, k), Item(6, <<x>>))
             = At(Put(p, r, k, p.rules[r][k] \o <<x>>), r, k)
  <2>  DEFINE l == Item(6, <<x>>)
              s == At(p, r, k)
              v == p.rules[r][k] \o <<x>>
              d == Put(p, r, k, v)
  <2>1. s.config = p /\ s.section = "rules" /\ s.rule = r /\ s.listKey = k
    BY DEF At, State, InRules, RuleIndent
  <2>2. l.form = "item" /\ l.value = <<x>> /\ ~IsHead(l)
    BY DEF Item, IsHead
  <2>3. Unquote(<<x>>) = <<x>> /\ <<x>> # <<>>
    BY DEF Unquote
  <2>4. ApplyRuleListItem(p, r, k, <<x>>) = d
    <3>1. ApplyRuleListItem(p, r, k, <<x>>) = [p EXCEPT !.rules[r][k] = v]
      BY <2>3 DEF ApplyRuleListItem
    <3>2. [p EXCEPT !.rules[r][k] = v] = d
      <4> HIDE DEF v
      <4> QED BY PutIs
    <3> QED BY <3>1, <3>2, Zenon
  <2>6. WithConfig(s, d) = At(d, r, k)
    <3> HIDE DEF d
    <3> QED BY StateWithOne DEF At
  <2>  HIDE DEF l, s, d
  <2>5. ReadNext(s, l) = WithConfig(s, d)
    <3>1. ReadNext(s, l) = ReadItem(s, l)
      BY <2>1, <2>2 DEF ReadNext, ReadRuleLine, ReadLine
    <3>2. ReadItem(s, l)
            = [s EXCEPT !.config = ApplyRuleListItem(s.config, s.rule, s.listKey, l.value)]
      BY <2>1 DEF ReadItem
    <3>3. ApplyRuleListItem(s.config, s.rule, s.listKey, l.value) = d
      BY <2>1, <2>2, <2>4
    <3> QED BY <3>1, <3>2, <3>3 DEF WithConfig
  <2> QED BY <2>5, <2>6 DEF l, s, d
<1> QED BY <1>1, <1>2

-----------------------------------------------------------------------------
(* The lines of a list, a setting and a rule                               *)

\* Some of the items of a list.
Items(p, r, k, v, n) == Put(p, r, k, SubSeq(v, 1, n))

\* The first items of a sequence, one more each time.
LEMMA FirstItems ==
    ASSUME NEW v \in Seq(STRING)
    PROVE  /\ Len(v) \in Nat /\ SubSeq(v, 1, 0) = <<>> /\ SubSeq(v, 1, Len(v)) = v
           /\ \A n \in 0..Len(v) : SubSeq(v, 1, n) \in Seq(STRING)
           /\ \A n \in 1..Len(v) : SubSeq(v, 1, n - 1) \o <<v[n]>> = SubSeq(v, 1, n)
<1>1. Len(v) \in Nat /\ SubSeq(v, 1, 0) = <<>> /\ SubSeq(v, 1, Len(v)) = v
  OBVIOUS
<1>2. ASSUME NEW n \in 0..Len(v) PROVE SubSeq(v, 1, n) \in Seq(STRING)
  OBVIOUS
<1>3. ASSUME NEW n \in 1..Len(v) PROVE SubSeq(v, 1, n - 1) \o <<v[n]>> = SubSeq(v, 1, n)
  OBVIOUS
<1> QED BY <1>1, <1>2, <1>3

\* Each item's line adds the item to its list.
LEMMA ItemsAre ==
    ASSUME NEW p, IsConfig(p), NEW r \in Rules, NEW k \in DOMAIN Settings[r],
           KindOf(r, k) = "list", k = "list_of_allowed_malloc_functions", p.rules[r][k] = <<>>,
           NEW v \in Seq(STRING)
    PROVE  /\ Items(p, r, k, v, 0) = p /\ Items(p, r, k, v, Len(v)) = Put(p, r, k, v)
           /\ \A n \in 1..Len(v) : ReadNext(At(Items(p, r, k, v, n - 1), r, k), Item(6, <<v[n]>>))
                                   = At(Items(p, r, k, v, n), r, k)
<1>1. Items(p, r, k, v, 0) = p
  <2>1. Items(p, r, k, v, 0) = Put(p, r, k, p.rules[r][k])
    BY FirstItems DEF Items
  <2> QED BY <2>1, PutBack, Zenon
<1>2. Items(p, r, k, v, Len(v)) = Put(p, r, k, v)
  BY FirstItems, Zenon DEF Items
<1>3. ASSUME NEW n \in 1..Len(v)
      PROVE  ReadNext(At(Items(p, r, k, v, n - 1), r, k), Item(6, <<v[n]>>))
             = At(Items(p, r, k, v, n), r, k)
  <2>  DEFINE u == SubSeq(v, 1, n - 1)
              w == SubSeq(v, 1, n)
              x == v[n]
              q == Put(p, r, k, u)
  <2>1. u \in Seq(STRING) /\ u \o <<x>> = w
    <3>1. n - 1 \in 0..Len(v)
      BY FirstItems
    <3> QED BY <3>1, FirstItems
  <2>  HIDE DEF u, w, x
  <2>2. u \in Values(KindOf(r, k))
    BY <2>1 DEF Values
  <2>3. IsConfig(q)
    BY <2>2, PutIs
  <2>4. q.rules[r][k] = u
    BY PutGives
  <2>5. Put(q, r, k, w) = Put(p, r, k, w)
    BY PutAgain
  <2>  HIDE DEF q
  <2>6. ReadNext(At(q, r, k), Item(6, <<x>>)) = At(Put(q, r, k, q.rules[r][k] \o <<x>>), r, k)
    BY <2>3, NextItem
  <2>7. ReadNext(At(q, r, k), Item(6, <<x>>)) = At(Put(p, r, k, w), r, k)
    BY <2>1, <2>4, <2>5, <2>6
  <2> QED BY <2>7 DEF q, u, w, x, Items
<1> QED BY <1>1, <1>2, <1>3

\* The lines of a list are read as the list.
LEMMA ItemsRead ==
    ASSUME NEW p, IsConfig(p), NEW r \in Rules, NEW k \in DOMAIN Settings[r],
           KindOf(r, k) = "list", k = "list_of_allowed_malloc_functions", p.rules[r][k] = <<>>,
           NEW v \in Seq(STRING), v # <<>>
    PROVE  /\ WriteList(4, k, v) \in Seq(Dumped)
           /\ \A s \in InRule(p, r) : Reads(s, WriteList(4, k, v), At(Put(p, r, k, v), r, k))
<1>  DEFINE N == Len(v)
            items == [i \in 1..N |-> Item(6, <<v[i]>>)]
            lines == <<HeadAt(4, k)>> \o items
            Q == [n \in 0..(N + 1) |-> IF n = 0 THEN InRule(p, r)
                                        ELSE {At(Items(p, r, k, v, n - 1), r, k)}]
<1>1. N \in Nat /\ DOMAIN v = 1..N /\ \A i \in 1..N : v[i] \in STRING
  OBVIOUS
<1>2. WriteList(4, k, v) = lines
  BY <1>1 DEF WriteList
<1>3. HeadAt(4, k) \in Dumped /\ \A i \in 1..N : Item(6, <<v[i]>>) \in Dumped
  <2>1. k \in Names
    BY DEF Names
  <2>2. \A i \in 1..N : <<v[i]>> \in Given
    BY <1>1, OneIs DEF Given
  <2> QED BY <2>1, <2>2, LinesAreDumped
<1>4. items \in Seq(Dumped) /\ Len(items) = N /\ \A i \in 1..N : items[i] = Item(6, <<v[i]>>)
  BY <1>1, <1>3
<1>5. <<HeadAt(4, k)>> \in Seq(Dumped) /\ Len(<<HeadAt(4, k)>>) = 1
      /\ <<HeadAt(4, k)>>[1] = HeadAt(4, k)
  BY <1>3
<1>6. /\ lines \in Seq(Dumped) /\ Len(lines) = N + 1 /\ lines[1] = HeadAt(4, k)
      /\ \A i \in 1..N : lines[1 + i] = Item(6, <<v[i]>>)
  <2>  HIDE DEF items
  <2>1. lines \in Seq(Dumped)
    BY <1>4, <1>5
  <2>2. /\ Len(lines) = 1 + N /\ \A i \in 1..1 : lines[i] = <<HeadAt(4, k)>>[i]
        /\ \A i \in 1..N : lines[1 + i] = items[i]
    BY <1>4, <1>5, Joined
  <2>  HIDE DEF lines
  <2> QED BY <2>1, <2>2, <1>1, <1>4, <1>5
<1>  HIDE DEF lines, items
<1>7. /\ Q[0] = InRule(p, r) /\ Q[1] = {At(p, r, k)} /\ Q[N + 1] = {At(Put(p, r, k, v), r, k)}
      /\ \A n \in 1..(N + 1) : Q[n] = {At(Items(p, r, k, v, n - 1), r, k)}
  <2>1. /\ Q[0] = InRule(p, r)
        /\ \A n \in 1..(N + 1) : Q[n] = {At(Items(p, r, k, v, n - 1), r, k)}
    BY <1>1
  <2>2. Q[1] = {At(Items(p, r, k, v, 0), r, k)} /\ Q[N + 1] = {At(Items(p, r, k, v, N), r, k)}
    BY <1>1, <2>1
  <2>  HIDE DEF Q
  <2> QED BY <2>1, <2>2, ItemsAre
<1>  HIDE DEF Q
<1>8. ASSUME NEW n \in 1..(N + 1), NEW t \in Q[n - 1] PROVE ReadNext(t, lines[n]) \in Q[n]
  <2>1. CASE n = 1
    <3>1. PICK j \in Names : t = At(p, r, j)
      BY <1>7, <1>8, <2>1 DEF InRule
    <3>2. ReadNext(t, HeadAt(4, k)) = At(p, r, k)
      BY <3>1, NextItem
    <3> QED BY <2>1, <3>2, <1>7, <1>6
  <2>2. CASE n # 1
    <3>1. n - 1 \in 1..N /\ n - 1 \in 1..(N + 1) /\ n = 1 + (n - 1)
      BY <2>2, <1>1
    <3>  DEFINE m == n - 1
    <3>2. t = At(Items(p, r, k, v, m - 1), r, k) /\ Q[n] = {At(Items(p, r, k, v, m), r, k)}
      BY <3>1, <1>7, <1>8
    <3>3. lines[n] = Item(6, <<v[m]>>)
      BY <3>1, <1>6
    <3>4. m \in 1..N
      BY <3>1
    <3>  HIDE DEF m
    <3>5. ReadNext(At(Items(p, r, k, v, m - 1), r, k), Item(6, <<v[m]>>))
            = At(Items(p, r, k, v, m), r, k)
      BY <3>4, ItemsAre
    <3> QED BY <3>2, <3>3, <3>5
  <2> QED BY <2>1, <2>2
<1>9. ASSUME NEW s \in InRule(p, r) PROVE Reads(s, lines, At(Put(p, r, k, v), r, k))
  <2>1. s \in Q[0] /\ Len(lines) \in Nat /\ Len(lines) = N + 1
    BY <1>1, <1>6, <1>7
  <2>2. \A n \in 1..Len(lines) : \A t \in Q[n - 1] : ReadNext(t, lines[n]) \in Q[n]
    BY <2>1, <1>8
  <2>3. PICK t \in Q[Len(lines)] : Reads(s, lines, t)
    BY <2>1, <2>2, ReadsEach, Zenon
  <2> QED BY <2>1, <2>3, <1>7
<1> QED BY <1>2, <1>6, <1>9

\* Some lines are written and read from one of some states to one of others.
ReadBack(lines, S, T) ==
    /\ lines \in Seq(Dumped)
    /\ \A s \in S : \E t \in T : Reads(s, lines, t)

\* One line for a setting.
LEMMA LineRead ==
    ASSUME NEW p, IsConfig(p), NEW r \in Rules, NEW k \in DOMAIN Settings[r],
           NEW w \in Given, NEW o,
           Put(p, r, k, Parse(KindOf(r, k), p.rules[r][k], w)) = o
    PROVE  ReadBack(<<Pair(4, k, w)>>, InRule(p, r), InRule(o, r))
<1>1. k \in Names /\ NoName \in Names
  BY DEF Names, NoName
<1>2. <<Pair(4, k, w)>> \in Seq(Dumped)
  BY <1>1, LinesAreDumped, OneIs
<1>3. ASSUME NEW s \in InRule(p, r)
      PROVE  \E t \in InRule(o, r) : Reads(s, <<Pair(4, k, w)>>, t)
  <2>1. PICK j \in Names : s = At(p, r, j)
    BY DEF InRule
  <2>2. ReadNext(At(p, r, j), Pair(4, k, w))
          = At(Put(p, r, k, Parse(KindOf(r, k), p.rules[r][k], w)), r, NoName)
    BY NextSetting
  <2>3. At(o, r, NoName) = ReadNext(s, Pair(4, k, w))
    BY <2>1, <2>2
  <2>  DEFINE t == At(o, r, NoName)
  <2>4. t \in InRule(o, r)
    BY <1>1 DEF InRule
  <2>  HIDE DEF t
  <2>5. Reads(s, <<Pair(4, k, w)>>, t)
    BY <2>3, ReadsLine DEF t
  <2> QED BY <2>4, <2>5
<1> QED BY <1>2, <1>3 DEF ReadBack

\* The lines of a setting are read as the setting.
LEMMA SettingRead ==
    ASSUME NEW c, IsConfig(c), QuotedOnce(c), NEW W, NEW r \in Rules, NEW k \in DOMAIN Settings[r],
           KindOf(r, k) # "legacy",
           KindOf(r, k) = "list" => k = "list_of_allowed_malloc_functions" /\ <<r, k>> \notin W
    PROVE  ReadBack(WriteSetting(c, r, k), InRule(Part(c, W), r),
                    InRule(Part(c, W \cup {<<r, k>>}), r))
<1>  DEFINE p == Part(c, W)
            o == Part(c, W \cup {<<r, k>>})
            v == c.rules[r][k]
            kind == KindOf(r, k)
<1>1. /\ IsConfig(p) /\ Put(p, r, k, v) = o /\ (v = Default(r, k) => p = o)
      /\ (<<r, k>> \notin W => p.rules[r][k] = Default(r, k))
  BY PartIs, PartWith
<1>2. v \in Values(kind) /\ (kind = "unquoted" => ~Quoted(v))
  BY DEF IsConfig, QuotedOnce
<1>3. kind \in {"text", "unquoted", "list"} => Default(r, k) = <<>>
  BY DEF Default
<1>4. CASE kind \in {"text", "unquoted"} /\ v = <<>>
  <2>1. WriteSetting(c, r, k) = <<>> /\ p = o
    BY <1>4, <1>1, <1>3 DEF WriteSetting
  <2>2. <<>> \in Seq(Dumped)
    OBVIOUS
  <2>3. \A s \in InRule(p, r) : s \in InRule(o, r) /\ Reads(s, <<>>, s)
    BY <2>1, ReadsNothing
  <2> HIDE DEF p, o
  <2>4. ReadBack(<<>>, InRule(p, r), InRule(o, r))
    BY <2>2, <2>3 DEF ReadBack
  <2> QED BY <2>1, <2>4 DEF p, o
<1>5. CASE kind # "list" /\ ~(kind \in {"text", "unquoted"} /\ v = <<>>)
  <2>1. WriteSetting(c, r, k) = <<Pair(4, k, v)>>
    BY <1>5 DEF WriteSetting
  <2>2. v \in Given /\ Parse(kind, p.rules[r][k], v) = v
    <3> HIDE DEF p, v, kind
    <3>1. kind \notin {"list", "legacy"}
      BY <1>5 DEF kind
    <3> QED BY <3>1, <1>2, ParseBack
  <2> HIDE DEF p, o, v
  <2>3. ReadBack(<<Pair(4, k, v)>>, InRule(p, r), InRule(o, r))
    BY <1>1, <2>2, LineRead
  <2> QED BY <2>1, <2>3 DEF p, o
<1>6. CASE kind = "list"
  <2>1. WriteSetting(c, r, k) = WriteList(4, k, v)
    BY <1>6 DEF WriteSetting
  <2>2. CASE v = <<>>
    <3>  DEFINE w == <<"[", "]">>
    <3>1. WriteSetting(c, r, k) = <<Pair(4, k, w)>>
      BY <2>1, <2>2 DEF WriteList
    <3>2. w \in Given /\ Parse(kind, p.rules[r][k], w) = v
      BY <1>6, <2>2, ListBack
    <3> HIDE DEF p, o, v, w
    <3>3. ReadBack(<<Pair(4, k, w)>>, InRule(p, r), InRule(o, r))
      BY <1>1, <3>2, LineRead
    <3> QED BY <3>1, <3>3 DEF p, o
  <2>3. CASE v # <<>>
    <3>1. p.rules[r][k] = <<>> /\ v \in Seq(STRING)
      BY <1>1, <1>2, <1>3, <1>6 DEF Values
    <3>2. k = "list_of_allowed_malloc_functions" /\ k \in Names
      BY <1>6 DEF Names
    <3> HIDE DEF p, o, v
    <3>3. /\ WriteList(4, k, v) \in Seq(Dumped)
          /\ \A s \in InRule(p, r) : Reads(s, WriteList(4, k, v), At(Put(p, r, k, v), r, k))
      BY <1>1, <1>6, <2>3, <3>1, <3>2, ItemsRead
    <3>4. At(o, r, k) \in InRule(o, r)
      BY <3>2 DEF InRule
    <3>5. ReadBack(WriteList(4, k, v), InRule(p, r), InRule(o, r))
      BY <1>1, <3>3, <3>4 DEF ReadBack
    <3> QED BY <2>1, <3>5 DEF p, o
  <2> QED BY <2>2, <2>3
<1> QED BY <1>4, <1>5, <1>6

\* Lines that are read one after the other, and states that are among others.
LEMMA ReadBackBoth ==
    ASSUME NEW a, NEW b, NEW S, NEW T, NEW U, ReadBack(a, S, T), ReadBack(b, T, U)
    PROVE  ReadBack(a \o b, S, U)
<1>1. a \in Seq(Dumped) /\ b \in Seq(Dumped)
  BY DEF ReadBack
<1>2. a \o b \in Seq(Dumped)
  BY <1>1
<1>3. ASSUME NEW s \in S PROVE \E u \in U : Reads(s, a \o b, u)
  <2>1. PICK t \in T : Reads(s, a, t)
    BY DEF ReadBack
  <2>2. PICK u \in U : Reads(t, b, u)
    BY DEF ReadBack
  <2> QED BY <1>1, <2>1, <2>2, ReadsBoth
<1> QED BY <1>2, <1>3 DEF ReadBack

\* One line that leads from each of some states to one of others.
LEMMA OneReadBack ==
    ASSUME NEW l \in Dumped, NEW S, NEW T, \A s \in S : ReadNext(s, l) \in T
    PROVE  ReadBack(<<l>>, S, T)
<1>1. <<l>> \in Seq(Dumped)
  BY OneIs
<1>2. ASSUME NEW s \in S PROVE \E t \in T : Reads(s, <<l>>, t)
  <2>1. PICK t \in T : t = ReadNext(s, l)
    OBVIOUS
  <2> QED BY <2>1, ReadsLine
<1> QED BY <1>1, <1>2 DEF ReadBack

\* FlattenSeq of lines that are read one after the other.
LEMMA PartsReadBack ==
    ASSUME NEW ss, NEW N \in Nat, DOMAIN ss = 1..N, ss = [i \in 1..N |-> ss[i]], NEW Q,
           \A i \in 1..N : ReadBack(ss[i], Q[i - 1], Q[i])
    PROVE  ReadBack(FlattenSeq(ss), Q[0], Q[N])
<1>1. \A i \in 1..N : ss[i] \in Seq(Dumped)
  BY DEF ReadBack
<1>2. ss \in Seq(Seq(Dumped)) /\ Len(ss) = N
  BY <1>1
<1>3. \A i \in 1..Len(ss) : \A s \in Q[i - 1] : \E t \in Q[i] : Reads(s, ss[i], t)
  BY <1>2 DEF ReadBack
<1>4. /\ FlattenSeq(ss) \in Seq(Dumped)
      /\ \A s \in Q[0] : \E t \in Q[Len(ss)] : Reads(s, FlattenSeq(ss), t)
  BY <1>2, <1>3, ReadsParts
<1> QED BY <1>2, <1>4 DEF ReadBack

\* The settings of a rule that its first lines are of.
Among(r, keys, j) == {<<r, keys[i]>> : i \in 1..j}

\* The lines of a rule are read as its settings, whatever rule was read before.
LEMMA RuleRead ==
    ASSUME NEW c, IsConfig(c), QuotedOnce(c), NEW W, NEW r \in Rules, NEW keys, Agrees(r, keys),
           \A i \in 1..Len(keys) : KindOf(r, keys[i]) = "list" => <<r, keys[i]>> \notin W
    PROVE  ReadBack(WriteRule(c, r, keys), Between(Part(c, W)),
                    Between(Part(c, W \cup Among(r, keys, Len(keys)))))
<1>  DEFINE N == Len(keys)
            V(j) == W \cup Among(r, keys, j)
            ss == [i \in 1..N |-> WriteSetting(c, r, keys[i])]
            Q == [j \in 0..N |-> InRule(Part(c, V(j)), r)]
            p == Part(c, W)
<1>1. N \in Nat /\ DOMAIN keys = 1..N
  BY DEF Agrees
<1>2. V(0) = W /\ \A i \in 1..N : V(i) = V(i - 1) \cup {<<r, keys[i]>>}
  BY <1>1 DEF Among
<1>3. ASSUME NEW i \in 1..N PROVE ReadBack(ss[i], Q[i - 1], Q[i])
  <2>  DEFINE k == keys[i]
              U == V(i - 1)
  <2>1. k \in DOMAIN Settings[r] /\ KindOf(r, k) # "legacy"
    BY DEF Agrees
  <2>2. ASSUME KindOf(r, k) = "list"
        PROVE  k = "list_of_allowed_malloc_functions" /\ <<r, k>> \notin U
    <3>1. k = "list_of_allowed_malloc_functions" /\ \A m \in 1..N : m < i => keys[m] # k
      BY <2>2 DEF Agrees
    <3>2. <<r, k>> \notin W
      BY <2>2
    <3>3. <<r, k>> \notin Among(r, keys, i - 1)
      BY <1>1, <3>1 DEF Among
    <3> QED BY <3>1, <3>2, <3>3
  <2>3. ss[i] = WriteSetting(c, r, k) /\ Q[i - 1] = InRule(Part(c, U), r)
        /\ Q[i] = InRule(Part(c, U \cup {<<r, k>>}), r)
    <3>1. ss[i] = WriteSetting(c, r, k)
      OBVIOUS
    <3>2. i \in 0..N /\ i - 1 \in 0..N
      BY <1>1
    <3>3. V(i) = U \cup {<<r, k>>}
      BY <1>2
    <3> HIDE DEF V
    <3>4. Q[i - 1] = InRule(Part(c, U), r) /\ Q[i] = InRule(Part(c, V(i)), r)
      BY <3>2
    <3> HIDE DEF ss, Q, U
    <3> QED BY <3>1, <3>3, <3>4
  <2> HIDE DEF k, U
  <2>4. ReadBack(WriteSetting(c, r, k), InRule(Part(c, U), r),
            InRule(Part(c, U \cup {<<r, k>>}), r))
    BY <2>1, <2>2, SettingRead
  <2> HIDE DEF ss, Q
  <2> QED BY <2>3, <2>4
<1>4. ReadBack(FlattenSeq(ss), Q[0], Q[N])
  <2>1. DOMAIN ss = 1..N /\ ss = [i \in 1..N |-> ss[i]]
    BY <1>1
  <2>2. \A i \in 1..N : ReadBack(ss[i], Q[i - 1], Q[i])
    BY <1>3
  <2> HIDE DEF ss, Q, N
  <2> QED BY <1>1, <2>1, <2>2, PartsReadBack
<1>5. Q[0] = InRule(p, r) /\ Q[N] = InRule(Part(c, V(N)), r)
  <2> HIDE DEF V
  <2> QED BY <1>1, <1>2
<1>6. WriteRule(c, r, keys) = (<<Note>> \o <<HeadAt(2, r)>>) \o FlattenSeq(ss)
  BY <1>1 DEF WriteRule
<1>  HIDE DEF ss, Q, N, V, p
<1>7. ASSUME NEW s \in Between(p)
      PROVE  ReadNext(s, Note) \in Between(p) /\ ReadNext(s, HeadAt(2, r)) \in InRule(p, r)
  <2>1. PICK q, n, j : s = State(p, InRules, q, n, j, No) /\ (q = NoName \/ n = RuleIndent)
    BY DEF Between, Start, InRule, At
  <2>2. ReadNext(s, Note) = s /\ ReadNext(s, HeadAt(2, r)) = At(p, r, NoName)
    BY <2>1, NextRule
  <2>3. NoName \in Names
    BY DEF Names, NoName
  <2> QED BY <2>2, <2>3 DEF InRule
<1>8. Note \in Dumped /\ HeadAt(2, r) \in Dumped
  <2>1. r \in Names
    BY DEF Names
  <2> QED BY <2>1, LinesAreDumped
<1>9. ReadBack(<<Note>> \o <<HeadAt(2, r)>>, Between(p), InRule(p, r))
  <2>1. ReadBack(<<Note>>, Between(p), Between(p))
        /\ ReadBack(<<HeadAt(2, r)>>, Between(p), InRule(p, r))
    BY <1>7, <1>8, OneReadBack
  <2> QED BY <2>1, ReadBackBoth
<1>10. ReadBack(WriteRule(c, r, keys), Between(p), InRule(Part(c, V(N)), r))
  BY <1>4, <1>5, <1>6, <1>9, ReadBackBoth
<1>11. InRule(Part(c, V(N)), r) \subseteq Between(Part(c, V(N)))
  BY DEF Between
<1> QED BY <1>10, <1>11 DEF ReadBack, V, N, p

-----------------------------------------------------------------------------
(* The lines before those of the rules                                     *)

\* Nothing is known of the rules yet.
Begun(third, dir) ==
    [rules |-> Config.rules, thirdPartyIncludes |-> third, compileCommandsDir |-> dir]
Outside(third, dir, b) == State(Begun(third, dir), NoName, NoName, TopIndent, NoName, b)

\* The settings outside of the rules are changed alone.
LEMMA BegunIs ==
    ASSUME NEW third, NEW dir
    PROVE  /\ \A x : [Begun(third, dir) EXCEPT !.thirdPartyIncludes = x] = Begun(x, dir)
           /\ \A x : [Begun(third, dir) EXCEPT !.compileCommandsDir = x] = Begun(third, x)
           /\ Begun(third, dir).thirdPartyIncludes = third
           /\ Begun(third, dir).compileCommandsDir = dir
<1>1. \A x : [Begun(third, dir) EXCEPT !.thirdPartyIncludes = x] = Begun(x, dir)
  BY DEF Begun
<1>2. \A x : [Begun(third, dir) EXCEPT !.compileCommandsDir = x] = Begun(third, x)
  BY DEF Begun
<1> QED BY <1>1, <1>2 DEF Begun

\* Lines outside of the rules, and the head of the rules.
LEMMA NextOutside ==
    ASSUME NEW third, NEW dir, NEW b
    PROVE  /\ ReadNext(Outside(third, dir, b), HeadAt(0, "third_party_includes"))
              = Outside(third, dir, Yes)
           /\ \A w : ReadNext(Outside(third, dir, b), Pair(0, "third_party_includes", w))
                     = Outside(third, dir, No)
           /\ \A v : ~Quoted(v) =>
                 ReadNext(Outside(third, dir, b), Pair(0, "compile_commands_dir", v))
                 = Outside(third, v, No)
           /\ ReadNext(Outside(third, dir, b), HeadAt(0, "rules")) = Start(Begun(third, dir))
<1>  DEFINE s == Outside(third, dir, b)
            c == Begun(third, dir)
<1>1. s.config = c /\ s.section # "rules"
  BY DEF Outside, State, NoName
<1>2. /\ WithThird(s, Yes) = Outside(third, dir, Yes)
      /\ \A d : WithTop(s, d) = State(d, NoName, NoName, TopIndent, NoName, No)
      /\ WithSection(s, InRules) = Start(c)
  BY StateWith, StateWithOne DEF Outside, Start
<1>3. /\ c.compileCommandsDir = dir
      /\ \A v : [c EXCEPT !.compileCommandsDir = v] = Begun(third, v)
  BY BegunIs
<1>  HIDE DEF s, c
<1>4. ReadNext(s, HeadAt(0, "third_party_includes")) = WithThird(s, Yes)
  BY <1>1 DEF ReadNext, ReadTopLine, ReadLine, IsHead, HeadAt, Sections, WithThird, Yes
<1>5. ReadNext(s, HeadAt(0, "rules")) = WithSection(s, InRules)
  <2>  DEFINE l == HeadAt(0, "rules")
  <2>1. l.form = "head" /\ l.key = "rules" /\ ~IsHead(l)
    BY DEF HeadAt, IsHead, Sections
  <2>  HIDE DEF l
  <2>2. ReadNext(s, l)
          = [s EXCEPT !.section = "rules", !.rule = "", !.listKey = "", !.inThirdParty = FALSE]
    BY <1>1, <2>1 DEF ReadNext, ReadTopLine, ReadLine, Sections
  <2> QED BY <2>2 DEF l, WithSection, WithThird, WithKey, OfRule, InSection, NoName, No, InRules
<1>6. ASSUME NEW k, NEW v
      PROVE  ReadNext(s, Pair(0, k, v))
             = WithTop(s, [c EXCEPT !.compileCommandsDir =
                  IF k = "compile_commands_dir" THEN Unquote(v) ELSE dir])
  <2>  DEFINE l == Pair(0, k, v)
              d == [c EXCEPT !.compileCommandsDir =
                   IF k = "compile_commands_dir" THEN Unquote(v) ELSE dir]
  <2>1. l.form = "pair" /\ l.key = k /\ l.value = v /\ ~IsHead(l)
    BY DEF Pair, IsHead
  <2>  HIDE DEF l
  <2>2. ReadNext(s, l) = [s EXCEPT !.inThirdParty = FALSE, !.config = d]
    BY <1>1, <1>3, <2>1 DEF ReadNext, ReadTopLine, ReadTopSetting
  <2>  HIDE DEF d
  <2> QED BY <2>2 DEF l, d, WithTop, WithConfig, WithThird, No
<1>7. ASSUME NEW w PROVE ReadNext(s, Pair(0, "third_party_includes", w)) = Outside(third, dir, No)
  <2>1. ReadNext(s, Pair(0, "third_party_includes", w)) = WithTop(s, Begun(third, dir))
    BY <1>3, <1>6
  <2> QED BY <2>1, <1>2 DEF Outside
<1>8. ASSUME NEW v, ~Quoted(v)
      PROVE  ReadNext(s, Pair(0, "compile_commands_dir", v)) = Outside(third, v, No)
  <2>1. ReadNext(s, Pair(0, "compile_commands_dir", v)) = WithTop(s, Begun(third, v))
    <3>1. Unquote(v) = v
      BY <1>8 DEF Quoted
    <3> QED BY <1>3, <1>6, <3>1
  <2> QED BY <2>1, <1>2 DEF Outside
<1> QED BY <1>2, <1>4, <1>5, <1>7, <1>8 DEF s, c

\* An item of third_party_includes is added to them.
LEMMA NextThirdParty ==
    ASSUME NEW third, NEW dir, NEW x
    PROVE  ReadNext(Outside(third, dir, Yes), Item(2, x)) = Outside(Append(third, x), dir, Yes)
<1>  DEFINE s == Outside(third, dir, Yes)
            l == Item(2, x)
            c == Begun(third, dir)
            d == Begun(Append(third, x), dir)
<1>1. s.config = c /\ s.section # "rules" /\ s.listKey = "" /\ s.inThirdParty
  BY DEF Outside, State, NoName, Yes
<1>2. l.form = "item" /\ l.value = x /\ ~IsHead(l)
  BY DEF Item, IsHead
<1>3. WithConfig(s, d) = Outside(Append(third, x), dir, Yes)
  BY StateWithOne DEF Outside
<1>4. c.thirdPartyIncludes = third /\ [c EXCEPT !.thirdPartyIncludes = Append(third, x)] = d
  BY DEF Begun
<1>  HIDE DEF s, l, c, d
<1>5. ReadNext(s, l) = WithConfig(s, d)
  <2>1. ReadNext(s, l) = ReadItem(s, l)
    BY <1>1, <1>2 DEF ReadNext, ReadTopLine, ReadLine
  <2>2. ReadItem(s, l) = [s EXCEPT !.config = [c EXCEPT !.thirdPartyIncludes = Append(third, x)]]
    BY <1>1, <1>2, <1>4 DEF ReadItem
  <2> QED BY <2>1, <2>2, <1>4 DEF WithConfig
<1> QED BY <1>3, <1>5 DEF s, l, d

\* The third-party folders are read as they are written.
LEMMA ThirdPartyRead ==
    ASSUME NEW c, IsConfig(c)
    PROVE  ReadBack(WriteThirdParty(c), {Reader},
                    {Outside(c.thirdPartyIncludes, <<>>, b) : b \in {Yes, No}})
<1>  DEFINE v == c.thirdPartyIncludes
            N == Len(v)
            items == [i \in 1..N |-> Item(2, v[i])]
            T == {Outside(v, <<>>, b) : b \in {Yes, No}}
            Q == [n \in 0..N |-> {Outside(SubSeq(v, 1, n), <<>>, Yes)}]
            k == "third_party_includes"
<1>1. Reader = Outside(<<>>, <<>>, No)
  <2>1. Begun(<<>>, <<>>) = Config
    BY DEF Begun, Config
  <2> HIDE DEF Begun, Config
  <2> QED BY <2>1 DEF Reader, Outside, State, NoName, TopIndent, No
<1>2. /\ N \in Nat /\ DOMAIN v = 1..N /\ \A i \in 1..N : v[i] \in Seq(STRING)
      /\ SubSeq(v, 1, 0) = <<>> /\ SubSeq(v, 1, N) = v
  BY DEF IsConfig
<1>3. \A n \in 1..N : Append(SubSeq(v, 1, n - 1), v[n]) = SubSeq(v, 1, n)
  <2>1. v \in Seq(Seq(STRING))
    BY DEF IsConfig
  <2> HIDE DEF v
  <2> QED BY <2>1
<1>4. k \in Names /\ <<"[", "]">> \in Given /\ \A i \in 1..N : v[i] \in Given
  BY <1>2 DEF Names, Given
<1>5. HeadAt(0, k) \in Dumped /\ Pair(0, k, <<"[", "]">>) \in Dumped
      /\ \A i \in 1..N : Item(2, v[i]) \in Dumped
  <2> HIDE DEF k, v
  <2> QED BY <1>4, LinesAreDumped
<1>6. CASE v = <<>>
  <2>  DEFINE l == Pair(0, k, <<"[", "]">>)
  <2>1. WriteThirdParty(c) = <<l>>
    BY <1>6 DEF WriteThirdParty
  <2>2. ReadNext(Outside(<<>>, <<>>, No), l) = Outside(<<>>, <<>>, No)
    BY NextOutside
  <2>3. Outside(<<>>, <<>>, No) \in T
    BY <1>6
  <2> HIDE DEF l, T
  <2>4. \A s \in {Reader} : ReadNext(s, l) \in T
    BY <1>1, <2>2, <2>3
  <2>5. ReadBack(<<l>>, {Reader}, T)
    BY <1>5, <2>4, OneReadBack DEF l
  <2> QED BY <2>1, <2>5 DEF T
<1>7. CASE v # <<>>
  <2>1. WriteThirdParty(c) = <<HeadAt(0, k)>> \o items
    BY <1>2, <1>7 DEF WriteThirdParty
  <2>2. items \in Seq(Dumped) /\ Len(items) = N /\ \A i \in 1..N : items[i] = Item(2, v[i])
    BY <1>2, <1>5
  <2>3. Q[0] = {Outside(<<>>, <<>>, Yes)} /\ Q[N] = {Outside(v, <<>>, Yes)}
    <3>1. 0 \in 0..N /\ N \in 0..N
      BY <1>2
    <3>2. Q[0] = {Outside(SubSeq(v, 1, 0), <<>>, Yes)}
          /\ Q[N] = {Outside(SubSeq(v, 1, N), <<>>, Yes)}
      BY <3>1
    <3> HIDE DEF v, Q, N
    <3> QED BY <1>2, <3>2
  <2>4. ASSUME NEW n \in 1..N, NEW t \in Q[n - 1] PROVE ReadNext(t, items[n]) \in Q[n]
    <3>1. n \in 0..N /\ n - 1 \in 0..N
      BY <1>2
    <3>2. t = Outside(SubSeq(v, 1, n - 1), <<>>, Yes)
          /\ Q[n] = {Outside(SubSeq(v, 1, n), <<>>, Yes)}
      BY <2>4, <3>1
    <3>3. items[n] = Item(2, v[n])
      BY <2>2
    <3>4. ReadNext(t, Item(2, v[n])) = Outside(Append(SubSeq(v, 1, n - 1), v[n]), <<>>, Yes)
      BY <3>2, NextThirdParty
    <3> HIDE DEF items, Q, v, N
    <3> QED BY <1>3, <3>2, <3>3, <3>4
  <2>5. ReadNext(Outside(<<>>, <<>>, No), HeadAt(0, k)) = Outside(<<>>, <<>>, Yes)
    BY NextOutside
  <2>6. ReadBack(<<HeadAt(0, k)>>, {Reader}, Q[0])
    <3> HIDE DEF Q
    <3>1. \A s \in {Reader} : ReadNext(s, HeadAt(0, k)) \in Q[0]
      BY <1>1, <2>3, <2>5
    <3> HIDE DEF k
    <3> QED BY <1>5, <3>1, OneReadBack
  <2>7. ReadBack(items, Q[0], Q[N])
    <3>1. \A n \in 1..Len(items) : \A t \in Q[n - 1] : ReadNext(t, items[n]) \in Q[n]
      BY <2>2, <2>4
    <3> HIDE DEF items, Q, N
    <3>2. ASSUME NEW s \in Q[0] PROVE \E t \in Q[N] : Reads(s, items, t)
      <4>1. Len(items) \in Nat
        BY <1>2, <2>2
      <4>2. \E t \in Q[Len(items)] : Reads(s, items, t)
        BY <3>1, <4>1, ReadsEach, Zenon
      <4> QED BY <4>2, <2>2
    <3> QED BY <2>2, <3>2 DEF ReadBack
  <2>8. Q[N] \subseteq T
    <3> HIDE DEF Q
    <3> QED BY <2>3
  <2> HIDE DEF Q, items, T
  <2>9. ReadBack(<<HeadAt(0, k)>> \o items, {Reader}, Q[N])
    BY <2>6, <2>7, ReadBackBoth
  <2>10. ReadBack(<<HeadAt(0, k)>> \o items, {Reader}, T)
    BY <2>8, <2>9 DEF ReadBack
  <2> QED BY <2>1, <2>10 DEF T
<1> QED BY <1>6, <1>7

\* The lines before those of the rules.
LEMMA PreludeRead ==
    ASSUME NEW c, IsConfig(c), QuotedOnce(c)
    PROVE  ReadBack(WriteThirdParty(c)
                    \o (IF c.compileCommandsDir = <<>> THEN <<>>
                        ELSE << Pair(0, "compile_commands_dir", c.compileCommandsDir) >>)
                    \o << HeadAt(0, "rules") >>, {Reader}, Between(Part(c, {})))
<1>  DEFINE third == c.thirdPartyIncludes
            v == c.compileCommandsDir
            T == {Outside(third, <<>>, b) : b \in {Yes, No}}
            U == {Outside(third, v, b) : b \in {Yes, No}}
            dir == IF v = <<>> THEN <<>> ELSE << Pair(0, "compile_commands_dir", v) >>
            p == Begun(third, v)
<1>1. ReadBack(WriteThirdParty(c), {Reader}, T)
  BY ThirdPartyRead
<1>2. v \in Seq(STRING) /\ ~Quoted(v)
  BY DEF IsConfig, QuotedOnce
<1>3. ReadBack(dir, T, U)
  <2>1. CASE v = <<>>
    <3>1. dir = <<>> /\ T = U /\ <<>> \in Seq(Dumped)
      BY <2>1
    <3>2. \A s \in T : s \in U /\ Reads(s, <<>>, s)
      BY <3>1, ReadsNothing
    <3> HIDE DEF T, U, dir
    <3> QED BY <3>1, <3>2 DEF ReadBack
  <2>2. CASE v # <<>>
    <3>  DEFINE l == Pair(0, "compile_commands_dir", v)
    <3>1. dir = <<l>>
      BY <2>2
    <3>2. l \in Dumped
      <4>1. "compile_commands_dir" \in Names /\ v \in Given
        BY <1>2 DEF Names, Given
      <4> HIDE DEF v
      <4> QED BY <4>1, LinesAreDumped
    <3>3. \A b : ReadNext(Outside(third, <<>>, b), l) = Outside(third, v, No)
      <4> HIDE DEF v, third
      <4> QED BY <1>2, NextOutside
    <3> HIDE DEF l, v, third, dir
    <3>4. \A s \in T : ReadNext(s, l) \in U
      BY <3>3
    <3> HIDE DEF T, U
    <3> QED BY <3>1, <3>2, <3>4, OneReadBack
  <2> QED BY <2>1, <2>2
<1>4. ReadBack(<<HeadAt(0, "rules")>>, U, {Start(p)})
  <2>  DEFINE l == HeadAt(0, "rules")
  <2>1. l \in Dumped
    <3>1. "rules" \in Names
      BY DEF Names
    <3> QED BY <3>1, LinesAreDumped
  <2>2. \A b : ReadNext(Outside(third, v, b), l) = Start(p)
    BY NextOutside
  <2> HIDE DEF l, p, v, third
  <2>3. \A s \in U : ReadNext(s, l) \in {Start(p)}
    BY <2>2
  <2> HIDE DEF U
  <2>4. ReadBack(<<l>>, U, {Start(p)})
    BY <2>1, <2>3, OneReadBack
  <2> QED BY <2>4 DEF l
<1>5. p = Part(c, {})
  BY DEF Begun, Part, Config
<1>6. {Start(p)} \subseteq Between(Part(c, {}))
  <2> HIDE DEF p
  <2> QED BY <1>5 DEF Between
<1>  HIDE DEF T, U, dir, p
<1>7. ReadBack((WriteThirdParty(c) \o dir) \o <<HeadAt(0, "rules")>>, {Reader}, {Start(p)})
  BY <1>1, <1>3, <1>4, ReadBackBoth
<1>8. ReadBack((WriteThirdParty(c) \o dir)
          \o <<HeadAt(0, "rules")>>, {Reader}, Between(Part(c, {})))
  BY <1>6, <1>7 DEF ReadBack
<1> QED BY <1>8 DEF dir

-----------------------------------------------------------------------------
(* The whole file                                                          *)

\* The settings of the first rules that are written.
Done(n) == UNION {Among(Rule(i), Written[i][2], Len(Written[i][2])) : i \in 1..n}

\* The lines of the rules are read as the settings of all of them.
LEMMA RulesRead ==
    ASSUME NEW c, IsConfig(c), QuotedOnce(c)
    PROVE  ReadBack(FlattenSeq([i \in DOMAIN Written |-> WriteRule(c, Written[i][1],
               Written[i][2])]),
                    Between(Part(c, {})), Between(Part(c, Done(22))))
<1>  DEFINE ss == [i \in DOMAIN Written |-> WriteRule(c, Written[i][1], Written[i][2])]
            Q == [n \in 0..22 |-> Between(Part(c, Done(n)))]
<1>1. DOMAIN Written = 1..22
  BY WrittenAgrees
<1>2. ASSUME NEW i \in 1..22 PROVE ReadBack(ss[i], Q[i - 1], Q[i])
  <2>  DEFINE r == Rule(i)
              keys == Written[i][2]
              W == Done(i - 1)
  <2>1. r \in Rules /\ Agrees(r, keys) /\ (r = "restricted_malloc" => i = 13)
    BY WrittenAgrees
  <2>2. ASSUME NEW j \in 1..Len(keys), KindOf(r, keys[j]) = "list" PROVE <<r, keys[j]>> \notin W
    <3>1. r = "restricted_malloc"
      <4> HIDE DEF r, keys
      <4> QED BY <2>1, <2>2 DEF Agrees
    <3>2. \A m \in 1..(i - 1) : m \in 1..22 /\ m # 13
      BY <2>1, <3>1
    <3>3. \A m \in 1..(i - 1) : Rule(m) # r
      BY <3>1, <3>2, WrittenAgrees
    <3> HIDE DEF r, keys
    <3> QED BY <3>3 DEF Done, Among
  <2>3. ss[i] = WriteRule(c, r, keys)
    BY <1>1 DEF Rule
  <2>4. Q[i - 1] = Between(Part(c, W)) /\ Q[i] = Between(Part(c, Done(i)))
    OBVIOUS
  <2>5. Done(i) = W \cup Among(r, keys, Len(keys))
    <3>1. 1..i = (1..(i - 1)) \cup {i}
      OBVIOUS
    <3> QED BY <3>1 DEF Done
  <2> HIDE DEF ss, Q, W, r, keys
  <2>6. ReadBack(WriteRule(c, r, keys), Between(Part(c, W)),
            Between(Part(c, W \cup Among(r, keys, Len(keys)))))
    BY <2>1, <2>2, RuleRead
  <2> QED BY <2>3, <2>4, <2>5, <2>6
<1>3. DOMAIN ss = 1..22 /\ ss = [i \in 1..22 |-> ss[i]]
  BY <1>1
<1>4. Q[0] = Between(Part(c, {})) /\ Q[22] = Between(Part(c, Done(22)))
  <2>1. Done(0) = {}
    BY DEF Done
  <2>2. Q[0] = Between(Part(c, Done(0))) /\ Q[22] = Between(Part(c, Done(22)))
    OBVIOUS
  <2> QED BY <2>1, <2>2
<1>  HIDE DEF ss, Q
<1>5. ReadBack(FlattenSeq(ss), Q[0], Q[22])
  BY <1>2, <1>3, PartsReadBack
<1> QED BY <1>4, <1>5 DEF ss

\* After the lines of all rules the whole of c was read.
LEMMA AllOfIt ==
    ASSUME NEW c, IsConfig(c), NoLegacySettings(c)
    PROVE  Part(c, Done(22)) = c
<1>  DEFINE V == Done(22)
<1>1. ASSUME NEW r \in Rules, NEW k \in DOMAIN Settings[r], <<r, k>> \notin V
      PROVE  c.rules[r][k] = Default(r, k)
  <2>1. PICK i \in 1..22 : Rule(i) = r
    BY WrittenAgrees
  <2>2. Agrees(r, Written[i][2])
    BY <2>1, WrittenAgrees
  <2>3. ASSUME KindOf(r, k) # "legacy" PROVE FALSE
    <3>1. PICK j \in 1..Len(Written[i][2]) : Written[i][2][j] = k
      BY <2>2, <2>3 DEF Agrees
    <3>2. <<r, k>> \in Among(r, Written[i][2], Len(Written[i][2]))
      BY <3>1 DEF Among
    <3>3. <<r, k>> \in V
      BY <2>1, <3>2 DEF Done
    <3> QED BY <1>1, <3>3
  <2>4. KindOf(r, k) = "legacy"
    BY <2>3
  <2>5. r = "global_variable"
    BY <2>2, <2>4 DEF Agrees
  <2>6. c.rules[r][k] = <<>>
    BY <2>4, <2>5 DEF NoLegacySettings
  <2> QED BY <2>4, <2>6 DEF Default
<1>  HIDE DEF V
<1>2. [r \in Rules |-> [k \in DOMAIN Settings[r] |->
          IF <<r, k>> \in V THEN c.rules[r][k] ELSE Default(r, k)]]
      = [r \in Rules |-> [k \in DOMAIN Settings[r] |-> c.rules[r][k]]]
  <2>1. ASSUME NEW r \in Rules
        PROVE  [k \in DOMAIN Settings[r] |->
                   IF <<r, k>> \in V THEN c.rules[r][k] ELSE Default(r, k)]
               = [k \in DOMAIN Settings[r] |-> c.rules[r][k]]
    BY <1>1
  <2> QED BY <2>1
<1>3. c.rules = [r \in Rules |-> [k \in DOMAIN Settings[r] |-> c.rules[r][k]]]
      /\ c = [rules |-> c.rules, thirdPartyIncludes |-> c.thirdPartyIncludes,
              compileCommandsDir |-> c.compileCommandsDir]
  BY DEF IsConfig
<1> QED BY <1>2, <1>3 DEF Part, V

\* The config that is written is the one that is read.
LEMMA ConfigRead ==
    ASSUME NEW c, IsConfig(c), QuotedOnce(c), NoLegacySettings(c)
    PROVE  LoadFromStream(WriteConfig(c)) = c
<1>  DEFINE prelude == WriteThirdParty(c)
                \o (IF c.compileCommandsDir = <<>> THEN <<>>
                    ELSE << Pair(0, "compile_commands_dir", c.compileCommandsDir) >>)
                \o << HeadAt(0, "rules") >>
            rules == FlattenSeq([i \in DOMAIN Written |->
                                   WriteRule(c, Written[i][1], Written[i][2])])
<1>1. ReadBack(prelude, {Reader}, Between(Part(c, {})))
  BY PreludeRead
<1>2. ReadBack(rules, Between(Part(c, {})), Between(c))
  BY RulesRead, AllOfIt
<1>3. WriteConfig(c) = prelude \o rules
  BY DEF WriteConfig
<1>  HIDE DEF prelude, rules
<1>4. ReadBack(prelude \o rules, {Reader}, Between(c))
  BY <1>1, <1>2, ReadBackBoth
<1>5. PICK t \in Between(c) : Reads(Reader, prelude \o rules, t)
  BY <1>4 DEF ReadBack
<1>6. t.config = c
  BY DEF Between, Start, InRule, At, State
<1>7. Len(prelude \o rules) \in Nat
  BY <1>4 DEF ReadBack
<1>8. LoadFromStream(prelude \o rules) = t.config
  BY <1>5, <1>7, LoadIs
<1> QED BY <1>3, <1>6, <1>8

-----------------------------------------------------------------------------
(* The dump                                                                *)

\* What was read is a config, and a dump is all that a run that dumps writes.
DumpInv ==
    /\ IsConfigured(options, world) /\ IsConfig(config)
    /\ pc # "exited" => stdout = <<>>
    /\ options.dumpConfig => pc \in {"arguments", "config", "dump", "exited"}
    /\ options.dumpConfig /\ stdout # <<>> => stdout = WriteConfig(config)

\* The overrides of the command line leave a config.
LEMMA OverridesGiveAConfig ==
    ASSUME IsConfigured(options, world), NEW c, IsConfig(c)
    PROVE  IsConfig(WithOverrides(c))
<1>  DEFINE third == (IF options.noConfigThirdPartyIncludes THEN <<>> ELSE c.thirdPartyIncludes)
                     \o options.thirdPartyIncludes
            d == [c EXCEPT !.thirdPartyIncludes = third]
            r == "prefix_namespace"
            k == "top_dir"
            v == IF options.prefixTopDir # <<>> THEN options.prefixTopDir ELSE d.rules[r][k]
<1>1. r \in Rules /\ k \in DOMAIN Settings[r] /\ KindOf(r, k) = "text"
  <2>1. r \in Rules /\ Settings[r] = PrefixNamespaceSettings
    BY DEF Rules, Settings
  <2> QED BY <2>1 DEF KindOf, PrefixNamespaceSettings, Level, Flags, Texts, Kind, ++
<1>2. third \in Seq(Seq(STRING))
  <2>1. c.thirdPartyIncludes \in Seq(Seq(STRING)) /\ options.thirdPartyIncludes \in Seq(Seq(STRING))
        /\ <<>> \in Seq(Seq(STRING))
    BY DEF IsConfig, IsConfigured
  <2>2. CASE options.noConfigThirdPartyIncludes
    <3>1. third = <<>> \o options.thirdPartyIncludes
      BY <2>2
    <3>2. <<>> \o options.thirdPartyIncludes \in Seq(Seq(STRING))
      BY <2>1
    <3> QED BY <3>1, <3>2
  <2>3. CASE ~options.noConfigThirdPartyIncludes
    <3>1. third = c.thirdPartyIncludes \o options.thirdPartyIncludes
      BY <2>3
    <3>2. c.thirdPartyIncludes \o options.thirdPartyIncludes \in Seq(Seq(STRING))
      BY <2>1
    <3> QED BY <3>1, <3>2
  <2> QED BY <2>2, <2>3
<1>3. IsConfig(d)
  <2> HIDE DEF third
  <2> QED BY <1>2, WithParts
<1>4. WithOverrides(c) = [d EXCEPT !.rules[r][k] = v]
  BY DEF WithOverrides, IsConfig
<1>  HIDE DEF d, r, k
<1>5. v \in Values(KindOf(r, k))
  BY <1>1, <1>3 DEF Values, IsConfig, IsConfigured
<1>  HIDE DEF v
<1>6. IsConfig(Put(d, r, k, v)) /\ [d EXCEPT !.rules[r][k] = v] = Put(d, r, k, v)
  BY <1>1, <1>3, <1>5, PutIs
<1> QED BY <1>4, <1>6

LEMMA DumpInit == Init => DumpInv
BY ConfigIs, InvocationAssumption DEF Init, DumpInv

LEMMA DumpStep == DumpInv /\ [Next]_vars => DumpInv'
<1> SUFFICES ASSUME DumpInv, [Next]_vars PROVE DumpInv'
  OBVIOUS
<1> USE DEF DumpInv
<1>1. IsConfigured(options, world)'
  <2>1. UNCHANGED <<options, world>>
    BY OptionsStay DEF vars
  <2> QED BY <2>1
<1>2. CASE Arguments
  BY <1>1, <1>2 DEF Arguments, Exit
<1>3. CASE LoadConfig
  <2>1. CASE ConfigPath \notin DOMAIN world.configs
    BY <1>1, <1>3, <2>1 DEF LoadConfig, Exit
  <2>2. CASE ConfigPath \in DOMAIN world.configs
    <3>  DEFINE lines == world.configs[ConfigPath]
    <3>1. lines \in Seq(ConfigLine)
      BY <2>2 DEF IsConfigured
    <3>  HIDE DEF lines
    <3>2. IsConfig(WithOverrides(LoadFromStream(lines)))
      BY <3>1, LinesGiveAConfig, OverridesGiveAConfig
    <3> QED BY <1>1, <1>3, <2>2, <3>2 DEF LoadConfig, lines
  <2> QED BY <2>1, <2>2
<1>4. CASE DumpConfig
  BY <1>1, <1>4 DEF DumpConfig, Exit
<1>5. CASE Validate
  BY <1>1, <1>5 DEF Validate, Exit
<1>6. CASE LocateDatabase
  BY <1>1, <1>6 DEF LocateDatabase, Exit
<1>7. CASE CollectInput
  BY <1>1, <1>7 DEF CollectInput, Exit
<1>8. CASE CollectSources
  BY <1>1, <1>8 DEF CollectSources, Exit
<1>9. CASE OpenOutputs
  BY <1>1, <1>9 DEF OpenOutputs, Exit
<1>10. CASE AnalyzeSource
  BY <1>1, <1>10 DEF AnalyzeSource
<1>11. CASE ReportFinding
  BY <1>1, <1>11 DEF ReportFinding
<1>12. CASE WriteOutputs
  BY <1>1, <1>12 DEF WriteOutputs, Exit
<1>13. CASE UNCHANGED vars
  BY <1>1, <1>13 DEF vars
<1> QED
  BY <1>2, <1>3, <1>4, <1>5, <1>6, <1>7, <1>8, <1>9, <1>10, <1>11, <1>12, <1>13 DEF Next

\* DumpedConfigIsTheConfig: whatever the configuration file holds, valid or not, and whatever
\* the command line overrides, the file that --dump-config writes is read back as the config.
THEOREM DumpIsReadBack == Spec => []DumpedConfigIsTheConfig
<1>1. DumpInv => DumpedConfigIsTheConfig
  <2> SUFFICES ASSUME DumpInv, pc = "exited", stdout # <<>>, options.dumpConfig,
                      NoLegacySettings(config), QuotedOnce(config)
               PROVE  LoadFromStream(stdout) = config
    BY DEF DumpedConfigIsTheConfig
  <2>1. stdout = WriteConfig(config) /\ IsConfig(config)
    BY DEF DumpInv
  <2> QED BY <2>1, ConfigRead
<1> QED
  BY <1>1, DumpInit, DumpStep, PTL DEF Spec
=============================================================================
