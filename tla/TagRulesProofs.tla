--------------------------- MODULE TagRulesProofs ---------------------------
(***************************************************************************)
(* The four tag rules are sound and give no false reports: for every unit  *)
(* with any number of functions and function pointers, for bindings and    *)
(* calls through conditionals of any number of branches, and for arguments *)
(* of any depth.  The first part is about arguments alone, the second      *)
(* about the tags of a declaration, the third has the two invariants.      *)
(***************************************************************************)
EXTENDS TagRules, WellFoundedInduction, TLAPS

-----------------------------------------------------------------------------
(* Numbers                                                                 *)

\* Among natural numbers there is a least one.
LEMMA HasLeast ==
    ASSUME NEW T \in SUBSET Nat, T # {}
    PROVE  \E m \in T : \A k \in T : m <= k
<1>1. PICK m \in T : \A k \in T : <<k, m>> \notin OpToRel(<, Nat)
  BY WFMin, NatLessThanWellFounded, Zenon
<1>2. \A k \in T : ~(k < m)
  BY <1>1, Zenon DEF OpToRel
<1> QED BY <1>2

\* And among those up to n a greatest one.
LEMMA HasGreatest ==
    ASSUME NEW n \in Nat, NEW T \in SUBSET (0..n), T # {}
    PROVE  \E m \in T : \A k \in T : k <= m
<1>  DEFINE U == {n - k : k \in T}
<1>1. U \in SUBSET Nat /\ U # {}
  OBVIOUS
<1>2. PICK u \in U : \A k \in U : u <= k
  <2> HIDE DEF U
  <2> QED BY <1>1, HasLeast
<1>3. PICK m \in T : u = n - m
  OBVIOUS
<1>4. \A k \in T : n - m <= n - k
  BY <1>2, <1>3
<1> QED BY <1>4

\* What holds of 0, and of the successor of each number below n of which it holds, holds up to n.
LEMMA UpTo ==
    ASSUME NEW n \in Nat, NEW S, 0 \in S, \A i \in S : i \in 0..(n - 1) => i + 1 \in S
    PROVE  0..n \subseteq S
<1>  DEFINE Missing == {i \in 0..n : i \notin S}
<1>1. SUFFICES ASSUME Missing # {} PROVE FALSE
  OBVIOUS
<1>2. PICK m \in Missing : \A k \in Missing : m <= k
  <2>1. Missing \in SUBSET Nat
    OBVIOUS
  <2> HIDE DEF Missing
  <2> QED BY <1>1, <2>1, HasLeast
<1>3. m # 0 /\ m - 1 \in 0..(n - 1) /\ m - 1 \notin Missing
  BY <1>2
<1>4. m - 1 \in S
  BY <1>3
<1>5. (m - 1) + 1 = m
  OBVIOUS
<1> QED BY <1>3, <1>4, <1>5

-----------------------------------------------------------------------------
(* Arguments                                                               *)

\* stripWrappers ends at a subexpression that is no cast, below casts only.
LEMMA Stripped ==
    ASSUME NEW e \in Argument, NEW n \in 0..Len(e.ops)
    PROVE  /\ StripWrappers(e, n) \in 0..n
           /\ Outermost(e, StripWrappers(e, n)) # "cast"
           /\ \A i \in (StripWrappers(e, n) + 1)..n : e.ops[i] = "cast"
<1>  DEFINE T == {k \in 0..n : Outermost(e, k) # "cast"}
<1>1. 0 \in T
  BY DEF Outermost, Argument
<1>2. PICK m \in T : \A k \in T : k <= m
  <2>1. T \in SUBSET (0..n) /\ T # {} /\ n \in Nat
    BY <1>1
  <2> HIDE DEF T
  <2> QED BY <2>1, HasGreatest
<1>3. \A i \in (m + 1)..n : e.ops[i] = "cast"
  BY <1>2 DEF Outermost
<1>4. \E k \in 0..n : Outermost(e, k) # "cast" /\ \A i \in (k + 1)..n : e.ops[i] = "cast"
  BY <1>2, <1>3
<1> QED BY <1>4, Zenon DEF StripWrappers

\* Only one subexpression is like that.
LEMMA StrippedOnce ==
    ASSUME NEW e \in Argument, NEW n \in 0..Len(e.ops), NEW k \in 0..n,
           Outermost(e, k) # "cast", \A i \in (k + 1)..n : e.ops[i] = "cast"
    PROVE  StripWrappers(e, n) = k
<1> DEFINE m == StripWrappers(e, n)
<1>1. m \in 0..n /\ Outermost(e, m) # "cast" /\ \A i \in (m + 1)..n : e.ops[i] = "cast"
  BY Stripped
<1> HIDE DEF m
<1>2. ~(m < k) /\ ~(k < m)
  BY <1>1 DEF Outermost
<1>3. m = k
  BY <1>1, <1>2
<1> QED BY <1>3 DEF m

\* What is known of an argument is known from the inside out.
LEMMA ValuesStep ==
    ASSUME NEW e \in Argument, NEW nonNull
    PROVE  /\ Values(e, nonNull)[0] = OfBase(e, nonNull)
           /\ \A n \in 1..Len(e.ops) :
                 Values(e, nonNull)[n] = Apply(e, n, Values(e, nonNull)[n - 1])
<1>  DEFINE N == Len(e.ops)
            Is(v, n) == v = [i \in 0..n |-> IF i = 0 THEN OfBase(e, nonNull) ELSE Apply(e, i, v[i - 1])]
            S == {n \in 0..N : \E v : Is(v, n)}
<1>0. N \in Nat
  BY DEF Argument
<1>1. 0 \in S
  <2>1. Is([i \in 0..0 |-> OfBase(e, nonNull)], 0)
    OBVIOUS
  <2> HIDE DEF Is
  <2> QED BY <1>0, <2>1
<1>2. ASSUME NEW n \in S, n \in 0..(N - 1) PROVE n + 1 \in S
  <2>1. PICK v : Is(v, n)
    OBVIOUS
  <2>  DEFINE w == [i \in 0..(n + 1) |-> IF i = n + 1 THEN Apply(e, n + 1, v[n]) ELSE v[i]]
  <2>2. \A i \in 0..n : w[i] = v[i]
    OBVIOUS
  <2>3. \A i \in 0..n : v[i] = IF i = 0 THEN OfBase(e, nonNull) ELSE Apply(e, i, v[i - 1])
    BY <2>1
  <2>4. ASSUME NEW i \in 0..(n + 1)
        PROVE  w[i] = IF i = 0 THEN OfBase(e, nonNull) ELSE Apply(e, i, w[i - 1])
    <3>1. CASE i = n + 1
      <4>1. w[i] = Apply(e, n + 1, v[n]) /\ w[i - 1] = v[n] /\ i # 0
        BY <3>1, <2>2
      <4> QED BY <3>1, <4>1
    <3>2. CASE i \in 0..n
      <4>1. w[i] = v[i] /\ (i # 0 => w[i - 1] = v[i - 1])
        BY <3>2, <2>2
      <4> HIDE DEF w
      <4> QED BY <3>2, <4>1, <2>3
    <3> QED BY <3>1, <3>2
  <2>5. w = [i \in 0..(n + 1) |-> w[i]]
    OBVIOUS
  <2>6. Is(w, n + 1)
    <3> HIDE DEF w
    <3> QED BY <2>4, <2>5
  <2> HIDE DEF w, Is
  <2> QED BY <1>0, <1>2, <2>6
<1>3. N \in S
  <2> HIDE DEF S
  <2>1. 0..N \subseteq S
    BY <1>0, <1>1, <1>2, UpTo
  <2> QED BY <1>0, <2>1
<1>4. Is(Values(e, nonNull), N)
  BY <1>3, Zenon DEF Values
<1>5. \A i \in 0..N : Values(e, nonNull)[i]
                        = IF i = 0 THEN OfBase(e, nonNull) ELSE Apply(e, i, Values(e, nonNull)[i - 1])
  BY <1>4
<1> QED BY <1>0, <1>5

\* A cast has the value of what it casts.
LEMMA CastsKeepTheValue ==
    ASSUME NEW e \in Argument, NEW nonNull, NEW n \in 0..Len(e.ops)
    PROVE  "points" \in Values(e, nonNull)[n] <=> "points" \in Values(e, nonNull)[StripWrappers(e, n)]
<1>  DEFINE k == StripWrappers(e, n)
            V == Values(e, nonNull)
            S == {i \in 0..n : i >= k => ("points" \in V[i] <=> "points" \in V[k])}
<1>0. n \in Nat /\ Len(e.ops) \in Nat
  BY DEF Argument
<1>1. k \in 0..n /\ \A i \in (k + 1)..n : e.ops[i] = "cast"
  BY Stripped
<1>2. \A i \in 1..Len(e.ops) : V[i] = Apply(e, i, V[i - 1])
  BY ValuesStep
<1>  HIDE DEF k, V
<1>3. 0 \in S
  BY <1>0, <1>1
<1>4. ASSUME NEW i \in S, i \in 0..(n - 1) PROVE i + 1 \in S
  <2>1. CASE i + 1 <= k
    BY <2>1, <1>1, <1>4
  <2>2. CASE i + 1 > k
    <3>1. e.ops[i + 1] = "cast" /\ V[i + 1] = Apply(e, i + 1, V[i])
      BY <2>2, <1>0, <1>1, <1>2, <1>4
    <3>2. "points" \in V[i + 1] <=> "points" \in V[i]
      BY <3>1 DEF Apply
    <3> QED BY <2>2, <3>2, <1>0, <1>1, <1>4
  <2> QED BY <2>1, <2>2, <1>1, <1>4
<1>5. n \in S
  <2> HIDE DEF S
  <2>1. 0..n \subseteq S
    BY <1>0, <1>3, <1>4, UpTo
  <2> QED BY <1>0, <2>1
<1>6. "points" \in V[n] <=> "points" \in V[k]
  BY <1>1, <1>5
<1> QED BY <1>6 DEF V, k

\* A reference is not null while it points to an object.
LEMMA ReferencesAreNotNull ==
    ASSUME NEW e \in Argument, NEW ref \in BOOLEAN, NEW n \in 0..Len(e.ops), IsReference(e, n, ref)
    PROVE  "points" \in Values(e, ref)[n]
<1>1. StripWrappers(e, n) = 0 /\ e.base = "param" /\ ref
  BY DEF IsReference
<1>2. Values(e, ref)[0] = OfBase(e, ref)
  BY ValuesStep
<1>3. "points" \in Values(e, ref)[0]
  BY <1>1, <1>2 DEF OfBase
<1> QED BY <1>1, <1>3, CastsKeepTheValue

\* What isObject accepts exists in every execution in which references are not null.
LEMMA ObjectsExist ==
    ASSUME NEW e \in Argument, NEW ref \in BOOLEAN, NEW n \in 0..Len(e.ops), IsObject(e, n, ref)
    PROVE  "exists" \in Values(e, ref)[n]
<1>  DEFINE V == Values(e, ref)
<1>0. n \in Nat /\ Len(e.ops) \in Nat
  BY DEF Argument
<1>1. PICK k \in 0..n :
        /\ \/ k = 0 /\ e.base # "null"
           \/ k > 0 /\ e.ops[k] \in {"arrow", "deref"} /\ IsReference(e, k - 1, ref)
        /\ \A i \in (k + 1)..n : e.ops[i] = "dot" \/ (e.ops[i] = "index" /\ IsArray(e, i - 1))
  BY DEF IsObject
<1>2. V[0] = OfBase(e, ref) /\ \A i \in 1..Len(e.ops) : V[i] = Apply(e, i, V[i - 1])
  BY ValuesStep
<1>3. "exists" \in V[k]
  <2>1. CASE k = 0
    BY <2>1, <1>1, <1>2 DEF OfBase
  <2>2. CASE k > 0
    <3>1. k - 1 \in 0..Len(e.ops) /\ k \in 1..Len(e.ops)
      BY <2>2, <1>0
    <3>2. "points" \in V[k - 1]
      BY <2>2, <3>1, <1>1, ReferencesAreNotNull
    <3> HIDE DEF V
    <3> QED BY <2>2, <3>1, <3>2, <1>1, <1>2 DEF Apply
  <2> QED BY <2>1, <2>2, <1>0
<1>  HIDE DEF V
<1>  DEFINE S == {i \in 0..n : i >= k => "exists" \in V[i]}
<1>4. 0 \in S
  BY <1>0, <1>3
<1>5. ASSUME NEW i \in S, i \in 0..(n - 1) PROVE i + 1 \in S
  <2>1. CASE i + 1 <= k
    BY <2>1, <1>3, <1>5
  <2>2. CASE i + 1 > k
    <3>1. i + 1 \in (k + 1)..n /\ i + 1 \in 1..Len(e.ops) /\ (i + 1) - 1 = i
      BY <2>2, <1>0, <1>5
    <3>2. V[i + 1] = Apply(e, i + 1, V[i]) /\ "exists" \in V[i]
      BY <2>2, <3>1, <1>0, <1>2, <1>5
    <3>3. e.ops[i + 1] = "dot" \/ (e.ops[i + 1] = "index" /\ IsArray(e, (i + 1) - 1))
      BY <3>1, <1>1
    <3>4. "exists" \in V[i + 1]
      BY <3>2, <3>3 DEF Apply
    <3> QED BY <3>4, <1>5
  <2> QED BY <2>1, <2>2, <1>0, <1>5
<1>6. n \in S
  <2> HIDE DEF S
  <2>1. 0..n \subseteq S
    BY <1>0, <1>4, <1>5, UpTo
  <2> QED BY <1>0, <2>1
<1> QED BY <1>6 DEF V

\* An argument that ReferencePointerRule accepts for a reference is not null.
LEMMA ValidIsNotNull ==
    ASSUME NEW e \in Argument, NEW ref \in BOOLEAN, IsValidArgument(e, ref)
    PROVE  ~Null(e, ref)
<1>  DEFINE N == Len(e.ops)
            n == StripWrappers(e, N)
            V == Values(e, ref)
<1>0. N \in Nat /\ N \in 0..Len(e.ops) /\ n \in 0..N
  <2>1. N \in Nat /\ N \in 0..Len(e.ops)
    BY DEF Argument
  <2> QED BY <2>1, Stripped
<1>1. "points" \in V[N] <=> "points" \in V[n]
  BY <1>0, CastsKeepTheValue
<1>2. \A i \in 1..N : V[i] = Apply(e, i, V[i - 1])
  BY ValuesStep
<1>3. \/ IsReference(e, n, ref)
      \/ Outermost(e, n) = "address" /\ IsObject(e, n - 1, ref)
      \/ IsArray(e, n) /\ IsObject(e, n, ref)
  BY DEF IsValidArgument
<1>4. CASE IsReference(e, n, ref)
  BY <1>0, <1>1, <1>4, ReferencesAreNotNull DEF Null
<1>5. CASE Outermost(e, n) = "address" /\ IsObject(e, n - 1, ref)
  <2>1. n # 0 /\ e.ops[n] = "address"
    BY <1>5 DEF Outermost, Argument
  <2>2. n \in 1..N /\ n - 1 \in 0..Len(e.ops)
    BY <2>1, <1>0
  <2>3. "exists" \in V[n - 1]
    BY <2>2, <1>5, ObjectsExist
  <2> HIDE DEF V, n
  <2>4. "points" \in V[n]
    BY <2>1, <2>2, <2>3, <1>2 DEF Apply
  <2> QED BY <2>4, <1>1 DEF Null, V
<1>6. CASE IsArray(e, n) /\ IsObject(e, n, ref)
  <2>1. "exists" \in V[n]
    BY <1>0, <1>6, ObjectsExist
  <2>2. V[0] = OfBase(e, ref)
    BY ValuesStep
  <2> HIDE DEF V, n
  <2>3. CASE n = 0
    <3>1. "points" \in V[n]
      BY <2>2, <2>3, <1>6 DEF IsArray, Outermost, OfBase, Argument
    <3> QED BY <3>1, <1>1 DEF Null, V
  <2>4. CASE n # 0
    <3>1. n \in 1..N /\ e.ops[n] \in {"array", "arrow", "dot"} /\ e.ops[n] # "array"
      BY <2>4, <1>0, <1>6 DEF IsArray, Outermost, Argument
    <3>2. V[n] = Apply(e, n, V[n - 1])
      BY <3>1, <1>2
    <3>3. "points" \in V[n]
      BY <2>1, <3>1, <3>2 DEF Apply
    <3> QED BY <3>3, <1>1 DEF Null, V
  <2> QED BY <2>3, <2>4
<1> QED BY <1>3, <1>4, <1>5, <1>6

\* In an argument that follows no pointers but the parameter and local ones, isObject accepts
\* everything that certainly exists.
LEMMA ExistingAreObjects ==
    ASSUME NEW e \in Argument, PlainArgument(e), NEW ref \in BOOLEAN, NEW n \in 0..Len(e.ops),
           "exists" \in Values(e, ref)[n]
    PROVE  IsObject(e, n, ref)
<1>  DEFINE V == Values(e, ref)
            S == {i \in 0..Len(e.ops) : "exists" \in V[i] => IsObject(e, i, ref)}
<1>0. Len(e.ops) \in Nat
  BY DEF Argument
<1>1. V[0] = OfBase(e, ref) /\ \A i \in 1..Len(e.ops) : V[i] = Apply(e, i, V[i - 1])
  BY ValuesStep
<1>2. 0 \in S
  <2>1. "exists" \in V[0] => e.base # "null"
    BY <1>1 DEF OfBase
  <2>2. e.base # "null" => IsObject(e, 0, ref)
    BY DEF IsObject
  <2> HIDE DEF V
  <2> QED BY <1>0, <2>1, <2>2
<1>3. ASSUME NEW i \in S, i \in 0..(Len(e.ops) - 1) PROVE i + 1 \in S
  <2>0. i + 1 \in 1..Len(e.ops) /\ (i + 1) - 1 = i /\ i \in 0..Len(e.ops)
    BY <1>0, <1>3
  <2>1. SUFFICES ASSUME "exists" \in V[i + 1] PROVE IsObject(e, i + 1, ref)
    BY <2>0
  <2>2. V[i + 1] = Apply(e, i + 1, V[i])
    BY <1>1, <2>0
  <2>  HIDE DEF V
  <2>3. \/ e.ops[i + 1] \in {"arrow", "deref"} /\ "points" \in V[i]
        \/ /\ e.ops[i + 1] = "dot" \/ (e.ops[i + 1] = "index" /\ IsArray(e, i))
           /\ "exists" \in V[i]
    BY <2>0, <2>1, <2>2 DEF Apply
  <2>4. CASE e.ops[i + 1] \in {"arrow", "deref"} /\ "points" \in V[i]
    <3>1. StripWrappers(e, i) = 0 /\ e.base # "array"
      BY <2>0, <2>4 DEF PlainArgument, Argument
    <3>2. "points" \in V[0]
      BY <2>0, <2>4, <3>1, CastsKeepTheValue DEF V
    <3>3. IsReference(e, i, ref)
      BY <1>1, <3>1, <3>2 DEF OfBase, IsReference
    <3> QED BY <2>0, <2>4, <3>3 DEF IsObject
  <2>5. CASE /\ e.ops[i + 1] = "dot" \/ (e.ops[i + 1] = "index" /\ IsArray(e, i))
             /\ "exists" \in V[i]
    <3>1. IsObject(e, i, ref)
      BY <1>3, <2>5 DEF V
    <3>2. PICK k \in 0..i :
            /\ \/ k = 0 /\ e.base # "null"
               \/ k > 0 /\ e.ops[k] \in {"arrow", "deref"} /\ IsReference(e, k - 1, ref)
            /\ \A j \in (k + 1)..i : e.ops[j] = "dot" \/ (e.ops[j] = "index" /\ IsArray(e, j - 1))
      BY <3>1 DEF IsObject
    <3>3. ASSUME NEW j \in (k + 1)..(i + 1)
          PROVE  e.ops[j] = "dot" \/ (e.ops[j] = "index" /\ IsArray(e, j - 1))
      <4>1. CASE j = i + 1
        BY <2>0, <2>5, <4>1
      <4>2. CASE j \in (k + 1)..i
        BY <3>2, <4>2
      <4> QED BY <4>1, <4>2, <2>0
    <3>4. k \in 0..(i + 1)
      BY <2>0
    <3> QED BY <3>2, <3>3, <3>4 DEF IsObject
  <2> QED BY <2>3, <2>4, <2>5
<1>4. n \in S
  <2> HIDE DEF S
  <2> QED BY <1>0, <1>2, <1>3, UpTo
<1> QED BY <1>4

\* And ReferencePointerRule accepts whatever is certainly not null.
LEMMA NotNullIsValid ==
    ASSUME NEW e \in Argument, PlainArgument(e), NEW ref \in BOOLEAN, ~Null(e, ref)
    PROVE  IsValidArgument(e, ref)
<1>  DEFINE N == Len(e.ops)
            n == StripWrappers(e, N)
            V == Values(e, ref)
<1>0. N \in Nat /\ N \in 0..Len(e.ops)
  BY DEF Argument
<1>1. n \in 0..N /\ Outermost(e, n) # "cast"
  BY <1>0, Stripped
<1>2. "points" \in V[n]
  BY <1>0, CastsKeepTheValue DEF Null
<1>3. V[0] = OfBase(e, ref) /\ \A i \in 1..N : V[i] = Apply(e, i, V[i - 1])
  BY ValuesStep
<1>4. StripWrappers(e, n) = n
  BY <1>0, <1>1, StrippedOnce
<1>  HIDE DEF V, n
<1>5. CASE n = 0
  <2>1. e.base = "array" \/ (e.base = "param" /\ ref)
    BY <1>2, <1>3, <1>5 DEF OfBase
  <2>2. e.base = "array" => IsArray(e, n) /\ IsObject(e, n, ref)
    BY <1>5 DEF IsArray, Outermost, IsObject
  <2>3. e.base = "param" /\ ref => IsReference(e, n, ref)
    BY <1>4, <1>5 DEF IsReference
  <2> QED BY <2>1, <2>2, <2>3 DEF IsValidArgument, n
<1>6. CASE n # 0
  <2>1. n \in 1..N /\ n - 1 \in 0..Len(e.ops) /\ n \in 0..Len(e.ops) /\ e.ops[n] # "cast"
    BY <1>0, <1>1, <1>6 DEF Outermost
  <2>2. V[n] = Apply(e, n, V[n - 1])
    BY <1>3, <2>1
  <2>3. \/ e.ops[n] = "address" /\ "exists" \in V[n - 1]
        \/ e.ops[n] \in {"arrow", "dot"} /\ "exists" \in V[n]
    BY <1>2, <2>1, <2>2 DEF Apply
  <2>4. \/ e.ops[n] = "address" /\ IsObject(e, n - 1, ref)
        \/ e.ops[n] \in {"arrow", "dot"} /\ IsObject(e, n, ref)
    BY <2>1, <2>3, ExistingAreObjects DEF V
  <2>5. \/ Outermost(e, n) = "address" /\ IsObject(e, n - 1, ref)
        \/ IsArray(e, n) /\ IsObject(e, n, ref)
    BY <1>6, <2>4 DEF Outermost, IsArray
  <2> QED BY <2>5 DEF IsValidArgument, n
<1> QED BY <1>5, <1>6

\* What the check of moves takes for the parameter, or what it points to, is that.
LEMMA MovedParameter ==
    ASSUME NEW arg \in Argument
    PROVE  GivesParameter(arg) <=>
             LET n == StripWrappers(arg, Len(arg.ops))
             IN  /\ arg.base = "param"
                 /\ n = 0 \/ (arg.ops[n] = "deref" /\ StripWrappers(arg, n - 1) = 0)
<1>  DEFINE N == Len(arg.ops)
            n == StripWrappers(arg, N)
            rest == {i \in DOMAIN arg.ops : arg.ops[i] # "cast"}
<1>0. N \in Nat /\ N \in 0..Len(arg.ops) /\ DOMAIN arg.ops = 1..N
  BY DEF Argument
<1>1. n \in 0..N /\ Outermost(arg, n) # "cast" /\ \A i \in (n + 1)..N : arg.ops[i] = "cast"
  BY <1>0, Stripped
<1>2. SUFFICES (\A i \in rest : arg.ops[i] = "deref" /\ rest = {i})
                 <=> (n = 0 \/ (arg.ops[n] = "deref" /\ StripWrappers(arg, n - 1) = 0))
  BY DEF GivesParameter
<1>  HIDE DEF n
<1>3. CASE n = 0
  <2>1. rest = {}
    BY <1>0, <1>1, <1>3
  <2> QED BY <1>3, <2>1
<1>4. CASE n # 0
  <2>1. n \in rest /\ n - 1 \in 0..Len(arg.ops)
    BY <1>0, <1>1, <1>4 DEF Outermost
  <2>2. ASSUME StripWrappers(arg, n - 1) = 0 PROVE rest = {n}
    <3>1. \A i \in 1..(n - 1) : arg.ops[i] = "cast"
      BY <2>1, <2>2, Stripped
    <3> QED BY <1>0, <1>1, <2>1, <3>1
  <2>3. ASSUME rest = {n} PROVE StripWrappers(arg, n - 1) = 0
    <3>1. \A i \in 1..(n - 1) : arg.ops[i] = "cast"
      BY <1>0, <1>1, <2>3
    <3>2. Outermost(arg, 0) # "cast" /\ 0 \in 0..(n - 1)
      BY <2>1 DEF Outermost, Argument
    <3> QED BY <2>1, <3>1, <3>2, StrippedOnce
  <2> HIDE DEF rest
  <2> QED BY <1>4, <2>1, <2>2, <2>3
<1> QED BY <1>3, <1>4

-----------------------------------------------------------------------------
(* Tags of declarations                                                    *)

Sig == [tag : Tag, ref : BOOLEAN]

\* Two signatures are the same when nothing is reported of them.
LEMMA MismatchTellsApart ==
    ASSUME NEW s \in Sig, NEW t \in Sig
    PROVE  Mismatch(s, t) = {} <=> s = t
<1>1. Mismatch(s, t) = {} <=> s.tag = t.tag /\ s.ref = t.ref
  BY DEF Mismatch
<1>2. s.tag = t.tag /\ s.ref = t.ref <=> s = t
  BY DEF Sig
<1> QED BY <1>1, <1>2

\* The declarations of a function, and its definition.
LEMMA DeclarationTypes ==
    ASSUME unit \in Units, NEW f \in Function
    PROVE  /\ \A j \in DOMAIN Decls(f) : Decls(f)[j].tag \in Tag /\ Decls(f)[j].ref \in BOOLEAN
           /\ Len(Decls(f)) \in Nat \ {0} /\ DOMAIN Decls(f) = 1..Len(Decls(f))
           /\ Definition(f) \in DOMAIN Decls(f)
           /\ \A j \in DOMAIN Decls(f) : Decls(f)[j].defines <=> j = Definition(f)
           /\ unit.const[f] \in BOOLEAN
<1>1. /\ Decls(f) \in Seq([tag : Tag, ref : BOOLEAN, defines : BOOLEAN, spelling : Spelling])
      /\ unit.const[f] \in BOOLEAN
  <2>  DEFINE D == [tag : Tag, ref : BOOLEAN, defines : BOOLEAN, spelling : Spelling]
              S == Seq(D)
  <2>1. unit.decls \in [Function -> S] /\ unit.const \in [Function -> BOOLEAN]
    BY UnitsAssumption
  <2>2. unit.decls[f] \in S /\ unit.const[f] \in BOOLEAN
    <3> HIDE DEF S
    <3> QED BY <2>1
  <2> QED BY <2>2 DEF Decls
<1>2. PICK i \in DOMAIN Decls(f) : \A j \in DOMAIN Decls(f) : Decls(f)[j].defines <=> j = i
  BY UnitsAssumption DEF Decls
<1>3. Definition(f) \in DOMAIN Decls(f) /\ Decls(f)[Definition(f)].defines
  <2>1. \E k \in DOMAIN Decls(f) : Decls(f)[k].defines
    BY <1>2
  <2> QED BY <2>1, Zenon DEF Definition
<1>4. Definition(f) = i
  BY <1>2, <1>3
<1>5. DOMAIN Decls(f) = 1..Len(Decls(f)) /\ Len(Decls(f)) \in Nat
  BY <1>1
<1>6. ASSUME NEW j \in DOMAIN Decls(f) PROVE Decls(f)[j].tag \in Tag /\ Decls(f)[j].ref \in BOOLEAN
  <2>  DEFINE R == [tag : Tag, ref : BOOLEAN, defines : BOOLEAN, spelling : Spelling]
  <2>1. j \in 1..Len(Decls(f)) /\ Decls(f) \in Seq(R)
    BY <1>1, <1>5
  <2>2. Decls(f)[j] \in R
    <3> HIDE DEF R
    <3> QED BY <2>1
  <2> QED BY <2>2
<1>7. Len(Decls(f)) \in Nat \ {0}
  BY <1>2, <1>5
<1>8. \A j \in DOMAIN Decls(f) : Decls(f)[j].defines <=> j = Definition(f)
  BY <1>2, <1>4
<1> QED BY <1>1, <1>3, <1>5, <1>6, <1>7, <1>8

\* What a declaration is known by.
LEMMA KeyTypes ==
    ASSUME unit \in Units, NEW f \in Function
    PROVE  \A j \in DOMAIN Decls(f) : /\ Decls(f)[j].spelling \in Spelling
                                      /\ MakeKey(f, j) \in Function \X Spelling
<1>1. Decls(f) \in Seq([tag : Tag, ref : BOOLEAN, defines : BOOLEAN, spelling : Spelling])
  BY UnitsAssumption DEF Decls
<1>2. SUFFICES ASSUME NEW j \in DOMAIN Decls(f)
               PROVE  Decls(f)[j].spelling \in Spelling /\ MakeKey(f, j) \in Function \X Spelling
  OBVIOUS
<1>3. Decls(f)[j].spelling \in Spelling
  <2>  DEFINE R == [tag : Tag, ref : BOOLEAN, defines : BOOLEAN, spelling : Spelling]
  <2>1. Decls(f)[j] \in R
    <3>1. Decls(f) \in Seq(R)
      BY <1>1
    <3> HIDE DEF R
    <3> QED BY <3>1
  <2> QED BY <2>1
<1> QED BY <1>3 DEF MakeKey

\* Both ways to read a parameter's annotations find one of those that it has.
LEMMA ReadTags ==
    ASSUME unit \in Units, NEW f \in Function, NEW i \in DOMAIN Decls(f), Annotated(f, i) # {}
    PROVE  /\ \E k \in Annotated(f, i) : GetParamTag(f, i) = Decls(f)[k].tag
           /\ \E k \in Annotated(f, i) : ~unit.const[f] => TagOfDeclaration(f, i) = Decls(f)[k].tag
<1>0. i \in Nat /\ Annotated(f, i) \in SUBSET (0..i) /\ Annotated(f, i) \in SUBSET Nat
  BY DeclarationTypes DEF Annotated
<1>1. Min(Annotated(f, i)) \in Annotated(f, i)
  <2>1. \E m \in Annotated(f, i) : \A k \in Annotated(f, i) : m <= k
    BY <1>0, HasLeast
  <2> QED BY <2>1, Zenon DEF Min
<1>2. Max(Annotated(f, i)) \in Annotated(f, i)
  <2>1. \E m \in Annotated(f, i) : \A k \in Annotated(f, i) : k <= m
    BY <1>0, HasGreatest
  <2>2. \E m \in Annotated(f, i) : \A k \in Annotated(f, i) : m >= k
    BY <1>0, <2>1
  <2> QED BY <2>2, Zenon DEF Max
<1> QED BY <1>1, <1>2 DEF GetParamTag, TagOfDeclaration

\* Tags are tags.
LEMMA TagTypes ==
    ASSUME unit \in Units, NEW f \in Function, NEW i \in DOMAIN Decls(f)
    PROVE  /\ GetParamTag(f, i) \in Tag /\ TagOfDeclaration(f, i) \in Tag
           /\ MovementTagOf(f, i) \in Tag /\ Signature(f, i) \in Sig
<1>1. ASSUME NEW j \in DOMAIN Decls(f)
      PROVE  GetParamTag(f, j) \in Tag /\ TagOfDeclaration(f, j) \in Tag
  <2>1. CASE Annotated(f, j) = {}
    BY <2>1 DEF GetParamTag, TagOfDeclaration, Tag
  <2>2. CASE Annotated(f, j) # {}
    <3>1. \A k \in Annotated(f, j) : Decls(f)[k].tag \in Tag
      BY DeclarationTypes DEF Annotated
    <3>2. unit.const[f] => TagOfDeclaration(f, j) = None
      BY DEF TagOfDeclaration
    <3> QED BY <2>2, <3>1, <3>2, ReadTags DEF Tag
  <2> QED BY <2>1, <2>2
<1>2. MovementTagOf(f, i) \in Tag
  BY <1>1, DeclarationTypes DEF MovementTagOf
<1>3. HasReferenceTag(f) \in BOOLEAN
  BY DEF HasReferenceTag
<1> QED BY <1>1, <1>2, <1>3 DEF Signature, Sig

\* A function's definition follows from its tag and its reference tag.
LEMMA DoesIs ==
    ASSUME NEW f
    PROVE  /\ Does(f).ref = HasReferenceTag(f)
           /\ Does(f) = [tag |-> Does(f).tag, ref |-> HasReferenceTag(f)]
  BY DEF Does, HasReferenceTag

\* Where the declarations agree with the definition, every way to read a tag, at any
\* declaration, tells what the function does.
LEMMA AgreeingTags ==
    ASSUME unit \in Units, DeclarationsAgree, NEW f \in Function, NEW i \in DOMAIN Decls(f)
    PROVE  /\ GetParamTag(f, i) = Does(f).tag /\ MovementTagOf(f, i) = Does(f).tag
           /\ Signature(f, i) = Does(f) /\ Does(f) \in Sig
           /\ ~unit.const[f] => TagOfDeclaration(f, i) = Does(f).tag
<1>1. \A j \in DOMAIN Decls(f) : Decls(f)[j].tag \in {Does(f).tag, None} /\ GetParamTag(f, j) = Does(f).tag
  BY DEF DeclarationsAgree
<1>2. MovementTagOf(f, i) = Does(f).tag
  BY <1>1, DeclarationTypes DEF MovementTagOf
<1>3. Signature(f, i) = Does(f)
  BY <1>2, DoesIs DEF Signature
<1>4. ASSUME ~unit.const[f] PROVE TagOfDeclaration(f, i) = Does(f).tag
  <2>1. CASE Annotated(f, i) = {}
    BY <1>1, <1>4, <2>1 DEF TagOfDeclaration, GetParamTag
  <2>2. CASE Annotated(f, i) # {}
    <3>1. PICK k \in Annotated(f, i) : TagOfDeclaration(f, i) = Decls(f)[k].tag
      BY <1>4, <2>2, ReadTags
    <3>2. k \in DOMAIN Decls(f) /\ Decls(f)[k].tag # None
      BY DeclarationTypes DEF Annotated
    <3> QED BY <1>1, <3>1, <3>2
  <2> QED BY <2>1, <2>2
<1> QED BY <1>1, <1>2, <1>3, <1>4, TagTypes

\* A function of a plain unit whose declarations are not reported agrees with its definition.
LEMMA QuietDeclarationsAgree ==
    ASSUME unit \in Units, PlainDeclarations, NEW f \in Function,
           \A i \in DOMAIN Decls(f) : unit.const[f] \/ TagOfDeclaration(f, i) # None,
           \A i, j \in DOMAIN Decls(f) : TagOfDeclaration(f, i) = TagOfDeclaration(f, j),
           \A i \in DOMAIN Decls(f) : Decls(f)[i].ref = Decls(f)[1].ref,
           NEW i \in DOMAIN Decls(f)
    PROVE  /\ Decls(f)[i].tag \in {Does(f).tag, None} /\ GetParamTag(f, i) = Does(f).tag
           /\ Decls(f)[i].ref = Does(f).ref
<1>  DEFINE D == Decls(f)
            written == {D[j].tag : j \in DOMAIN D} \ {None}
            t == D[Len(D)].tag
<1>0. /\ Len(D) \in {1, 2} /\ DOMAIN D = 1..Len(D) /\ Definition(f) = Len(D)
      /\ unit.const[f] \in BOOLEAN
  <2>1. /\ Len(D) \in Nat \ {0} /\ DOMAIN D = 1..Len(D) /\ unit.const[f] \in BOOLEAN
    BY DeclarationTypes
  <2>2. Len(D) <= 2 /\ Definition(f) = Len(D)
    BY DEF PlainDeclarations
  <2> QED BY <2>1, <2>2
<1>1. Decls(f)[i].ref = Does(f).ref
  <2>1. D[i].ref \in BOOLEAN /\ D[1].ref \in BOOLEAN /\ D[i].ref = D[1].ref
    <3>1. 1 \in DOMAIN D
      BY <1>0
    <3> QED BY <3>1, DeclarationTypes
  <2>2. HasReferenceTag(f) <=> D[1].ref
    BY <1>0 DEF HasReferenceTag
  <2>3. HasReferenceTag(f) \in BOOLEAN
    BY DEF HasReferenceTag
  <2> QED BY <2>1, <2>2, <2>3, DoesIs
<1>2. Does(f).tag = IF t # None \/ written = {} THEN t ELSE CHOOSE x \in written : TRUE
  BY <1>0 DEF Does
<1>3. CASE unit.const[f]
  <2>1. \A j \in DOMAIN D : D[j].tag = None
    BY <1>3 DEF PlainDeclarations
  <2>2. t = None /\ written = {} /\ D[i].tag = None
    BY <1>0, <2>1
  <2>3. Annotated(f, i) = {}
    BY <1>0, <2>1 DEF Annotated
  <2> QED BY <1>1, <1>2, <2>2, <2>3 DEF GetParamTag
<1>4. CASE ~unit.const[f]
  <2>1. \A j \in DOMAIN D : Annotated(f, j) # {}
    BY <1>4 DEF TagOfDeclaration
  <2>2. D[1].tag # None
    BY <1>0, <2>1 DEF Annotated
  <2>3. Annotated(f, 1) = {1}
    BY <2>2 DEF Annotated
  <2>4. TagOfDeclaration(f, 1) = D[1].tag /\ GetParamTag(f, 1) = D[1].tag
    <3>1. 1 \in DOMAIN D
      BY <1>0
    <3>2. /\ \E k \in Annotated(f, 1) : GetParamTag(f, 1) = D[k].tag
          /\ \E k \in Annotated(f, 1) : ~unit.const[f] => TagOfDeclaration(f, 1) = D[k].tag
      BY <2>1, <3>1, ReadTags
    <3>3. \A k \in Annotated(f, 1) : k = 1
      BY <2>3
    <3>4. GetParamTag(f, 1) = D[1].tag
      BY <3>2, <3>3, Zenon
    <3>5. TagOfDeclaration(f, 1) = D[1].tag
      BY <1>4, <3>2, <3>3, Zenon
    <3> QED BY <3>4, <3>5
  <2>5. \A j \in DOMAIN D : D[j].tag \in {D[1].tag, None}
    <3>1. CASE Len(D) = 1
      BY <1>0, <3>1
    <3>2. CASE Len(D) = 2 /\ D[2].tag # None
      <4>1. 2 \in Annotated(f, 2)
        BY <3>2 DEF Annotated
      <4>2. TagOfDeclaration(f, 2) = D[Max(Annotated(f, 2))].tag
        BY <1>4, <4>1 DEF TagOfDeclaration
      <4>3. Max(Annotated(f, 2)) = 2
        <5>1. \E m \in Annotated(f, 2) : \A k \in Annotated(f, 2) : m >= k
          BY <4>1 DEF Annotated
        <5>2. Max(Annotated(f, 2)) \in Annotated(f, 2) /\ \A k \in Annotated(f, 2) : Max(Annotated(f, 2)) >= k
          BY <5>1, Zenon DEF Max
        <5> QED BY <4>1, <5>2 DEF Annotated
      <4> QED BY <1>0, <2>4, <3>2, <4>2, <4>3
    <3>3. CASE Len(D) = 2 /\ D[2].tag = None
      BY <1>0, <3>3
    <3> QED BY <1>0, <3>1, <3>2, <3>3
  <2>6. written = {D[1].tag}
    BY <1>0, <2>2, <2>5
  <2>7. Does(f).tag = D[1].tag
    <3>1. t \in {D[1].tag, None}
      BY <1>0, <2>5
    <3> HIDE DEF t, written
    <3> QED BY <1>2, <2>2, <2>6, <3>1
  <2>8. GetParamTag(f, i) = D[1].tag
    <3>1. PICK k \in Annotated(f, i) : GetParamTag(f, i) = D[k].tag
      BY <2>1, ReadTags
    <3>2. k \in DOMAIN D /\ D[k].tag # None
      BY <1>0 DEF Annotated
    <3> QED BY <2>5, <3>1, <3>2
  <2> QED BY <1>1, <2>5, <2>7, <2>8
<1> QED BY <1>0, <1>3, <1>4

-----------------------------------------------------------------------------
(* A step leaves the unit alone                                            *)

\* What is said of the declarations stays true.
LEMMA UnitStays ==
    ASSUME unit' = unit
    PROVE  /\ \A f : /\ Decls(f)' = Decls(f) /\ Does(f)' = Does(f) /\ HasReferenceTag(f)' = HasReferenceTag(f)
                     /\ \A i : /\ TagOfDeclaration(f, i)' = TagOfDeclaration(f, i)
                               /\ MakeKey(f, i)' = MakeKey(f, i)
           /\ \A v : TypeOf(v)' = TypeOf(v)
           /\ DeclarationsAgree' <=> DeclarationsAgree
           /\ PlainDeclarations' <=> PlainDeclarations
           /\ SpelledAlike' <=> SpelledAlike
           /\ CalleesUncast' <=> CalleesUncast
           /\ NoCastConditional' <=> NoCastConditional
           /\ TagsWhereNeeded' <=> TagsWhereNeeded
<1>1. \A f : Decls(f)' = Decls(f)
  BY DEF Decls
<1>2. ASSUME NEW f PROVE Does(f)' = Does(f)
  BY SMT DEF Does, Definition, Decls
<1>3. ASSUME NEW f PROVE HasReferenceTag(f)' = HasReferenceTag(f)
  BY <1>1 DEF HasReferenceTag
<1>4. ASSUME NEW f, NEW i PROVE Annotated(f, i)' = Annotated(f, i)
  BY <1>1 DEF Annotated
<1>5. ASSUME NEW f, NEW i PROVE TagOfDeclaration(f, i)' = TagOfDeclaration(f, i)
  BY <1>1, <1>4 DEF TagOfDeclaration
<1>6. \A v : TypeOf(v)' = TypeOf(v)
  BY DEF TypeOf
<1>7. ASSUME NEW f, NEW i PROVE GetParamTag(f, i)' = GetParamTag(f, i)
  BY <1>1, <1>4 DEF GetParamTag
<1>8. DeclarationsAgree' <=> DeclarationsAgree
  BY <1>1, <1>2, <1>7 DEF DeclarationsAgree
<1>9. PlainDeclarations' <=> PlainDeclarations
  BY <1>1 DEF PlainDeclarations, Definition
<1>10. TagsWhereNeeded' <=> TagsWhereNeeded
  BY <1>2 DEF TagsWhereNeeded
<1>11. ASSUME NEW f, NEW i PROVE MakeKey(f, i)' = MakeKey(f, i)
  BY <1>1 DEF MakeKey
<1>12. SpelledAlike' <=> SpelledAlike
  BY <1>1, <1>11 DEF SpelledAlike
<1> QED BY <1>1, <1>2, <1>3, <1>5, <1>6, <1>8, <1>9, <1>10, <1>11, <1>12 DEF CalleesUncast, NoCastConditional

-----------------------------------------------------------------------------
(* The inductive invariants                                                *)

\* Types, and what the ghost variables and the rule's map follow from.
Kept ==
    /\ unit \in Units
    /\ seen \in [Function -> Nat] /\ \A f \in Function : seen[f] <= Len(Decls(f))
    /\ inBody \in BOOLEAN /\ (inBody => seen[Caller] > 0)
    /\ holds \in [Variable -> SUBSET Function]
    /\ bound \subseteq Variable \X Function
    /\ \A v \in Variable : \A f \in holds[v] : <<v, f>> \in bound
    /\ assigned \in BOOLEAN
    /\ assigned /\ HasReferenceTag(Caller) => "ReferenceReassigned" \in reports
    /\ functions \in [Function \X Spelling -> Tag \cup {"no declaration"}]
    /\ \A f \in Function : \A w \in Spelling :
          functions[<<f, w>>] # "no declaration"
          => \E k \in 1..seen[f] : functions[<<f, w>>] = TagOfDeclaration(f, k)

\* The declarations visited so far that do not agree are reported.
Told ==
    \A f \in Function :
        /\ \A i \in 1..seen[f] : ~unit.const[f] /\ TagOfDeclaration(f, i) = None
                                    => "MovementTagMissing" \in reports
        /\ PlainDeclarations /\ Len(Decls(f)) = 2 /\ seen[f] = 1
              => functions[MakeKey(f, 1)] = TagOfDeclaration(f, 1)
        /\ PlainDeclarations /\ SpelledAlike /\ seen[f] = 2
           /\ TagOfDeclaration(f, 1) # TagOfDeclaration(f, 2)
              => "MovementTagMismatch" \in reports
        /\ seen[f] > 0 /\ (\E j \in DOMAIN Decls(f) : Decls(f)[j].ref # Decls(f)[1].ref)
              => "ReferenceDeclarationTagMismatch" \in reports

\* While nothing is reported, bindings and calls follow the declarations if those agree.
QuietSoFar ==
    DeclarationsAgree /\ CalleesUncast /\ NoCastConditional /\ reports = {}
    => BindingsAgree /\ CallsAgree

Inv == Kept /\ Told /\ QuietSoFar

-----------------------------------------------------------------------------
(* Expressions                                                             *)

\* The functions that a base may be.
Reach(b) == IF b.op = "function" THEN {b.of} ELSE holds[b.of]

LEMMA ReachesIs ==
    ASSUME NEW e, NEW f
    PROVE  f \in Reaches(e) <=> \E b \in Bases(e) : f \in Reach(b)
  BY DEF Reaches, Reach

\* What an expression is made of.
LEMMA ExpressionParts ==
    ASSUME NEW e \in Expression
    PROVE  /\ e[1] \in Range(e) /\ Bases(e) \subseteq Base
           /\ \A b \in Range(e) : /\ Len(b.of) \in Nat /\ b.of[1] \in Bases(e)
                                  /\ b.casts = <<>> => Len(b.of) = 1
                                  /\ Len(b.of) = 1 => Range(b.of) = {b.of[1]}
<1>1. e \in Seq(Branch) /\ Len(e) > 0
  BY DEF Expression
<1>2. e[1] \in Range(e) /\ Range(e) \subseteq Branch
  BY <1>1 DEF Range
<1>3. ASSUME NEW b \in Branch
      PROVE  /\ b.of \in Seq(Base) /\ Len(b.of) > 0 /\ (b.casts = <<>> => Len(b.of) = 1)
  BY DEF Branch
<1>4. ASSUME NEW b \in Branch
      PROVE  /\ Range(b.of) \subseteq Base /\ b.of[1] \in Range(b.of) /\ Len(b.of) \in Nat
             /\ Len(b.of) = 1 => Range(b.of) = {b.of[1]}
  <2>1. b.of \in Seq(Base) /\ Len(b.of) > 0
    BY <1>3
  <2>  HIDE DEF Base
  <2> QED BY <2>1 DEF Range
<1> QED BY <1>2, <1>3, <1>4 DEF Bases

\* The type of a base that may be used is a signature.
LEMMA BaseTypes ==
    ASSUME Kept, NEW b \in Base, b.op = "function" => seen[b.of] > 0
    PROVE  /\ FunctionTypeOfBase(b) \in Sig
           /\ b.op = "function" => b.of \in Function /\ seen[b.of] \in DOMAIN Decls(b.of)
           /\ b.op # "function" => b.of \in Variable
<1>1. unit \in Units
  BY DEF Kept
<1>2. CASE b.op = "function"
  <2>1. b.of \in Function
    BY <1>2 DEF Base
  <2>2. seen[b.of] \in DOMAIN Decls(b.of)
    <3>1. seen[b.of] \in Nat /\ seen[b.of] <= Len(Decls(b.of))
      BY <2>1 DEF Kept
    <3> QED BY <1>1, <1>2, <2>1, <3>1, DeclarationTypes
  <2> QED BY <1>1, <1>2, <2>1, <2>2, TagTypes DEF FunctionTypeOfBase
<1>3. CASE b.op # "function"
  <2>1. b.of \in Variable
    BY <1>3 DEF Base
  <2>2. TypeOf(b.of) \in Sig
    <3>1. unit.type \in [Variable -> [tag : Tag, ref : BOOLEAN, const : BOOLEAN]]
      BY <1>1, UnitsAssumption
    <3>2. unit.type[b.of] \in [tag : Tag, ref : BOOLEAN, const : BOOLEAN]
      BY <2>1, <3>1
    <3> QED BY <3>2 DEF TypeOf, Sig
  <2> QED BY <1>3, <2>1, <2>2 DEF FunctionTypeOfBase
<1> QED BY <1>2, <1>3

\* While all agree, the type of a base is what each function that it may be does.
LEMMA BaseTells ==
    ASSUME Kept, DeclarationsAgree, BindingsAgree, NEW b \in Base,
           IF b.op = "function" THEN seen[b.of] > 0 ELSE holds[b.of] # {}
    PROVE  /\ Reach(b) # {} /\ Reach(b) \subseteq Function /\ FunctionTypeOfBase(b) \in Sig
           /\ \A f \in Reach(b) : Does(f) = FunctionTypeOfBase(b)
<1>1. FunctionTypeOfBase(b) \in Sig
  BY BaseTypes
<1>2. CASE b.op = "function"
  <2>1. b.of \in Function /\ seen[b.of] \in DOMAIN Decls(b.of) /\ unit \in Units
    BY <1>2, BaseTypes DEF Kept
  <2>2. Signature(b.of, seen[b.of]) = Does(b.of)
    BY <2>1, AgreeingTags
  <2> QED BY <1>1, <1>2, <2>1, <2>2 DEF Reach, FunctionTypeOfBase
<1>3. CASE b.op # "function"
  <2>1. b.of \in Variable
    BY <1>3, BaseTypes
  <2>2. holds[b.of] \subseteq Function /\ \A f \in holds[b.of] : <<b.of, f>> \in bound
    BY <2>1 DEF Kept
  <2>3. \A f \in holds[b.of] : TypeOf(b.of) = Does(f)
    BY <2>2 DEF BindingsAgree
  <2> QED BY <1>1, <1>3, <2>2, <2>3 DEF Reach, FunctionTypeOfBase
<1> QED BY <1>2, <1>3

\* A binding is not reported when every function that the pointer may then hold does what the
\* pointer's type says; and only then, unless a conditional is cast.
LEMMA BindingTells ==
    ASSUME Kept, DeclarationsAgree, BindingsAgree, NEW e \in Expression, Usable(e), NEW v \in Variable
    PROVE  /\ CheckBinding(v, e) = {} /\ (\A b \in Range(e) : Known(b))
                 => \A f \in Reaches(e) : TypeOf(v) = Does(f)
           /\ (\A f \in Reaches(e) : TypeOf(v) = Does(f)) => CheckBinding(v, e) = {}
<1>1. ASSUME NEW b \in Bases(e)
      PROVE  /\ Reach(b) # {} /\ Reach(b) \subseteq Function /\ FunctionTypeOfBase(b) \in Sig
             /\ \A f \in Reach(b) : Does(f) = FunctionTypeOfBase(b)
  <2>1. b \in Base
    BY ExpressionParts
  <2>2. IF b.op = "function" THEN seen[b.of] > 0 ELSE holds[b.of] # {}
    BY DEF Usable
  <2> QED BY <2>1, <2>2, BaseTells
<1>2. TypeOf(v) \in Sig
  <2>1. unit.type \in [Variable -> [tag : Tag, ref : BOOLEAN, const : BOOLEAN]]
    BY UnitsAssumption DEF Kept
  <2>2. unit.type[v] \in [tag : Tag, ref : BOOLEAN, const : BOOLEAN]
    BY <2>1
  <2> QED BY <2>2 DEF TypeOf, Sig
<1>3. ASSUME NEW b \in Range(e)
      PROVE  b.of[1] \in Bases(e) /\ (Known(b) => Range(b.of) = {b.of[1]})
  BY <1>3, ExpressionParts DEF Known
<1>4. ASSUME CheckBinding(v, e) = {}, \A b \in Range(e) : Known(b), NEW f \in Reaches(e) PROVE TypeOf(v) = Does(f)
  <2>1. PICK c \in Bases(e) : f \in Reach(c)
    BY ReachesIs
  <2>2. PICK b \in Range(e) : c \in Range(b.of)
    BY DEF Bases
  <2>3. c = b.of[1]
    BY <1>3, <1>4, <2>2
  <2>4. Mismatch(BoundFunctionOf(b), TypeOf(v)) = {}
    BY <1>4 DEF CheckBinding
  <2> QED BY <1>1, <1>2, <2>1, <2>3, <2>4, MismatchTellsApart DEF BoundFunctionOf
<1>5. ASSUME \A f \in Reaches(e) : TypeOf(v) = Does(f) PROVE CheckBinding(v, e) = {}
  <2>1. ASSUME NEW b \in Range(e) PROVE Mismatch(BoundFunctionOf(b), TypeOf(v)) = {}
    <3>1. PICK f \in Reach(b.of[1]) : TRUE
      BY <1>1, <1>3
    <3>2. Does(f) = FunctionTypeOfBase(b.of[1]) /\ f \in Reaches(e)
      BY <1>1, <1>3, ReachesIs
    <3>3. BoundFunctionOf(b) = TypeOf(v)
      BY <1>5, <3>2 DEF BoundFunctionOf
    <3> QED BY <1>2, <3>3, MismatchTellsApart
  <2> QED BY <2>1 DEF CheckBinding
<1> QED BY <1>4, <1>5

\* A callee is not reported when all functions that it may be do the same, and only then;
\* and its tags are then theirs.
LEMMA CalleeTells ==
    ASSUME Kept, DeclarationsAgree, BindingsAgree, NEW e \in Expression, Usable(e),
           \A b \in Range(e) : b.casts = <<>>
    PROVE  /\ Reaches(e) # {} /\ Reaches(e) \subseteq Function
           /\ CheckConditionalCallee(e) = {} <=> \A f, g \in Reaches(e) : Does(f) = Does(g)
           /\ CheckConditionalCallee(e) = {}
                 => HaveSameTags(e) /\ \A f \in Reaches(e) :
                       Does(f) = FunctionTypeOf(e[1]) /\ CalleeTag(e) = Does(f).tag
<1>1. ASSUME NEW b \in Bases(e)
      PROVE  /\ Reach(b) # {} /\ Reach(b) \subseteq Function /\ FunctionTypeOfBase(b) \in Sig
             /\ \A f \in Reach(b) : Does(f) = FunctionTypeOfBase(b)
  <2>1. b \in Base
    BY ExpressionParts
  <2>2. IF b.op = "function" THEN seen[b.of] > 0 ELSE holds[b.of] # {}
    BY DEF Usable
  <2> QED BY <2>1, <2>2, BaseTells
<1>2. /\ Reaches(e) # {} /\ Reaches(e) \subseteq Function /\ e[1] \in Range(e)
  <2>1. e[1] \in Range(e) /\ e[1].of[1] \in Bases(e)
    BY ExpressionParts
  <2> QED BY <1>1, <2>1, ReachesIs
<1>3. ASSUME NEW b \in Range(e)
      PROVE  /\ b.of[1] \in Bases(e) /\ Range(b.of) = {b.of[1]}
             /\ FunctionTypeOf(b) = FunctionTypeOfBase(b.of[1]) /\ FunctionTypeOf(b) \in Sig
  <2>1. b.of[1] \in Bases(e) /\ Range(b.of) = {b.of[1]}
    BY <1>3, ExpressionParts
  <2>2. FunctionTypeOf(b) = FunctionTypeOfBase(b.of[1])
    BY <1>3 DEF FunctionTypeOf
  <2> QED BY <1>1, <2>1, <2>2
<1>4. CheckConditionalCallee(e) = {}
         <=> \A b \in Range(e) : FunctionTypeOf(b) = FunctionTypeOf(e[1])
  <2>1. \A b \in Range(e) : Mismatch(FunctionTypeOf(b), FunctionTypeOf(e[1])) = {}
                               <=> FunctionTypeOf(b) = FunctionTypeOf(e[1])
    BY <1>2, <1>3, MismatchTellsApart
  <2> QED BY <2>1 DEF CheckConditionalCallee
<1>5. ASSUME CheckConditionalCallee(e) = {}, NEW f \in Reaches(e)
      PROVE  Does(f) = FunctionTypeOf(e[1]) /\ CalleeTag(e) = Does(f).tag
  <2>1. PICK c \in Bases(e) : f \in Reach(c)
    BY ReachesIs
  <2>2. PICK b \in Range(e) : c \in Range(b.of)
    BY DEF Bases
  <2>3. c = b.of[1]
    BY <1>3, <2>2
  <2>4. Does(f) = FunctionTypeOf(e[1])
    BY <1>1, <1>3, <1>4, <1>5, <2>1, <2>3
  <2>5. CASE e[1].of[1].op = "function"
    <3>  DEFINE first == e[1].of[1]
    <3>1. first \in Bases(e) /\ first \in Base /\ e[1].casts = <<>>
      BY <1>2, <1>3, ExpressionParts
    <3>2. seen[first.of] > 0
      BY <2>5, <3>1 DEF Usable
    <3>3. first.of \in Function /\ seen[first.of] \in DOMAIN Decls(first.of) /\ unit \in Units
      BY <2>5, <3>1, <3>2, BaseTypes DEF Kept
    <3>4. GetParamTag(first.of, seen[first.of]) = Does(first.of).tag
      BY <3>3, AgreeingTags
    <3>5. Does(first.of) = FunctionTypeOf(e[1])
      BY <1>1, <1>2, <1>3, <2>5, <3>1 DEF Reach
    <3> QED BY <2>4, <2>5, <3>1, <3>4, <3>5 DEF CalleeTag
  <2>6. CASE e[1].of[1].op # "function"
    BY <2>4, <2>6 DEF CalleeTag
  <2> QED BY <2>4, <2>5, <2>6
<1>6. ASSUME \A f, g \in Reaches(e) : Does(f) = Does(g), NEW b \in Range(e)
      PROVE  FunctionTypeOf(b) = FunctionTypeOf(e[1])
  <2>1. PICK f \in Reach(b.of[1]) : TRUE
    BY <1>1, <1>3
  <2>2. PICK g \in Reach(e[1].of[1]) : TRUE
    BY <1>1, <1>2, <1>3
  <2>3. f \in Reaches(e) /\ g \in Reaches(e)
    BY <1>2, <1>3, ReachesIs
  <2>4. Does(f) = FunctionTypeOf(b) /\ Does(g) = FunctionTypeOf(e[1])
    BY <1>1, <1>2, <1>3
  <2> QED BY <1>6, <2>3, <2>4
<1>7. HaveSameTags(e) <=> \A b \in Range(e) : FunctionTypeOf(b) = FunctionTypeOf(e[1])
  BY DEF HaveSameTags
<1>8. ASSUME CheckConditionalCallee(e) = {}, NEW f \in Reaches(e), NEW g \in Reaches(e)
      PROVE  Does(f) = Does(g)
  BY <1>5, <1>8
<1> QED BY <1>2, <1>4, <1>5, <1>6, <1>7, <1>8

\* A mark at a call site is not reported when it is that of the function, and only then; nor
\* is the argument when the caller may give it away, and only then.
LEMMA MarkTells ==
    ASSUME unit \in Units, DeclarationsAgree, NEW f \in Function, NEW wrapper \in Tag,
           NEW arg \in Argument, seen[Caller] \in DOMAIN Decls(Caller)
    PROVE  /\ CheckOperator(Does(f).tag, wrapper) = {}
                 <=> wrapper = IF Does(f).tag # None /\ unit.options[Does(f).tag]
                               THEN Does(f).tag ELSE None
           /\ CheckMoveOfBorrowedParam(Does(f).tag, arg) = {}
                 <=> ~(/\ Does(f).tag = "move" /\ Does(Caller).tag \in {"modify", "out"}
                       /\ GivesParameter(arg))
<1>1. MovementTagOf(Caller, seen[Caller]) = Does(Caller).tag
  BY UnitsAssumption, AgreeingTags
<1>2. Does(f).tag \in Tag
  <2>1. 1 \in DOMAIN Decls(f)
    BY DeclarationTypes
  <2> QED BY <2>1, AgreeingTags DEF Sig
<1>3. CheckOperator(Does(f).tag, wrapper) = {}
         <=> wrapper = IF Does(f).tag # None /\ unit.options[Does(f).tag] THEN Does(f).tag ELSE None
  BY <1>2 DEF CheckOperator
<1>4. CheckMoveOfBorrowedParam(Does(f).tag, arg) = {}
         <=> ~(/\ Does(f).tag = "move" /\ Does(Caller).tag \in {"modify", "out"}
               /\ GivesParameter(arg))
  BY <1>1, MovedParameter DEF CheckMoveOfBorrowedParam
<1> QED BY <1>3, <1>4

-----------------------------------------------------------------------------
(* Every step keeps the invariants                                         *)

\* Both kinds of bindings give pointers values that are considered.
LEMMA Bindings ==
    ASSUME Kept, BindPointer \/ InitializeRecord
    PROVE  \E vs, es : /\ Bind(vs, es)
                       /\ \A i \in DOMAIN es : /\ vs[i] \in Variable /\ es[i] \in unit.work.sources
                                               /\ es[i] \in Expression
<1>1. unit.work.sources \subseteq Expression /\ Fields \in Seq(Variable)
  BY UnitsAssumption DEF Kept
<1>2. CASE BindPointer
  <2>1. PICK v \in Variable, e \in unit.work.sources : Bind(<<v>>, <<e>>)
    BY <1>2, Zenon DEF BindPointer
  <2>2. \A i \in DOMAIN <<e>> : <<v>>[i] \in Variable /\ <<e>>[i] \in unit.work.sources
    OBVIOUS
  <2> HIDE DEF Expression
  <2> QED BY <1>1, <2>1, <2>2
<1>3. CASE InitializeRecord
  <2>1. PICK n \in 1..Len(Fields), es \in [1..Len(Fields) -> unit.work.sources] :
          Bind(Fields, SubSeq(es, 1, n))
    BY <1>3, Zenon DEF InitializeRecord
  <2>2. Len(Fields) \in Nat /\ es \in Seq(unit.work.sources) /\ Len(es) = Len(Fields)
    BY <1>1
  <2>3. DOMAIN SubSeq(es, 1, n) = 1..n /\ \A i \in 1..n : SubSeq(es, 1, n)[i] = es[i]
    BY <2>2
  <2>4. \A i \in 1..n : Fields[i] \in Variable /\ es[i] \in unit.work.sources
    BY <1>1, <2>2
  <2> QED BY <1>1, <2>1, <2>3, <2>4
<1> QED BY <1>2, <1>3

\* What an expression may be are functions.
LEMMA ReachTypes ==
    ASSUME Kept, NEW e \in Expression
    PROVE  Reaches(e) \subseteq Function
<1>1. ASSUME NEW b \in Base PROVE Reach(b) \subseteq Function
  <2>1. CASE b.op = "function"
    BY <2>1 DEF Reach, Base
  <2>2. CASE b.op # "function"
    <3>1. b.of \in Variable
      BY <2>2 DEF Base
    <3>2. holds[b.of] \in SUBSET Function
      BY <3>1 DEF Kept
    <3> QED BY <2>2, <3>2 DEF Reach
  <2> QED BY <2>1, <2>2
<1> QED BY <1>1, ExpressionParts, ReachesIs

\* What holds at the beginning.
LEMMA Begins ==
    ASSUME Init
    PROVE  Kept /\ Told /\ QuietSoFar
<1>1. unit \in Units /\ \A f \in Function : Len(Decls(f)) \in Nat
  BY DeclarationTypes DEF Init
<1>2. \A f \in Function : seen[f] = 0 /\ \A w \in Spelling : functions[<<f, w>>] = "no declaration"
  BY DEF Init
<1>3. Kept
  <2>1. seen \in [Function -> Nat] /\ \A f \in Function : seen[f] <= Len(Decls(f))
    <3>1. seen = [f \in Function |-> 0]
      BY DEF Init
    <3>2. seen \in [Function -> Nat]
      BY <3>1
    <3>3. ASSUME NEW f \in Function PROVE seen[f] <= Len(Decls(f))
      <4>1. seen[f] = 0 /\ Len(Decls(f)) \in Nat
        BY <1>1, <1>2
      <4> QED BY <4>1
    <3> QED BY <3>2, <3>3
  <2>2. functions \in [Function \X Spelling -> Tag \cup {"no declaration"}]
    <3>1. functions = [k \in Function \X Spelling |-> "no declaration"]
      BY DEF Init
    <3> QED BY <3>1
  <2>3. holds \in [Variable -> SUBSET Function] /\ \A v \in Variable : holds[v] = {}
    BY DEF Init
  <2> QED BY <1>1, <1>2, <2>1, <2>2, <2>3 DEF Init, Kept
<1>4. Told
  <2>1. ASSUME NEW f \in Function PROVE 1..seen[f] = {} /\ ~(seen[f] > 0) /\ seen[f] # 1 /\ seen[f] # 2
    <3>1. seen[f] = 0
      BY <1>2
    <3> QED BY <3>1
  <2> QED BY <2>1, Zenon DEF Told
<1>5. bound = {} /\ executed = {}
  BY DEF Init
<1> QED BY <1>3, <1>4, <1>5 DEF QuietSoFar, BindingsAgree, CallsAgree

\* No step changes the unit, or takes back a report or what was executed.
LEMMA Grows ==
    ASSUME [Next]_vars
    PROVE  /\ unit' = unit /\ reports \subseteq reports' /\ bound \subseteq bound'
           /\ executed \subseteq executed'
<1>1. ASSUME NEW f \in Function, VisitFunction(f)
      PROVE  /\ unit' = unit /\ reports \subseteq reports' /\ bound \subseteq bound'
             /\ executed \subseteq executed'
  BY <1>1 DEF VisitFunction
<1>2. ASSUME NEW vs, NEW es, Bind(vs, es)
      PROVE  /\ unit' = unit /\ reports \subseteq reports' /\ bound \subseteq bound'
             /\ executed \subseteq executed'
  <2>1. unit' = unit /\ executed' = executed
    BY <1>2 DEF Bind
  <2>2. reports \subseteq reports'
    BY <1>2, Zenon DEF Bind
  <2>3. bound \subseteq bound'
    BY <1>2, Zenon DEF Bind
  <2> QED BY <2>1, <2>2, <2>3
<1>3. ASSUME VisitCall
      PROVE  /\ unit' = unit /\ reports \subseteq reports' /\ bound \subseteq bound'
             /\ executed \subseteq executed'
  <2>1. PICK e \in unit.work.callees, wrapper \in Tag, arg \in unit.work.args : Call(e, wrapper, arg)
    BY <1>3 DEF VisitCall
  <2> QED BY <2>1 DEF Call
<1>4. ASSUME VisitAssignment
      PROVE  /\ unit' = unit /\ reports \subseteq reports' /\ bound \subseteq bound'
             /\ executed \subseteq executed'
  BY <1>4 DEF VisitAssignment
<1>5. CASE UNCHANGED vars
  BY <1>5 DEF vars
<1>6. BindPointer \/ InitializeRecord => \E vs, es : Bind(vs, es)
  BY Zenon DEF BindPointer, InitializeRecord
<1> QED BY <1>1, <1>2, <1>3, <1>4, <1>5, <1>6 DEF Next

\* A visit of a declaration remembers its tag or compares it.
LEMMA VisitKeeps ==
    ASSUME Kept, Told, NEW f \in Function, VisitFunction(f)
    PROVE  Kept' /\ Told'
<1>  DEFINE i == seen[f] + 1
            tag == TagOfDeclaration(f, i)
            key == MakeKey(f, i)
            defines == Decls(f)[i].defines
<1>1. /\ seen[f] < Len(Decls(f)) /\ unit' = unit /\ UNCHANGED <<holds, bound, executed, assigned, steps>>
      /\ seen' = [seen EXCEPT ![f] = i] /\ inBody' = (f = Caller /\ defines)
      /\ functions' = IF defines THEN functions ELSE [functions EXCEPT ![key] = tag]
      /\ ~unit.const[f] /\ tag = None => "MovementTagMissing" \in reports'
      /\ defines /\ functions[key] \notin {"no declaration", tag} => "MovementTagMismatch" \in reports'
      /\ i = 1 /\ (\E j \in DOMAIN Decls(f) : Decls(f)[j].ref # Decls(f)[1].ref)
            => "ReferenceDeclarationTagMismatch" \in reports'
      /\ reports \subseteq reports'
  BY Zenon DEF VisitFunction
<1>2. /\ \A g : Decls(g)' = Decls(g) /\ HasReferenceTag(g)' = HasReferenceTag(g)
      /\ \A g : \A k : TagOfDeclaration(g, k)' = TagOfDeclaration(g, k)
      /\ \A g : \A k : MakeKey(g, k)' = MakeKey(g, k)
      /\ PlainDeclarations' <=> PlainDeclarations
      /\ SpelledAlike' <=> SpelledAlike
  BY <1>1, UnitStays
<1>3. /\ seen \in [Function -> Nat] /\ seen[f] \in Nat /\ unit \in Units /\ Caller \in Function
      /\ \A g \in Function : seen[g] \in Nat /\ seen[g] <= Len(Decls(g)) /\ Len(Decls(g)) \in Nat
  BY DeclarationTypes, UnitsAssumption DEF Kept
<1>4. /\ i \in DOMAIN Decls(f) /\ i \in Nat \ {0} /\ seen'[f] = i
      /\ \A g \in Function : g # f => seen'[g] = seen[g]
  <2>1. seen' = [seen EXCEPT ![f] = i] /\ seen[f] < Len(Decls(f))
    BY <1>1
  <2>2. seen'[f] = i /\ \A g \in Function : g # f => seen'[g] = seen[g]
    BY <1>3, <2>1
  <2>3. i \in 1..Len(Decls(f)) /\ i \in Nat \ {0}
    BY <1>3, <2>1
  <2>4. DOMAIN Decls(f) = 1..Len(Decls(f))
    BY <1>3, DeclarationTypes
  <2> QED BY <2>2, <2>3, <2>4
<1>5. tag \in Tag /\ key \in Function \X Spelling /\ key[1] = f
  <2>1. tag \in Tag
    BY <1>3, <1>4, TagTypes
  <2>2. key \in Function \X Spelling
    BY <1>3, <1>4, KeyTypes
  <2>3. key[1] = f
    BY DEF MakeKey
  <2> QED BY <2>1, <2>2, <2>3
<1>  HIDE DEF tag, key, defines
<1>6. Kept'
  <2>1. seen' \in [Function -> Nat] /\ \A g \in Function : seen'[g] <= Len(Decls(g))
    <3>0. seen' = [seen EXCEPT ![f] = i] /\ seen[f] < Len(Decls(f)) /\ i \in Nat
      BY <1>1, <1>4
    <3>1. seen' \in [Function -> Nat]
      BY <1>3, <3>0
    <3>2. ASSUME NEW g \in Function PROVE seen'[g] <= Len(Decls(g))
      BY <1>3, <3>0
    <3> QED BY <3>1, <3>2
  <2>2. inBody' \in BOOLEAN /\ (inBody' => seen'[Caller] > 0)
    <3>1. inBody' = (f = Caller /\ defines)
      BY <1>1
    <3>2. seen'[f] > 0
      BY <1>4
    <3> QED BY <3>1, <3>2
  <2>3. functions' \in [Function \X Spelling -> Tag \cup {"no declaration"}]
    BY <1>1, <1>5 DEF Kept
  <2>4. ASSUME NEW g \in Function, NEW w \in Spelling, functions'[<<g, w>>] # "no declaration"
        PROVE  \E k \in 1..seen'[g] : functions'[<<g, w>>] = TagOfDeclaration(g, k)
    <3>  DEFINE at == <<g, w>>
    <3>0. /\ functions \in [Function \X Spelling -> Tag \cup {"no declaration"}]
          /\ at \in Function \X Spelling /\ at[1] = g
      BY DEF Kept
    <3>1. CASE at = key /\ ~defines
      <4>1. g = f
        BY <1>5, <3>0, <3>1
      <4>2. functions'[at] = tag
        <5> HIDE DEF at
        <5> QED BY <1>1, <1>5, <3>0, <3>1
      <4>3. i \in 1..seen'[f]
        BY <1>4
      <4> QED BY <4>1, <4>2, <4>3 DEF tag
    <3>2. CASE at # key \/ defines
      <4>1. functions'[at] = functions[at]
        <5> HIDE DEF at
        <5> QED BY <1>1, <3>0, <3>2
      <4>2. PICK k \in 1..seen[g] : functions[at] = TagOfDeclaration(g, k)
        BY <2>4, <4>1 DEF Kept
      <4>3. k \in 1..seen'[g]
        BY <1>3, <1>4
      <4> QED BY <4>1, <4>2, <4>3
    <3> QED BY <3>1, <3>2
  <2>5. assigned /\ HasReferenceTag(Caller) => "ReferenceReassigned" \in reports'
    BY <1>1 DEF Kept
  <2>6. /\ holds \in [Variable -> SUBSET Function] /\ bound \subseteq Variable \X Function
        /\ \A v \in Variable : \A g \in holds[v] : <<v, g>> \in bound
        /\ assigned \in BOOLEAN
    BY DEF Kept
  <2>7. \A g \in Function : \A w \in Spelling :
           (functions[<<g, w>>] # "no declaration"
            => \E k \in 1..seen[g] : functions[<<g, w>>] = TagOfDeclaration(g, k))'
    BY <1>2, <2>4
  <2>8. (assigned /\ HasReferenceTag(Caller) => "ReferenceReassigned" \in reports)'
    BY <1>1, <1>2, <2>5
  <2>9. (\A g \in Function : seen[g] <= Len(Decls(g)))'
    BY <1>2, <2>1
  <2> QED BY <1>1, <1>3, <2>1, <2>2, <2>3, <2>6, <2>7, <2>8, <2>9, Zenon DEF Kept
<1>7. ASSUME NEW g \in Function, g # f
      PROVE  /\ \A k \in 1..seen'[g] : ~unit.const[g] /\ TagOfDeclaration(g, k) = None
                                          => "MovementTagMissing" \in reports'
             /\ PlainDeclarations /\ Len(Decls(g)) = 2 /\ seen'[g] = 1
                   => functions'[MakeKey(g, 1)] = TagOfDeclaration(g, 1)
             /\ PlainDeclarations /\ SpelledAlike /\ seen'[g] = 2
                /\ TagOfDeclaration(g, 1) # TagOfDeclaration(g, 2)
                   => "MovementTagMismatch" \in reports'
             /\ seen'[g] > 0 /\ (\E j \in DOMAIN Decls(g) : Decls(g)[j].ref # Decls(g)[1].ref)
                   => "ReferenceDeclarationTagMismatch" \in reports'
  <2>1. seen'[g] = seen[g]
    BY <1>4, <1>7
  <2>2. ASSUME PlainDeclarations, Len(Decls(g)) = 2, seen'[g] = 1
        PROVE  functions'[MakeKey(g, 1)] = TagOfDeclaration(g, 1)
    <3>1. functions[MakeKey(g, 1)] = TagOfDeclaration(g, 1)
      BY <2>1, <2>2 DEF Told
    <3>2. MakeKey(g, 1) \in Function \X Spelling
      <4>1. 1 \in DOMAIN Decls(g)
        BY <1>3, <2>2, DeclarationTypes
      <4> QED BY <1>3, <4>1, KeyTypes
    <3>3. MakeKey(g, 1) # key
      <4>1. MakeKey(g, 1)[1] = g
        BY DEF MakeKey
      <4> QED BY <1>5, <1>7, <4>1
    <3> QED BY <1>1, <3>1, <3>2, <3>3 DEF Kept
  <2> QED BY <1>1, <2>1, <2>2 DEF Told
<1>8. ASSUME NEW k \in 1..i, ~unit.const[f], TagOfDeclaration(f, k) = None
      PROVE  "MovementTagMissing" \in reports'
  <2>1. CASE k = i
    BY <1>1, <1>8, <2>1 DEF tag
  <2>2. CASE k \in 1..seen[f]
    BY <1>1, <1>8, <2>2 DEF Told
  <2> QED BY <1>3, <2>1, <2>2
<1>9. ASSUME PlainDeclarations, Len(Decls(f)) = 2, i = 1
      PROVE  functions'[MakeKey(f, 1)] = TagOfDeclaration(f, 1)
  <2>1. ~defines
    <3>1. Definition(f) = 2
      BY <1>9 DEF PlainDeclarations
    <3>2. defines <=> i = Definition(f)
      BY <1>3, <1>4, DeclarationTypes DEF defines
    <3> QED BY <1>9, <3>1, <3>2
  <2>2. key = MakeKey(f, 1) /\ tag = TagOfDeclaration(f, 1)
    BY <1>9 DEF key, tag
  <2>3. functions' = [functions EXCEPT ![key] = tag]
    BY <1>1, <2>1
  <2>4. functions \in [Function \X Spelling -> Tag \cup {"no declaration"}]
    BY DEF Kept
  <2>5. functions'[key] = tag
    BY <1>5, <2>3, <2>4
  <2> QED BY <2>2, <2>5
<1>10. ASSUME PlainDeclarations, SpelledAlike, i = 2, TagOfDeclaration(f, 1) # TagOfDeclaration(f, 2)
       PROVE  "MovementTagMismatch" \in reports'
  <2>1. Len(Decls(f)) = 2
    <3>  DEFINE n == Len(Decls(f))
    <3>1. 2 \in 1..n /\ n \in Nat
      BY <1>3, <1>4, <1>10, DeclarationTypes
    <3>2. n <= 2
      BY <1>10 DEF PlainDeclarations
    <3>3. n = 2
      <4> HIDE DEF n
      <4> QED BY <3>1, <3>2
    <3> QED BY <3>3
  <2>2. defines
    <3>1. Definition(f) = 2
      BY <1>10, <2>1 DEF PlainDeclarations
    <3>2. defines <=> i = Definition(f)
      BY <1>3, <1>4, DeclarationTypes DEF defines
    <3> QED BY <1>10, <3>1, <3>2
  <2>3. functions[key] = TagOfDeclaration(f, 1)
    <3>1. functions[MakeKey(f, 1)] = TagOfDeclaration(f, 1)
      BY <1>3, <1>10, <2>1 DEF Told
    <3>2. 1 \in DOMAIN Decls(f) /\ i \in DOMAIN Decls(f)
      BY <1>3, <1>4, <2>1, DeclarationTypes
    <3>3. key = MakeKey(f, 1)
      BY <1>10, <3>2 DEF SpelledAlike, key
    <3> QED BY <3>1, <3>3
  <2>4. TagOfDeclaration(f, 1) \in Tag
    BY <1>3, <2>1, DeclarationTypes, TagTypes
  <2>5. "no declaration" \notin Tag
    BY DEF Tag, Movement, None
  <2> QED BY <1>1, <1>10, <2>2, <2>3, <2>4, <2>5 DEF tag
<1>11. ASSUME \E j \in DOMAIN Decls(f) : Decls(f)[j].ref # Decls(f)[1].ref
       PROVE  "ReferenceDeclarationTagMismatch" \in reports'
  <2>1. CASE i = 1
    BY <1>1, <1>11, <2>1
  <2>2. CASE i # 1
    <3>1. seen[f] > 0
      BY <1>3, <2>2
    <3>2. "ReferenceDeclarationTagMismatch" \in reports
      BY <1>11, <3>1 DEF Told
    <3> QED BY <1>1, <3>2
  <2> QED BY <2>1, <2>2
<1>12. Told'
  BY <1>1, <1>2, <1>4, <1>7, <1>8, <1>9, <1>10, <1>11 DEF Told
<1> QED BY <1>6, <1>12

\* What was told stays told.
LEMMA ToldStays ==
    ASSUME Told, unit' = unit, seen' = seen, functions' = functions, reports \subseteq reports'
    PROVE  Told'
<1>1. /\ \A f : Decls(f)' = Decls(f)
      /\ \A f : \A k : TagOfDeclaration(f, k)' = TagOfDeclaration(f, k) /\ MakeKey(f, k)' = MakeKey(f, k)
      /\ PlainDeclarations' <=> PlainDeclarations
      /\ SpelledAlike' <=> SpelledAlike
  BY UnitStays
<1> QED BY <1>1 DEF Told

\* A pointer may hold what it is bound to.
LEMMA BindKeeps ==
    ASSUME Kept, NEW vs, NEW es, Bind(vs, es),
           \A i \in DOMAIN es : vs[i] \in Variable /\ es[i] \in Expression
    PROVE  Kept'
<1>  DEFINE new == [i \in DOMAIN es |-> Reaches(es[i])]
            At(v) == CHOOSE i \in DOMAIN es : vs[i] = v
<1>1. /\ unit' = unit /\ seen' = seen /\ inBody' = inBody /\ functions' = functions
      /\ executed' = executed /\ assigned' = assigned
      /\ reports \subseteq reports'
      /\ bound' = bound \cup UNION {{vs[i]} \X new[i] : i \in DOMAIN es}
  BY Zenon DEF Bind
<1>2. holds' = [v \in Variable |-> IF \E i \in DOMAIN es : vs[i] = v THEN new[At(v)] ELSE holds[v]]
  BY Zenon DEF Bind
<1>3. \A f : Decls(f)' = Decls(f) /\ HasReferenceTag(f)' = HasReferenceTag(f)
  BY <1>1, UnitStays
<1>4. \A f, k : TagOfDeclaration(f, k)' = TagOfDeclaration(f, k)
  BY <1>1, UnitStays
<1>5. ASSUME NEW i \in DOMAIN es
      PROVE  new[i] \subseteq Function /\ {vs[i]} \X new[i] \subseteq bound'
  BY <1>1, ReachTypes
<1>6. bound' \subseteq Variable \X Function
  <2>1. ASSUME NEW i \in DOMAIN es PROVE {vs[i]} \X new[i] \subseteq Variable \X Function
    BY <1>5
  <2>2. bound \subseteq Variable \X Function
    BY DEF Kept
  <2> QED BY <1>1, <2>1, <2>2
<1>7. ASSUME NEW v \in Variable
      PROVE  holds'[v] \subseteq Function /\ \A f \in holds'[v] : <<v, f>> \in bound'
  <2>1. CASE \E i \in DOMAIN es : vs[i] = v
    <3>1. At(v) \in DOMAIN es /\ vs[At(v)] = v
      BY <2>1, Zenon
    <3>2. holds'[v] = new[At(v)]
      BY <1>2, <2>1
    <3> QED BY <1>5, <3>1, <3>2
  <2>2. CASE ~\E i \in DOMAIN es : vs[i] = v
    <3>1. holds'[v] = holds[v]
      BY <1>2, <2>2
    <3> QED BY <1>1, <3>1 DEF Kept
  <2> QED BY <2>1, <2>2
<1>8. holds' \in [Variable -> SUBSET Function]
  <2>1. holds' = [v \in Variable |-> holds'[v]]
    BY <1>2
  <2> QED BY <1>7, <2>1
<1> QED BY <1>1, <1>3, <1>4, <1>6, <1>7, <1>8 DEF Kept

\* What is said of a call that was executed stays true.
LEMMA MarkStays ==
    ASSUME unit' = unit
    PROVE  /\ \A c, f : MarkedRight(c, f)' <=> MarkedRight(c, f)
           /\ bound' = bound => (BindingsAgree' <=> BindingsAgree)
           /\ executed' = executed => (CallsAgree' <=> CallsAgree)
<1>1. \A f : Does(f)' = Does(f) /\ TypeOf(f)' = TypeOf(f)
  BY UnitStays
<1>2. ASSUME NEW c, NEW f PROVE MarkedRight(c, f)' <=> MarkedRight(c, f)
  BY <1>1 DEF MarkedRight
<1>3. bound' = bound => (BindingsAgree' <=> BindingsAgree)
  BY <1>1 DEF BindingsAgree
<1>4. executed' = executed => (CallsAgree' <=> CallsAgree)
  BY <1>1, <1>2 DEF CallsAgree
<1> QED BY <1>2, <1>3, <1>4

\* A call is not reported when it is marked as what each function that is executed does, and
\* only then, unless its argument follows other pointers.
LEMMA CallTells ==
    ASSUME Kept, DeclarationsAgree, BindingsAgree, CalleesUncast, reports = {},
           assigned => ~HasReferenceTag(Caller),
           NEW e \in unit.work.callees, NEW wrapper \in Tag, NEW arg \in unit.work.args,
           Call(e, wrapper, arg)
    PROVE  \E c : /\ executed' = executed \cup {c} /\ c.arg = arg
                  /\ reports' = {}
                        => \A f, g \in c.targets : MarkedRight(c, f) /\ Does(f) = Does(g)
                  /\ PlainArgument(arg)
                        /\ (\A f, g \in c.targets : MarkedRight(c, f) /\ Does(f) = Does(g))
                     => reports' = {}
<1>  DEFINE ref == HasReferenceTag(Caller)
            c == [targets |-> Reaches(e), wrapper |-> wrapper, arg |-> arg,
                  null |-> Null(arg, ref /\ ~assigned)]
            Differ == CheckConditionalCallee(e)
            Moves == CheckMoveOfBorrowedParam(CalleeTag(e), arg)
            Marks == CheckOperator(CalleeTag(e), wrapper)
            Nulls == {x \in {"ReferenceInvalidArgument"} :
                         FunctionTypeOf(e[1]).ref /\ ~IsValidArgument(arg, ref)}
<1>0. /\ unit \in Units /\ e \in Expression /\ arg \in Argument
      /\ seen[Caller] \in DOMAIN Decls(Caller) /\ \A b \in Range(e) : b.casts = <<>>
  <2>1. unit \in Units /\ Caller \in Function /\ seen[Caller] > 0
    BY UnitsAssumption DEF Kept, Call
  <2>2. seen[Caller] \in Nat /\ seen[Caller] <= Len(Decls(Caller))
    BY <2>1 DEF Kept
  <2>3. seen[Caller] \in DOMAIN Decls(Caller)
    BY <2>1, <2>2, DeclarationTypes
  <2>4. unit.work.callees \subseteq Expression /\ unit.work.args \subseteq Argument
    BY <2>1, UnitsAssumption
  <2> QED BY <2>1, <2>3, <2>4 DEF CalleesUncast
<1>1. /\ Usable(e) /\ executed' = executed \cup {c}
      /\ reports' = Differ \cup IF HaveSameTags(e) THEN Moves \cup Marks \cup Nulls ELSE {}
  <2>1. Usable(e) /\ executed' = executed \cup {c}
    BY DEF Call
  <2>2. reports' = reports \cup Differ \cup IF HaveSameTags(e) THEN Moves \cup Marks \cup Nulls ELSE {}
    BY Zenon DEF Call
  <2> QED BY <2>1, <2>2
<1>2. c.null = Null(arg, ref) /\ ref \in BOOLEAN
  <2>1. ref \in BOOLEAN
    BY DEF HasReferenceTag
  <2>2. (ref /\ ~assigned) = ref
    BY <2>1
  <2> QED BY <2>1, <2>2
<1>3. /\ Reaches(e) # {} /\ Reaches(e) \subseteq Function
      /\ Differ = {} <=> \A f, g \in Reaches(e) : Does(f) = Does(g)
      /\ Differ = {} => HaveSameTags(e) /\ \A f \in Reaches(e) :
                           Does(f) = FunctionTypeOf(e[1]) /\ CalleeTag(e) = Does(f).tag
  BY <1>0, <1>1, CalleeTells
<1>4. ASSUME Differ = {}, NEW f \in Reaches(e)
      PROVE  /\ Marks = {} <=> wrapper = IF Does(f).tag # None /\ unit.options[Does(f).tag]
                                         THEN Does(f).tag ELSE None
             /\ Moves = {} <=> ~(/\ Does(f).tag = "move" /\ Does(Caller).tag \in {"modify", "out"}
                                 /\ GivesParameter(arg))
  <2>1. f \in Function /\ CalleeTag(e) = Does(f).tag
    BY <1>3, <1>4
  <2> QED BY <1>0, <2>1, MarkTells
<1>5. ASSUME Differ = {}, NEW f \in Reaches(e)
      PROVE  /\ Nulls = {} => ~(Does(f).ref /\ Null(arg, ref))
             /\ PlainArgument(arg) /\ ~(Does(f).ref /\ Null(arg, ref)) => Nulls = {}
  <2>1. Nulls = {} <=> ~(Does(f).ref /\ ~IsValidArgument(arg, ref))
    BY <1>3, <1>5
  <2>2. IsValidArgument(arg, ref) => ~Null(arg, ref)
    BY <1>0, <1>2, ValidIsNotNull
  <2>3. PlainArgument(arg) /\ ~Null(arg, ref) => IsValidArgument(arg, ref)
    BY <1>0, <1>2, NotNullIsValid
  <2> QED BY <2>1, <2>2, <2>3
<1>6. c.targets = Reaches(e) /\ c.wrapper = wrapper /\ c.arg = arg
  OBVIOUS
<1>  HIDE DEF c, ref, Differ, Moves, Marks, Nulls
<1>7. ASSUME reports' = {}, NEW f \in c.targets, NEW g \in c.targets
      PROVE  MarkedRight(c, f) /\ Does(f) = Does(g)
  <2>1. Differ = {} /\ Does(f) = Does(g) /\ HaveSameTags(e)
    BY <1>1, <1>3, <1>6, <1>7
  <2>2. Moves = {} /\ Marks = {} /\ Nulls = {}
    BY <1>1, <1>7, <2>1
  <2> QED BY <1>2, <1>4, <1>5, <1>6, <1>7, <2>1, <2>2 DEF MarkedRight
<1>8. ASSUME PlainArgument(arg), \A f, g \in c.targets : MarkedRight(c, f) /\ Does(f) = Does(g)
      PROVE  reports' = {}
  <2>1. PICK f \in Reaches(e) : TRUE
    BY <1>3
  <2>2. MarkedRight(c, f)
    BY <1>6, <1>8
  <2>3. Differ = {}
    BY <1>3, <1>6, <1>8
  <2>4. Moves = {} /\ Marks = {} /\ Nulls = {}
    BY <1>2, <1>4, <1>5, <1>6, <1>8, <2>2, <2>3 DEF MarkedRight
  <2> QED BY <1>1, <2>3, <2>4
<1> QED BY <1>1, <1>6, <1>7, <1>8

\* A step keeps what is kept and told.
LEMMA Keeps ==
    ASSUME Kept, Told, [Next]_vars
    PROVE  Kept' /\ Told'
<1>1. ASSUME NEW f \in Function, VisitFunction(f) PROVE Kept' /\ Told'
  BY <1>1, VisitKeeps
<1>2. ASSUME BindPointer \/ InitializeRecord PROVE Kept' /\ Told'
  <2>1. PICK vs, es : Bind(vs, es) /\ \A i \in DOMAIN es : vs[i] \in Variable /\ es[i] \in Expression
    BY <1>2, Bindings
  <2>2. Kept'
    BY <2>1, BindKeeps
  <2>3. seen' = seen /\ functions' = functions
    BY <2>1 DEF Bind
  <2> QED BY <2>2, <2>3, Grows, ToldStays
<1>3. ASSUME VisitCall PROVE Kept' /\ Told'
  <2>1. PICK e \in unit.work.callees, wrapper \in Tag, arg \in unit.work.args : Call(e, wrapper, arg)
    BY <1>3 DEF VisitCall
  <2>2. UNCHANGED <<unit, seen, inBody, functions, holds, bound, assigned>>
    BY <2>1, Zenon DEF Call
  <2>3. /\ \A f : Decls(f)' = Decls(f) /\ HasReferenceTag(f)' = HasReferenceTag(f)
        /\ \A f : \A k : TagOfDeclaration(f, k)' = TagOfDeclaration(f, k)
    BY <2>2, UnitStays
  <2>4. Kept'
    BY <2>2, <2>3, Grows DEF Kept
  <2> QED BY <2>2, <2>4, Grows, ToldStays
<1>4. ASSUME VisitAssignment PROVE Kept' /\ Told'
  <2>1. /\ UNCHANGED <<unit, seen, inBody, functions, holds, bound>> /\ assigned' = TRUE
        /\ HasReferenceTag(Caller) => "ReferenceReassigned" \in reports'
    BY <1>4 DEF VisitAssignment
  <2>2. /\ \A f : Decls(f)' = Decls(f) /\ HasReferenceTag(f)' = HasReferenceTag(f)
        /\ \A f : \A k : TagOfDeclaration(f, k)' = TagOfDeclaration(f, k)
    BY <2>1, UnitStays
  <2>3. Kept'
    BY <2>1, <2>2 DEF Kept
  <2> QED BY <2>1, <2>3, Grows, ToldStays
<1>5. CASE UNCHANGED vars
  <2>1. UNCHANGED <<unit, seen, inBody, functions, holds, bound, assigned, reports>>
    BY <1>5 DEF vars
  <2>2. /\ \A f : Decls(f)' = Decls(f) /\ HasReferenceTag(f)' = HasReferenceTag(f)
        /\ \A f : \A k : TagOfDeclaration(f, k)' = TagOfDeclaration(f, k)
    BY <2>1, UnitStays
  <2>3. Kept'
    BY <2>1, <2>2 DEF Kept
  <2> QED BY <2>1, <2>3, ToldStays
<1> QED BY <1>1, <1>2, <1>3, <1>4, <1>5 DEF Next

\* A step that is not reported keeps bindings and calls right.
LEMMA QuietSteps ==
    ASSUME Kept, QuietSoFar, [Next]_vars
    PROVE  QuietSoFar'
<1>1. SUFFICES ASSUME DeclarationsAgree', CalleesUncast', NoCastConditional', reports' = {}
               PROVE  BindingsAgree' /\ CallsAgree'
  BY DEF QuietSoFar
<1>2. unit' = unit /\ reports = {}
  BY Grows, <1>1
<1>3. DeclarationsAgree /\ CalleesUncast /\ NoCastConditional
  BY <1>1, <1>2, UnitStays
<1>4. BindingsAgree /\ CallsAgree
  BY <1>2, <1>3 DEF QuietSoFar
<1>5. UNCHANGED <<bound, executed>> => BindingsAgree' /\ CallsAgree'
  BY <1>2, <1>4, MarkStays
<1>6. ASSUME NEW f \in Function, VisitFunction(f) PROVE BindingsAgree' /\ CallsAgree'
  <2>1. UNCHANGED <<bound, executed>>
    BY <1>6 DEF VisitFunction
  <2> QED BY <1>5, <2>1
<1>7. ASSUME BindPointer \/ InitializeRecord PROVE BindingsAgree' /\ CallsAgree'
  <2>1. PICK vs, es :
          /\ Bind(vs, es)
          /\ \A i \in DOMAIN es : vs[i] \in Variable /\ es[i] \in unit.work.sources /\ es[i] \in Expression
    BY <1>7, Bindings
  <2>2. /\ \A i \in DOMAIN es : Usable(es[i])
        /\ reports' = reports \cup UNION {CheckBinding(vs[i], es[i]) : i \in DOMAIN es}
        /\ executed' = executed
        /\ bound' = bound \cup UNION {{vs[i]} \X Reaches(es[i]) : i \in DOMAIN es}
    BY <2>1 DEF Bind
  <2>3. ASSUME NEW i \in DOMAIN es, NEW f \in Reaches(es[i]) PROVE TypeOf(vs[i]) = Does(f)
    <3>1. CheckBinding(vs[i], es[i]) = {}
      BY <1>1, <2>2
    <3>2. \A b \in Range(es[i]) : Known(b)
      BY <1>3, <2>1 DEF NoCastConditional
    <3> QED BY <1>3, <1>4, <2>1, <2>2, <3>1, <3>2, BindingTells
  <2>4. ASSUME NEW b \in bound' PROVE TypeOf(b[1]) = Does(b[2])
    <3>1. CASE b \in bound
      BY <1>4, <3>1 DEF BindingsAgree
    <3>2. CASE b \notin bound
      <4>1. PICK i \in DOMAIN es : b \in {vs[i]} \X Reaches(es[i])
        BY <2>2, <3>2
      <4>2. b[1] = vs[i] /\ b[2] \in Reaches(es[i])
        BY <4>1
      <4> QED BY <2>3, <4>2
    <3> QED BY <3>1, <3>2
  <2>5. \A x : TypeOf(x)' = TypeOf(x) /\ Does(x)' = Does(x)
    BY <1>2, UnitStays
  <2>6. BindingsAgree'
    BY <2>4, <2>5 DEF BindingsAgree
  <2> QED BY <1>2, <1>4, <2>2, <2>6, MarkStays
<1>8. ASSUME VisitCall PROVE BindingsAgree' /\ CallsAgree'
  <2>1. PICK e \in unit.work.callees, wrapper \in Tag, arg \in unit.work.args : Call(e, wrapper, arg)
    BY <1>8 DEF VisitCall
  <2>2. bound' = bound
    BY <2>1 DEF Call
  <2>3. assigned => ~HasReferenceTag(Caller)
    BY <1>2 DEF Kept
  <2>4. PICK c : /\ executed' = executed \cup {c}
                 /\ \A f, g \in c.targets : MarkedRight(c, f) /\ Does(f) = Does(g)
    BY <1>1, <1>2, <1>3, <1>4, <2>1, <2>3, CallTells
  <2>5. \A d \in executed' : \A f, g \in d.targets : MarkedRight(d, f) /\ Does(f) = Does(g)
    BY <1>4, <2>4 DEF CallsAgree
  <2>6. \A f : Does(f)' = Does(f) /\ \A d : MarkedRight(d, f)' <=> MarkedRight(d, f)
    BY <1>2, UnitStays, MarkStays
  <2>7. CallsAgree'
    BY <2>5, <2>6 DEF CallsAgree
  <2> QED BY <1>2, <1>4, <2>2, <2>7, MarkStays
<1>9. ASSUME VisitAssignment PROVE BindingsAgree' /\ CallsAgree'
  <2>1. UNCHANGED <<bound, executed>>
    BY <1>9 DEF VisitAssignment
  <2> QED BY <1>5, <2>1
<1>10. CASE UNCHANGED vars
  <2>1. UNCHANGED <<bound, executed>>
    BY <1>10 DEF vars
  <2> QED BY <1>5, <2>1
<1> QED BY <1>6, <1>7, <1>8, <1>9, <1>10 DEF Next

\* Declarations that were all visited, and not reported, agree.
LEMMA FinishedDeclarationsAgree ==
    ASSUME Kept, Told, Finished, PlainDeclarations, SpelledAlike, reports = {}
    PROVE  DeclarationsAgree
<1>1. SUFFICES ASSUME NEW f \in Function, NEW i \in DOMAIN Decls(f)
               PROVE  /\ Decls(f)[i].tag \in {Does(f).tag, None} /\ GetParamTag(f, i) = Does(f).tag
                      /\ Decls(f)[i].ref = Does(f).ref
  BY DEF DeclarationsAgree
<1>2. /\ unit \in Units /\ seen[f] = Len(Decls(f)) /\ DOMAIN Decls(f) = 1..Len(Decls(f))
      /\ Len(Decls(f)) \in {1, 2}
  <2>1. unit \in Units /\ seen[f] = Len(Decls(f))
    BY DEF Kept, Finished
  <2>2. Len(Decls(f)) \in Nat \ {0} /\ DOMAIN Decls(f) = 1..Len(Decls(f))
    BY <2>1, DeclarationTypes
  <2>3. Len(Decls(f)) <= 2
    BY DEF PlainDeclarations
  <2> QED BY <2>1, <2>2, <2>3
<1>3. /\ \A k \in 1..seen[f] : unit.const[f] \/ TagOfDeclaration(f, k) # None
      /\ seen[f] = 2 => TagOfDeclaration(f, 1) = TagOfDeclaration(f, 2)
      /\ seen[f] > 0 => \A j \in DOMAIN Decls(f) : Decls(f)[j].ref = Decls(f)[1].ref
  BY DEF Told
<1>4. \A k \in DOMAIN Decls(f) : unit.const[f] \/ TagOfDeclaration(f, k) # None
  BY <1>2, <1>3
<1>5. \A j, k \in DOMAIN Decls(f) : TagOfDeclaration(f, j) = TagOfDeclaration(f, k)
  BY <1>2, <1>3
<1>6. \A j \in DOMAIN Decls(f) : Decls(f)[j].ref = Decls(f)[1].ref
  BY <1>2, <1>3
<1> QED BY <1>2, <1>4, <1>5, <1>6, QuietDeclarationsAgree

\* What the rules keep.
THEOREM QuietInv ==
    Spec => [](Kept /\ Told /\ QuietSoFar)
<1>1. Kept /\ Told /\ QuietSoFar /\ [Next]_vars => (Kept /\ Told /\ QuietSoFar)'
  BY Keeps, QuietSteps
<1> QED BY <1>1, Begins, PTL DEF Spec

\* When none of the four rules reports anything, each call site shows what every function that
\* is executed there does with its parameter, and no reference is null.
THEOREM QuietCode ==
    Spec => []QuietCodeKeepsItsTags
<1>1. Kept /\ Told /\ QuietSoFar => QuietCodeKeepsItsTags
  BY FinishedDeclarationsAgree DEF QuietCodeKeepsItsTags, QuietSoFar
<1> QED BY <1>1, QuietInv, PTL

\* Code whose declarations, bindings and calls agree gets no report from any of the four rules.
THEOREM AgreeingCode ==
    Spec => []CodeThatAgreesIsQuiet
<1>1. Init => CodeThatAgreesIsQuiet
  <2>1. SUFFICES ASSUME Init, TagsWhereNeeded PROVE reports = {}
    BY DEF CodeThatAgreesIsQuiet
  <2> QED BY <2>1 DEF Init, TypeReports, TagsWhereNeeded
<1>2. ASSUME Kept, CodeThatAgreesIsQuiet, [Next]_vars PROVE CodeThatAgreesIsQuiet'
  <2>1. SUFFICES ASSUME TagsWhereNeeded', DeclarationsAgree', BindingsAgree', CallsAgree', CalleesUncast',
                        (\A c \in executed : PlainArgument(c.arg))', ~(assigned /\ Does(Caller).ref)'
                 PROVE  reports' = {}
    BY DEF CodeThatAgreesIsQuiet
  <2>2. unit' = unit /\ bound \subseteq bound' /\ executed \subseteq executed'
    BY <1>2, Grows
  <2>3. /\ TagsWhereNeeded /\ DeclarationsAgree /\ CalleesUncast
        /\ \A f : /\ Decls(f)' = Decls(f) /\ Does(f)' = Does(f) /\ TypeOf(f)' = TypeOf(f)
                  /\ HasReferenceTag(f) = Does(f).ref
    BY <2>1, <2>2, UnitStays, DoesIs
  <2>4. BindingsAgree
    BY <2>1, <2>2, <2>3 DEF BindingsAgree
  <2>5. \A c \in executed' : \A f, g \in c.targets : MarkedRight(c, f) /\ Does(f) = Does(g)
    BY <2>1, <2>2, <2>3, MarkStays DEF CallsAgree
  <2>6. CallsAgree /\ \A c \in executed : PlainArgument(c.arg)
    BY <2>1, <2>2, <2>5 DEF CallsAgree
  <2>7. ASSUME assigned => assigned' PROVE reports = {} /\ (assigned => ~HasReferenceTag(Caller))
    <3>1. ~(assigned /\ Does(Caller).ref)
      BY <2>1, <2>3, <2>7
    <3> QED BY <1>2, <2>3, <2>4, <2>6, <3>1 DEF CodeThatAgreesIsQuiet
  <2>8. ASSUME NEW f \in Function, VisitFunction(f) PROVE reports' = {}
    <3>  DEFINE i == seen[f] + 1
                tag == TagOfDeclaration(f, i)
                key == MakeKey(f, i)
                defines == Decls(f)[i].defines
    <3>1. /\ seen[f] < Len(Decls(f)) /\ assigned' = assigned
          /\ reports' = reports
                \cup {c \in {"MovementTagMissing"} : ~unit.const[f] /\ tag = None}
                \cup {c \in {"MovementTagMismatch"} :
                          defines /\ functions[key] \notin {"no declaration", tag}}
                \cup {c \in {"ReferenceDeclarationTagMismatch"} : i = 1 /\
                          \E j \in DOMAIN Decls(f) : Decls(f)[j].ref # Decls(f)[1].ref}
      BY <2>8, Zenon DEF VisitFunction
    <3>2. seen[f] \in Nat /\ seen[f] <= Len(Decls(f)) /\ unit \in Units
      BY <1>2 DEF Kept
    <3>3. Len(Decls(f)) \in Nat \ {0} /\ DOMAIN Decls(f) = 1..Len(Decls(f))
      BY <3>2, DeclarationTypes
    <3>4. ASSUME NEW k \in DOMAIN Decls(f) PROVE TagOfDeclaration(f, k) = Does(f).tag
      <4>1. CASE unit.const[f]
        BY <2>3, <4>1 DEF TagOfDeclaration, TagsWhereNeeded
      <4>2. CASE ~unit.const[f]
        BY <2>3, <3>2, <4>2, AgreeingTags
      <4> QED BY <4>1, <4>2
    <3>5. i \in DOMAIN Decls(f) /\ tag = Does(f).tag
      <4>1. i \in 1..Len(Decls(f))
        <5>1. seen[f] < Len(Decls(f))
          BY <3>1
        <5> QED BY <3>2, <3>3, <5>1
      <4> QED BY <3>3, <3>4, <4>1
    <3>6. ~(~unit.const[f] /\ tag = None)
      BY <2>3, <3>5 DEF TagsWhereNeeded
    <3>7. functions[key] \in {"no declaration", tag}
      <4>1. SUFFICES ASSUME functions[key] # "no declaration" PROVE functions[key] = tag
        OBVIOUS
      <4>2. PICK k \in 1..seen[f] : functions[key] = TagOfDeclaration(f, k)
        <5>1. key = <<f, Decls(f)[i].spelling>> /\ Decls(f)[i].spelling \in Spelling
          BY <3>2, <3>5, KeyTypes DEF MakeKey
        <5> HIDE DEF key
        <5> QED BY <1>2, <4>1, <5>1 DEF Kept
      <4>3. k \in DOMAIN Decls(f)
        BY <3>2, <3>3
      <4> QED BY <3>4, <3>5, <4>2, <4>3
    <3>8. \A j \in DOMAIN Decls(f) : Decls(f)[j].ref = Decls(f)[1].ref
      <4>1. 1 \in DOMAIN Decls(f)
        BY <3>3
      <4> QED BY <2>3, <4>1 DEF DeclarationsAgree
    <3>  HIDE DEF tag, key, defines, i
    <3> QED BY <2>7, <3>1, <3>6, <3>7, <3>8
  <2>9. ASSUME BindPointer \/ InitializeRecord PROVE reports' = {}
    <3>1. PICK vs, es : Bind(vs, es) /\ \A i \in DOMAIN es : vs[i] \in Variable /\ es[i] \in Expression
      BY <1>2, <2>9, Bindings
    <3>2. /\ \A i \in DOMAIN es : Usable(es[i])
          /\ reports' = reports \cup UNION {CheckBinding(vs[i], es[i]) : i \in DOMAIN es}
          /\ assigned' = assigned
          /\ bound' = bound \cup UNION {{vs[i]} \X Reaches(es[i]) : i \in DOMAIN es}
      BY <3>1 DEF Bind
    <3>3. ASSUME NEW i \in DOMAIN es PROVE CheckBinding(vs[i], es[i]) = {}
      <4>1. ASSUME NEW f \in Reaches(es[i]) PROVE TypeOf(vs[i]) = Does(f)
        <5>1. <<vs[i], f>> \in bound'
          BY <3>2
        <5> QED BY <2>1, <2>3, <5>1 DEF BindingsAgree
      <4> QED BY <1>2, <2>3, <2>4, <3>1, <3>2, <4>1, BindingTells
    <3> QED BY <2>7, <3>2, <3>3
  <2>10. ASSUME VisitCall PROVE reports' = {}
    <3>1. PICK e \in unit.work.callees, wrapper \in Tag, arg \in unit.work.args : Call(e, wrapper, arg)
      BY <2>10 DEF VisitCall
    <3>2. assigned' = assigned
      BY <3>1 DEF Call
    <3>3. PICK c : /\ executed' = executed \cup {c} /\ c.arg = arg
                   /\ PlainArgument(arg)
                         /\ (\A f, g \in c.targets : MarkedRight(c, f) /\ Does(f) = Does(g))
                      => reports' = {}
      BY <1>2, <2>3, <2>4, <2>7, <3>1, <3>2, CallTells
    <3>4. c \in executed' /\ PlainArgument(arg)
      BY <2>1, <3>3
    <3> QED BY <2>5, <3>3, <3>4
  <2>11. ASSUME VisitAssignment PROVE reports' = {}
    <3>1. assigned' = TRUE /\ reports' = reports \cup {c \in {"ReferenceReassigned"} : HasReferenceTag(Caller)}
      BY <2>11 DEF VisitAssignment
    <3>2. ~HasReferenceTag(Caller)
      BY <2>1, <2>3, <3>1
    <3> QED BY <2>7, <3>1, <3>2
  <2>12. CASE UNCHANGED vars
    BY <2>7, <2>12 DEF vars
  <2> QED BY <1>2, <2>8, <2>9, <2>10, <2>11, <2>12 DEF Next
<1>3. Kept /\ CodeThatAgreesIsQuiet /\ [Next]_vars => CodeThatAgreesIsQuiet'
  BY <1>2
<1> QED BY <1>1, <1>3, QuietInv, PTL DEF Spec
=============================================================================
