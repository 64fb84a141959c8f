-------------------------- MODULE RbacLoaderProofs --------------------------
(***************************************************************************)
(* Proofs of what RbacLoader states: the types, that no row is without its *)
(* parent, that a listening server has applied its documents faithfully,   *)
(* and that a restart ends where the first start would have.               *)
(*                                                                         *)
(* The first part is about sequences in general.  Induction is derived     *)
(* from the well-foundedness of <, and gives the recursion FlattenSeq is   *)
(* defined by.                                                             *)
(***************************************************************************)
EXTENDS RbacLoader, Integers, WellFoundedInduction, TLAPS

-----------------------------------------------------------------------------
(* Numbers                                                                 *)

\* A set of numbers with 0 and the successor of each of its members has them all.
LEMMA Induction ==
    ASSUME NEW S, 0 \in S, \A n \in Nat : n \in S => n + 1 \in S
    PROVE  Nat \subseteq S
<1> DEFINE T == Nat \ S
<1>1. SUFFICES ASSUME T # {} PROVE FALSE
  OBVIOUS
<1>2. PICK x \in T : \A y \in T : ~(<<y, x>> \in OpToRel(<, Nat))
  BY <1>1, NatLessThanWellFounded, WFMin
<1>3. x - 1 \in T /\ x - 1 < x
  OBVIOUS
<1>4. <<x - 1, x>> \in OpToRel(<, Nat)
  BY <1>3 DEF OpToRel
<1> QED
  BY <1>2, <1>3, <1>4

\* A set of numbers up to n has a greatest element.
LEMMA Greatest ==
    ASSUME NEW n \in Nat, NEW S, S \subseteq 1 .. n, S # {}
    PROVE  \E m \in S : \A k \in S : k <= m
<1> DEFINE P(m) == \A T \in SUBSET (1 .. m) : T # {} => \E g \in T : \A k \in T : k <= g
           Q == {m \in Nat : P(m)}
<1>1. 0 \in Q
  <2>1. 1 .. 0 = {}
    OBVIOUS
  <2>2. P(0)
    BY <2>1
  <2> HIDE DEF P
  <2> QED
    BY <2>2
<1>2. ASSUME NEW m \in Nat, m \in Q PROVE m + 1 \in Q
  <2>1. ASSUME NEW T \in SUBSET (1 .. (m + 1)), T # {}
        PROVE  \E g \in T : \A k \in T : k <= g
    <3>1. CASE m + 1 \in T
      BY <3>1
    <3>2. CASE m + 1 \notin T
      <4>1. T \in SUBSET (1 .. m)
        BY <3>2
      <4> QED
        BY <1>2, <2>1, <4>1
    <3> QED
      BY <3>1, <3>2
  <2> QED
    BY <2>1
<1>3. n \in Q
  <2> HIDE DEF Q
  <2> QED
    BY <1>1, <1>2, Induction
<1> QED
  BY <1>3

-----------------------------------------------------------------------------
(* Sequences of sequences                                                  *)

\* f[i] is the concatenation of the first i sequences.
Concatenates(f, ss) ==
    f = [i \in 1 .. Len(ss) |-> IF i = 1 THEN ss[i] ELSE f[i - 1] \o ss[i]]

\* FlattenSeq returns the last value of that recursion, which has a solution.
LEMMA FlattenRecursion ==
    ASSUME NEW A, NEW ss \in Seq(Seq(A)), ss # <<>>
    PROVE  \E f : Concatenates(f, ss) /\ FlattenSeq(ss) = f[Len(ss)]
<1> DEFINE Rec(f, m) == f = [i \in 1 .. m |-> IF i = 1 THEN ss[i] ELSE f[i - 1] \o ss[i]]
           P(m) == \E f : Rec(f, m)
           Q == {m \in Nat : P(m)}
<1>1. 0 \in Q
  <2>1. Rec(<<>>, 0)
    OBVIOUS
  <2> QED
    BY <2>1
<1>2. ASSUME NEW m \in Nat, m \in Q PROVE m + 1 \in Q
  <2>1. PICK f : Rec(f, m)
    BY <1>2
  <2> DEFINE g == [i \in 1 .. (m + 1) |->
                      IF i <= m THEN f[i] ELSE IF i = 1 THEN ss[i] ELSE f[i - 1] \o ss[i]]
  <2>2. ASSUME NEW i \in 1 .. (m + 1)
        PROVE  g[i] = IF i = 1 THEN ss[i] ELSE g[i - 1] \o ss[i]
    <3>1. CASE i <= m
      <4>1. i \in 1 .. m /\ g[i] = f[i]
        BY <3>1
      <4>2. f[i] = IF i = 1 THEN ss[i] ELSE f[i - 1] \o ss[i]
        BY <2>1, <4>1
      <4>3. i # 1 => i - 1 \in 1 .. (m + 1) /\ i - 1 <= m
        BY <4>1
      <4>4. i # 1 => g[i - 1] = f[i - 1]
        BY <4>3
      <4> HIDE DEF g
      <4> QED
        BY <4>1, <4>2, <4>4
    <3>2. CASE i = m + 1
      <4>1. ~(i <= m) /\ (i # 1 => i - 1 \in 1 .. (m + 1) /\ i - 1 <= m)
        BY <3>2
      <4>2. i # 1 => g[i - 1] = f[i - 1]
        BY <4>1
      <4>3. g[i] = IF i = 1 THEN ss[i] ELSE f[i - 1] \o ss[i]
        BY <4>1
      <4> HIDE DEF g
      <4> QED
        BY <4>2, <4>3
    <3> QED
      BY <3>1, <3>2
  <2>3. Rec(g, m + 1)
    <3>1. g = [i \in 1 .. (m + 1) |-> g[i]]
      OBVIOUS
    <3> HIDE DEF g
    <3> QED
      BY <2>2, <3>1
  <2>4. P(m + 1)
    <3> HIDE DEF Rec
    <3> QED
      BY <2>3
  <2> HIDE DEF P
  <2> QED
    BY <2>4
<1>3. Len(ss) \in Q
  <2>1. Len(ss) \in Nat
    OBVIOUS
  <2> HIDE DEF Q
  <2> QED
    BY <1>1, <1>2, <2>1, Induction
<1> DEFINE c == CHOOSE f : Rec(f, Len(ss))
<1>4. Rec(c, Len(ss))
  BY <1>3
<1>5. FlattenSeq(ss) = c[Len(ss)]
  <2>1. Len(ss) # 0
    OBVIOUS
  <2> QED
    BY <2>1 DEF FlattenSeq
<1> HIDE DEF c
<1> QED
  BY <1>4, <1>5 DEF Concatenates

\* What FlattenSeq returns: every element of every sequence, in order; seg and
\* off say from which one, and from where in it, each element comes.
Places(F, ss, n, seg, off) ==
    /\ seg \in [1 .. Len(F) -> 1 .. n] /\ off \in [1 .. Len(F) -> Nat]
    /\ \A p \in 1 .. Len(F) : off[p] \in 1 .. Len(ss[seg[p]]) /\ F[p] = ss[seg[p]][off[p]]
    /\ \A i \in 1 .. n : \A j \in 1 .. Len(ss[i]) : \E p \in 1 .. Len(F) : seg[p] = i /\ off[p] = j
    /\ \A p, q \in 1 .. Len(F) : p < q => \/ seg[p] < seg[q]
                                          \/ seg[p] = seg[q] /\ off[p] < off[q]

\* Places of a concatenation.
LEMMA PlacesExtend ==
    ASSUME NEW A, NEW ss \in Seq(Seq(A)), NEW n \in Nat, n < Len(ss),
           NEW F \in Seq(A), NEW seg, NEW off, Places(F, ss, n, seg, off)
    PROVE  \E sg, of : Places(F \o ss[n + 1], ss, n + 1, sg, of)
<1> DEFINE s == ss[n + 1]
           G == F \o s
           sg == [p \in 1 .. Len(G) |-> IF p <= Len(F) THEN seg[p] ELSE n + 1]
           of == [p \in 1 .. Len(G) |-> IF p <= Len(F) THEN off[p] ELSE p - Len(F)]
<1>1. s \in Seq(A) /\ G \in Seq(A) /\ Len(G) = Len(F) + Len(s) /\ Len(F) \in Nat /\ Len(s) \in Nat
  OBVIOUS
<1>2. /\ \A p \in 1 .. Len(F) : G[p] = F[p] /\ p \in 1 .. Len(G)
      /\ \A j \in 1 .. Len(s) : G[Len(F) + j] = s[j] /\ Len(F) + j \in 1 .. Len(G)
  BY <1>1
<1>3. \A p \in 1 .. Len(G) : ~(p <= Len(F)) => p - Len(F) \in 1 .. Len(s) /\ G[p] = s[p - Len(F)]
  BY <1>1
<1>4. sg \in [1 .. Len(G) -> 1 .. (n + 1)] /\ of \in [1 .. Len(G) -> Nat]
  BY <1>1, <1>3 DEF Places
<1>5. \A p \in 1 .. Len(G) : of[p] \in 1 .. Len(ss[sg[p]]) /\ G[p] = ss[sg[p]][of[p]]
  BY <1>1, <1>2, <1>3 DEF Places
<1>6. ASSUME NEW i \in 1 .. (n + 1), NEW j \in 1 .. Len(ss[i])
      PROVE  \E p \in 1 .. Len(G) : sg[p] = i /\ of[p] = j
  <2>0. i \in 1 .. n \/ i = n + 1
    OBVIOUS
  <2>1. CASE i \in 1 .. n
    <3>1. PICK p \in 1 .. Len(F) : seg[p] = i /\ off[p] = j
      BY <2>1 DEF Places
    <3>2. p \in 1 .. Len(G) /\ p <= Len(F)
      BY <1>1, <1>2
    <3> QED
      BY <3>1, <3>2
  <2>2. CASE i = n + 1
    <3>1. Len(F) + j \in 1 .. Len(G) /\ ~(Len(F) + j <= Len(F)) /\ Len(F) + j - Len(F) = j
      BY <1>1, <1>2, <2>2
    <3> QED
      BY <2>2, <3>1
  <2> QED
    BY <2>0, <2>1, <2>2
<1>7. ASSUME NEW p \in 1 .. Len(G), NEW q \in 1 .. Len(G), p < q
      PROVE  sg[p] < sg[q] \/ (sg[p] = sg[q] /\ of[p] < of[q])
  <2>1. CASE q <= Len(F)
    <3>1. p \in 1 .. Len(F) /\ q \in 1 .. Len(F)
      BY <1>1, <1>7, <2>1
    <3>2. seg[p] < seg[q] \/ (seg[p] = seg[q] /\ off[p] < off[q])
      BY <1>7, <3>1 DEF Places
    <3>3. sg[p] = seg[p] /\ sg[q] = seg[q] /\ of[p] = off[p] /\ of[q] = off[q]
      BY <3>1
    <3> HIDE DEF sg, of
    <3> QED
      BY <3>2, <3>3
  <2>2. CASE p <= Len(F) /\ ~(q <= Len(F))
    <3>1. sg[q] = n + 1 /\ sg[p] = seg[p] /\ p \in 1 .. Len(F)
      BY <1>1, <2>2
    <3>2. seg[p] \in 1 .. n
      BY <3>1 DEF Places
    <3> HIDE DEF sg, of
    <3> QED
      BY <3>1, <3>2
  <2>3. CASE ~(p <= Len(F)) /\ ~(q <= Len(F))
    <3>1. sg[q] = n + 1 /\ sg[p] = n + 1 /\ of[p] = p - Len(F) /\ of[q] = q - Len(F)
      BY <2>3
    <3> HIDE DEF sg, of
    <3> QED
      BY <1>1, <1>7, <3>1
  <2>4. p \in Nat /\ q \in Nat
    BY <1>1
  <2> QED
    BY <1>1, <1>7, <2>1, <2>2, <2>3, <2>4
<1> HIDE DEF sg, of, G
<1>8. Places(G, ss, n + 1, sg, of)
  BY <1>4, <1>5, <1>6, <1>7 DEF Places
<1> QED
  BY <1>8 DEF G

\* FlattenSeq has a place for every element, and for no other.
LEMMA FlattenPlaces ==
    ASSUME NEW A, NEW ss \in Seq(Seq(A))
    PROVE  /\ FlattenSeq(ss) \in Seq(A)
           /\ \E seg, off : Places(FlattenSeq(ss), ss, Len(ss), seg, off)
<1>1. CASE ss = <<>>
  <2>1. FlattenSeq(ss) = <<>>
    BY <1>1 DEF FlattenSeq
  <2>2. Places(<<>>, ss, 0, <<>>, <<>>)
    BY DEF Places
  <2>3. Len(ss) = 0 /\ <<>> \in Seq(A)
    BY <1>1
  <2> QED
    BY <2>1, <2>2, <2>3
<1>2. CASE ss # <<>>
  <2>1. PICK f : Concatenates(f, ss) /\ FlattenSeq(ss) = f[Len(ss)]
    BY <1>2, FlattenRecursion
  <2> DEFINE P(m) == /\ f[m + 1] \in Seq(A)
                     /\ \E seg, off : Places(f[m + 1], ss, m + 1, seg, off)
             Q == {m \in Nat : m < Len(ss) => P(m)}
  <2>2. Len(ss) \in Nat \ {0}
    BY <1>2
  <2>a. \A i \in 1 .. Len(ss) : f[i] = IF i = 1 THEN ss[i] ELSE f[i - 1] \o ss[i]
    BY <2>1 DEF Concatenates
  <2>3. 0 \in Q
    <3>1. f[1] = ss[1] /\ ss[1] \in Seq(A)
      BY <2>a, <2>2
    <3>2. Places(<<>>, ss, 0, <<>>, <<>>)
      BY DEF Places
    <3>3. \E sg, of : Places(<<>> \o ss[0 + 1], ss, 0 + 1, sg, of)
      <4>1. <<>> \in Seq(A) /\ 0 < Len(ss) /\ 0 \in Nat
        BY <2>2
      <4> HIDE DEF Q
      <4> QED BY <3>2, <4>1, PlacesExtend
    <3>4. <<>> \o ss[0 + 1] = ss[1]
      BY <3>1
    <3> QED
      BY <3>1, <3>3, <3>4
  <2>4. ASSUME NEW m \in Nat, m \in Q PROVE m + 1 \in Q
    <3> SUFFICES ASSUME m + 1 < Len(ss) PROVE m + 1 \in Q
      BY <2>2
    <3>0. m + 2 \in 1 .. Len(ss) /\ m + 2 # 1 /\ (m + 2) - 1 = m + 1 /\ m < Len(ss)
      BY <2>2
    <3>a. f[m + 2] = f[m + 1] \o ss[m + 2] 
      BY <2>a, <3>0
    <3>1. f[m + 1] \in Seq(A) /\ ss[m + 2] \in Seq(A)
      BY <2>4, <3>0
    <3>2. PICK seg, off : Places(f[m + 1], ss, m + 1, seg, off)
      BY <2>4, <3>0
    <3>3. m + 1 \in Nat /\ (m + 1) + 1 = m + 2
      OBVIOUS
    <3>4. \E sg, of : Places(f[m + 1] \o ss[(m + 1) + 1], ss, (m + 1) + 1, sg, of)
      <4> HIDE DEF Q
      <4> QED BY <3>1, <3>2, <3>3, PlacesExtend
    <3>5. f[(m + 1) + 1] = f[m + 1] \o ss[(m + 1) + 1]
      BY <3>a, <3>3
    <3>6. f[(m + 1) + 1] \in Seq(A)
      <4>1. f[m + 1] \o ss[(m + 1) + 1] \in Seq(A)
        BY <3>1, <3>3
      <4> QED
        BY <3>5, <4>1
    <3>7. P(m + 1)
      BY <3>4, <3>5, <3>6
    <3> HIDE DEF P
    <3> QED
      BY <3>7
  <2>5. Len(ss) - 1 \in Q
    <3>1. Len(ss) - 1 \in Nat
      BY <2>2
    <3> HIDE DEF Q
    <3> QED
      BY <2>3, <2>4, <3>1, Induction
  <2> QED
    BY <2>1, <2>2, <2>5
<1> QED
  BY <1>1, <1>2
-----------------------------------------------------------------------------
(* The statements of the documents                                         *)

Ids(table) == IF table = "ca_roles" THEN Names \X Subjects \X Names ELSE Names

Rows(table) ==
    CASE table = "root_cas" -> Fingerprints
      [] table = "intermediate_cas" -> [parent : Names, fingerprint : Fingerprints]
      [] table = "ca_roles" -> [parent : Names, role : Names, permissions : Verbs]
      [] table = "ca_token_policies" -> [parent : Names]

\* What apply may build, of complete documents or not.
AnyRow ==
    Fingerprints \cup {None}
    \cup [parent : Names \cup {None}, fingerprint : Fingerprints \cup {None}]
    \cup [parent : Names, role : Names, permissions : Verbs]
    \cup [parent : Names \cup {None}]

Statement ==
    [table : Tables, id : Names \cup {None} \cup (Names \X Subjects \X Names),
     row : AnyRow, legal : BOOLEAN]

\* One the tables can take.
StatementOK(st) ==
    /\ st.table \in Tables
    /\ st.legal => st.id \in Ids(st.table) /\ st.row \in Rows(st.table)

\* The statements the two loops build for each document.
FirstOf(ms) ==
    [i \in 1 .. Len(ms) |->
        CASE ms[i].kind = "root" -> <<applyRootCA(ms[i])>>
          [] ms[i].kind = "intermediate" -> <<applyIntermediateCA(ms[i])>>
          [] OTHER -> <<>>]

SecondOf(ms) ==
    [i \in 1 .. Len(ms) |->
        CASE ms[i].kind = "binding" ->
               IF RoleNamed(ms, ms[i].ref) = 0 THEN <<Failure>>
               ELSE applyRoleBinding(ms[RoleNamed(ms, ms[i].ref)], ms[i])
          [] ms[i].kind = "policy" -> <<applyTokenPolicy(ms[i])>>
          [] OTHER -> <<>>]

\* The statement for one subject of a binding and one rule of its role, and those
\* of each rule.
RoleStatement(role, binding, j, k) ==
    Upsert("ca_roles",
           <<binding.name, binding.subjects[k], Target(role.rules[j], role, binding)>>,
           [parent |-> Target(role.rules[j], role, binding), role |-> role.name,
            permissions |-> role.rules[j].verbs], TRUE)

RulesOf(role, binding) ==
    [j \in 1 .. Len(role.rules) |->
        IF Target(role.rules[j], role, binding) = None THEN <<>>
        ELSE [k \in 1 .. Len(binding.subjects) |-> RoleStatement(role, binding, j, k)]]

LEMMA PassesFlatten ==
    ASSUME NEW ms
    PROVE  FirstPass(ms) = FlattenSeq(FirstOf(ms)) /\ SecondPass(ms) = FlattenSeq(SecondOf(ms))
BY DEF FirstPass, SecondPass, FirstOf, SecondOf

LEMMA BindingFlattens ==
    ASSUME NEW role, NEW binding
    PROVE  applyRoleBinding(role, binding) = FlattenSeq(RulesOf(role, binding))
BY DEF applyRoleBinding, RulesOf, RoleStatement

\* The role a binding finds is the last document of its name.
LEMMA RoleNamedLast ==
    ASSUME NEW ms \in Seq(Document), NEW name
    PROVE  IF Defining(ms, "role", name) = {} THEN RoleNamed(ms, name) = 0
           ELSE /\ RoleNamed(ms, name) \in Defining(ms, "role", name)
                /\ \A i \in Defining(ms, "role", name) : i <= RoleNamed(ms, name)
<1> DEFINE D == Defining(ms, "role", name)
<1>1. D \subseteq 1 .. Len(ms) /\ Len(ms) \in Nat
  BY DEF Defining
<1>2. RoleNamed(ms, name) = IF D # {} THEN Max(D) ELSE 0
  BY DEF RoleNamed, SelectLastInSeq, Defining
<1>3. CASE D # {}
  <2> HIDE DEF D
  <2>1. PICK m \in D : \A k \in D : k <= m
    BY <1>1, <1>3, Greatest
  <2>2. \A k \in D : m >= k
    BY <1>1, <2>1
  <2>3. Max(D) \in D /\ \A k \in D : Max(D) >= k
    BY <2>1, <2>2 DEF Max
  <2>4. \A k \in D : k <= Max(D)
    BY <1>1, <2>3
  <2> QED
    BY <1>2, <1>3, <2>3, <2>4 DEF D
<1> QED
  BY <1>2, <1>3

\* A rule whose target is not blank has a name for it.
LEMMA TargetTyped ==
    ASSUME NEW role \in Document, NEW binding \in Document, NEW j \in 1 .. Len(role.rules)
    PROVE  Target(role.rules[j], role, binding) \in Names \cup {None}
<1>1. role.rules[j] \in Rule
  BY DEF Document
<1> QED
  BY <1>1 DEF Document, Rule, Target

LEMMA RoleStatementTyped ==
    ASSUME NEW role \in Document, NEW binding \in Document,
           NEW j \in 1 .. Len(role.rules), NEW k \in 1 .. Len(binding.subjects),
           Target(role.rules[j], role, binding) # None
    PROVE  /\ RoleStatement(role, binding, j, k) \in Statement
           /\ StatementOK(RoleStatement(role, binding, j, k))
<1> DEFINE t == Target(role.rules[j], role, binding)
           st == RoleStatement(role, binding, j, k)
<1>1. t \in Names
  BY TargetTyped
<1>2. role.rules[j].verbs \in Verbs /\ binding.subjects[k] \in Subjects /\ role.name \in Names
      /\ binding.name \in Names
  <2>1. role.rules[j] \in Rule
    BY DEF Document
  <2> QED
    BY <2>1 DEF Document, Rule
<1> HIDE DEF t
<1>3. <<binding.name, binding.subjects[k], t>> \in Names \X Subjects \X Names
  BY <1>1, <1>2
<1>4. [parent |-> t, role |-> role.name, permissions |-> role.rules[j].verbs]
         \in [parent : Names, role : Names, permissions : Verbs]
  BY <1>1, <1>2
<1>5. /\ st.table = "ca_roles" /\ st.legal = TRUE /\ st.id = <<binding.name, binding.subjects[k], t>>
      /\ st.row = [parent |-> t, role |-> role.name, permissions |-> role.rules[j].verbs]
      /\ st = [table |-> st.table, id |-> st.id, row |-> st.row, legal |-> st.legal]
  BY DEF RoleStatement, Upsert, t
<1>6. "ca_roles" \in Tables
  BY DEF Tables
<1>7. st.row \in AnyRow
  BY <1>4, <1>5 DEF AnyRow
<1> HIDE DEF st
<1>8. st \in Statement
  BY <1>3, <1>5, <1>6, <1>7 DEF Statement
<1>9. st.id \in Ids("ca_roles") /\ st.row \in Rows("ca_roles")
  BY <1>3, <1>4, <1>5 DEF Ids, Rows
<1>10. StatementOK(st)
  BY <1>5, <1>6, <1>9 DEF StatementOK
<1> QED
  BY <1>8, <1>10 DEF st

LEMMA RulesTyped ==
    ASSUME NEW role \in Document, NEW binding \in Document
    PROVE  RulesOf(role, binding) \in Seq(Seq(Statement))
<1>1. ASSUME NEW j \in 1 .. Len(role.rules)
      PROVE  RulesOf(role, binding)[j] \in Seq(Statement)
  <2>1. Len(binding.subjects) \in Nat
    BY DEF Document
  <2>2. CASE Target(role.rules[j], role, binding) = None
    BY <2>2 DEF RulesOf
  <2>3. CASE Target(role.rules[j], role, binding) # None
    <3>1. \A k \in 1 .. Len(binding.subjects) : RoleStatement(role, binding, j, k) \in Statement
      BY <2>3, RoleStatementTyped
    <3>2. RulesOf(role, binding)[j]
             = [k \in 1 .. Len(binding.subjects) |-> RoleStatement(role, binding, j, k)]
      BY <2>3 DEF RulesOf
    <3> QED
      BY <2>1, <3>1, <3>2
  <2> QED
    BY <2>2, <2>3
<1>2. Len(role.rules) \in Nat
  BY DEF Document
<1>3. RulesOf(role, binding) = [j \in 1 .. Len(role.rules) |-> RulesOf(role, binding)[j]]
  BY DEF RulesOf
<1> QED
  BY <1>1, <1>2, <1>3

\* What a document declares fits its table when it is complete.
LEMMA DeclaredTyped ==
    ASSUME NEW m \in Document
    PROVE  /\ m.kind = "root" => /\ applyRootCA(m) \in Statement
                                 /\ Complete(m) => StatementOK(applyRootCA(m))
           /\ m.kind = "intermediate" => /\ applyIntermediateCA(m) \in Statement
                                         /\ Complete(m) => StatementOK(applyIntermediateCA(m))
           /\ m.kind = "policy" => /\ applyTokenPolicy(m) \in Statement
                                   /\ Complete(m) => StatementOK(applyTokenPolicy(m))
           /\ Failure \in Statement /\ StatementOK(Failure)
<1>1. /\ m.name \in Names /\ m.ref \in Names \cup {None} /\ m.fingerprint \in Fingerprints \cup {None}
      /\ m.intermediate \in Names \cup {None} /\ m.legal \in BOOLEAN
  BY DEF Document
<1>2. applyRootCA(m) \in Statement /\ (m.fingerprint # None => StatementOK(applyRootCA(m)))
  BY <1>1 DEF applyRootCA, Upsert, Statement, StatementOK, Tables, AnyRow, Ids, Rows
<1>3. applyIntermediateCA(m) \in Statement
      /\ (m.ref # None /\ m.fingerprint # None => StatementOK(applyIntermediateCA(m)))
  <2> DEFINE row == [parent |-> m.ref, fingerprint |-> m.fingerprint]
  <2>1. row \in [parent : Names \cup {None}, fingerprint : Fingerprints \cup {None}]
    BY <1>1
  <2>2. m.ref # None /\ m.fingerprint # None => row \in [parent : Names, fingerprint : Fingerprints]
    BY <1>1
  <2> HIDE DEF row
  <2> QED
    BY <1>1, <2>1, <2>2
       DEF applyIntermediateCA, Upsert, Statement, StatementOK, Tables, AnyRow, Ids, Rows, row
<1>4. applyTokenPolicy(m) \in Statement
      /\ (m.intermediate # None => StatementOK(applyTokenPolicy(m)))
  <2> DEFINE row == [parent |-> m.intermediate]
  <2>1. row \in [parent : Names \cup {None}]
    BY <1>1
  <2>2. m.intermediate # None => row \in [parent : Names]
    BY <1>1
  <2> HIDE DEF row
  <2> QED
    BY <1>1, <2>1, <2>2
       DEF applyTokenPolicy, Upsert, Statement, StatementOK, Tables, AnyRow, Ids, Rows, row
<1>5. Failure \in Statement /\ StatementOK(Failure)
  BY DEF Failure, Upsert, Statement, StatementOK, Tables, AnyRow
<1> QED
  BY <1>2, <1>3, <1>4, <1>5 DEF Complete


LEMMA FirstTyped ==
    ASSUME NEW ms \in Seq(Document)
    PROVE  FirstOf(ms) \in Seq(Seq(Statement))
<1>1. ASSUME NEW i \in 1 .. Len(ms) PROVE FirstOf(ms)[i] \in Seq(Statement)
  <2>1. ms[i] \in Document
    OBVIOUS
  <2>2. CASE ms[i].kind = "root"
    <3>1. FirstOf(ms)[i] = <<applyRootCA(ms[i])>>
      BY <2>2 DEF FirstOf
    <3> QED
      BY <2>1, <2>2, <3>1, DeclaredTyped
  <2>3. CASE ms[i].kind = "intermediate"
    <3>1. FirstOf(ms)[i] = <<applyIntermediateCA(ms[i])>>
      BY <2>3 DEF FirstOf
    <3> QED
      BY <2>1, <2>3, <3>1, DeclaredTyped
  <2>4. CASE ms[i].kind \notin {"root", "intermediate"}
    <3>1. FirstOf(ms)[i] = <<>>
      BY <2>4 DEF FirstOf
    <3> QED
      BY <3>1
  <2> QED
    BY <2>2, <2>3, <2>4
<1>2. FirstOf(ms) = [i \in 1 .. Len(ms) |-> FirstOf(ms)[i]] /\ Len(ms) \in Nat
  BY DEF FirstOf
<1> QED
  BY <1>1, <1>2

\* What the second loop builds for one document.
LEMMA SecondCases ==
    ASSUME NEW ms \in Seq(Document), NEW i \in 1 .. Len(ms)
    PROVE  \/ /\ ms[i].kind = "binding" /\ RoleNamed(ms, ms[i].ref) = 0
              /\ SecondOf(ms)[i] = <<Failure>>
           \/ /\ ms[i].kind = "binding" /\ RoleNamed(ms, ms[i].ref) # 0
              /\ RoleNamed(ms, ms[i].ref) \in Defining(ms, "role", ms[i].ref)
              /\ SecondOf(ms)[i] = applyRoleBinding(ms[RoleNamed(ms, ms[i].ref)], ms[i])
           \/ /\ ms[i].kind = "policy"
              /\ SecondOf(ms)[i] = <<applyTokenPolicy(ms[i])>>
           \/ /\ ms[i].kind \notin {"binding", "policy"}
              /\ SecondOf(ms)[i] = <<>>
<1>1. RoleNamed(ms, ms[i].ref) # 0 =>
         RoleNamed(ms, ms[i].ref) \in Defining(ms, "role", ms[i].ref)
  BY RoleNamedLast
<1> QED
  BY <1>1 DEF SecondOf

LEMMA SecondTyped ==
    ASSUME NEW ms \in Seq(Document)
    PROVE  SecondOf(ms) \in Seq(Seq(Statement))
<1>1. ASSUME NEW i \in 1 .. Len(ms) PROVE SecondOf(ms)[i] \in Seq(Statement)
  <2>1. ms[i] \in Document
    OBVIOUS
  <2>2. CASE SecondOf(ms)[i] = <<Failure>>
    BY <2>1, <2>2, DeclaredTyped
  <2>3. CASE /\ RoleNamed(ms, ms[i].ref) \in Defining(ms, "role", ms[i].ref)
             /\ SecondOf(ms)[i] = applyRoleBinding(ms[RoleNamed(ms, ms[i].ref)], ms[i])
    <3>1. ms[RoleNamed(ms, ms[i].ref)] \in Document
      BY <2>3 DEF Defining
    <3>2. RulesOf(ms[RoleNamed(ms, ms[i].ref)], ms[i]) \in Seq(Seq(Statement))
      BY <2>1, <3>1, RulesTyped
    <3>3. FlattenSeq(RulesOf(ms[RoleNamed(ms, ms[i].ref)], ms[i])) \in Seq(Statement)
      BY <3>2, FlattenPlaces
    <3> QED
      BY <2>3, <3>3, BindingFlattens
  <2>4. CASE ms[i].kind = "policy" /\ SecondOf(ms)[i] = <<applyTokenPolicy(ms[i])>>
    BY <2>1, <2>4, DeclaredTyped
  <2>5. CASE SecondOf(ms)[i] = <<>>
    BY <2>5
  <2> QED
    BY <2>2, <2>3, <2>4, <2>5, SecondCases
<1>2. SecondOf(ms) = [i \in 1 .. Len(ms) |-> SecondOf(ms)[i]] /\ Len(ms) \in Nat
  BY DEF SecondOf
<1> QED
  BY <1>1, <1>2

\* rule and sub say which rule and which subject each statement of a binding is for.
BindingPlaces(role, binding, rule, sub) ==
    /\ \A p \in 1 .. Len(applyRoleBinding(role, binding)) :
          /\ rule[p] \in 1 .. Len(role.rules) /\ sub[p] \in 1 .. Len(binding.subjects)
          /\ Target(role.rules[rule[p]], role, binding) # None
          /\ applyRoleBinding(role, binding)[p] = RoleStatement(role, binding, rule[p], sub[p])
    /\ \A j \in 1 .. Len(role.rules), k \in 1 .. Len(binding.subjects) :
          Target(role.rules[j], role, binding) # None =>
             \E p \in 1 .. Len(applyRoleBinding(role, binding)) : rule[p] = j /\ sub[p] = k
    /\ \A p, q \in 1 .. Len(applyRoleBinding(role, binding)) : p < q => rule[p] <= rule[q]

LEMMA BindingPlaced ==
    ASSUME NEW role \in Document, NEW binding \in Document
    PROVE  \E rule, sub : BindingPlaces(role, binding, rule, sub)
<1> DEFINE ss == RulesOf(role, binding)
           F == applyRoleBinding(role, binding)
<1>1. PICK rule, sub : Places(F, ss, Len(ss), rule, sub)
  BY RulesTyped, FlattenPlaces, BindingFlattens
<1>2. /\ Len(ss) = Len(role.rules) /\ Len(role.rules) \in Nat /\ Len(binding.subjects) \in Nat
      /\ \A j \in 1 .. Len(role.rules) :
            IF Target(role.rules[j], role, binding) = None THEN Len(ss[j]) = 0
            ELSE /\ Len(ss[j]) = Len(binding.subjects)
                 /\ \A k \in 1 .. Len(binding.subjects) : ss[j][k] = RoleStatement(role, binding, j, k)
  BY DEF RulesOf, Document
<1> HIDE DEF ss, F
<1>3. ASSUME NEW p \in 1 .. Len(F)
      PROVE  /\ rule[p] \in 1 .. Len(role.rules) /\ sub[p] \in 1 .. Len(binding.subjects)
             /\ Target(role.rules[rule[p]], role, binding) # None
             /\ F[p] = RoleStatement(role, binding, rule[p], sub[p])
  <2>1. rule[p] \in 1 .. Len(role.rules) /\ sub[p] \in 1 .. Len(ss[rule[p]])
        /\ F[p] = ss[rule[p]][sub[p]]
    BY <1>1, <1>2 DEF Places
  <2>2. Len(ss[rule[p]]) # 0
    BY <2>1
  <2>3. Target(role.rules[rule[p]], role, binding) # None
    BY <1>2, <2>1, <2>2
  <2> QED
    BY <1>2, <2>1, <2>3
<1>4. ASSUME NEW j \in 1 .. Len(role.rules), NEW k \in 1 .. Len(binding.subjects),
             Target(role.rules[j], role, binding) # None
      PROVE  \E p \in 1 .. Len(F) : rule[p] = j /\ sub[p] = k
  <2>1. k \in 1 .. Len(ss[j]) /\ j \in 1 .. Len(ss)
    BY <1>2, <1>4
  <2> QED
    BY <1>1, <2>1 DEF Places
<1>5. ASSUME NEW p \in 1 .. Len(F), NEW q \in 1 .. Len(F), p < q
      PROVE  rule[p] <= rule[q]
  <2>1. rule[p] \in Nat /\ rule[q] \in Nat
    BY <1>3
  <2> QED
    BY <1>1, <1>5, <2>1 DEF Places
<1>6. BindingPlaces(role, binding, rule, sub)
  BY <1>3, <1>4, <1>5 DEF F, BindingPlaces
<1> QED
  BY <1>6

CATables == {"root_cas", "intermediate_cas"}

\* The statement of a document that declares a CA.
CAStatement(m) == IF m.kind = "root" THEN applyRootCA(m) ELSE applyIntermediateCA(m)
CAKind(table) == IF table = "root_cas" THEN "root" ELSE "intermediate"

LEMMA FirstElement ==
    ASSUME NEW ms \in Seq(Document), NEW i \in 1 .. Len(ms), NEW o \in 1 .. Len(FirstOf(ms)[i])
    PROVE  /\ ms[i].kind \in {"root", "intermediate"} /\ o = 1
           /\ FirstOf(ms)[i][o] = CAStatement(ms[i])
           /\ CAStatement(ms[i]).table \in CATables
           /\ CAKind(CAStatement(ms[i]).table) = ms[i].kind
           /\ CAStatement(ms[i]).id = ms[i].name
BY DEF FirstOf, CAStatement, CAKind, CATables, applyRootCA, applyIntermediateCA, Upsert

LEMMA SecondElement ==
    ASSUME NEW ms \in Seq(Document), NEW i \in 1 .. Len(ms), NEW o \in 1 .. Len(SecondOf(ms)[i])
    PROVE  /\ SecondOf(ms)[i][o].table \in {"ca_roles", "ca_token_policies"}
           /\ Complete(ms[i]) => StatementOK(SecondOf(ms)[i][o])
<1>1. ms[i] \in Document
  OBVIOUS
<1>2. CASE SecondOf(ms)[i] = <<Failure>>
  <2>1. SecondOf(ms)[i][o] = Failure
    BY <1>2
  <2>2. StatementOK(Failure)
    BY <1>1, DeclaredTyped
  <2> QED
    BY <2>1, <2>2 DEF Failure, Upsert
<1>3. CASE /\ RoleNamed(ms, ms[i].ref) \in Defining(ms, "role", ms[i].ref)
           /\ SecondOf(ms)[i] = applyRoleBinding(ms[RoleNamed(ms, ms[i].ref)], ms[i])
  <2> DEFINE role == ms[RoleNamed(ms, ms[i].ref)]
  <2>1. role \in Document
    BY <1>3 DEF Defining
  <2>2. PICK rule, sub : BindingPlaces(role, ms[i], rule, sub)
    BY <1>1, <2>1, BindingPlaced
  <2> HIDE DEF role
  <2>3. /\ rule[o] \in 1 .. Len(role.rules) /\ sub[o] \in 1 .. Len(ms[i].subjects)
        /\ Target(role.rules[rule[o]], role, ms[i]) # None
        /\ SecondOf(ms)[i][o] = RoleStatement(role, ms[i], rule[o], sub[o])
    BY <1>3, <2>2 DEF role, BindingPlaces
  <2>4. StatementOK(SecondOf(ms)[i][o])
    BY <1>1, <2>1, <2>3, RoleStatementTyped
  <2> QED
    BY <2>3, <2>4 DEF RoleStatement, Upsert
<1>4. CASE ms[i].kind = "policy" /\ SecondOf(ms)[i] = <<applyTokenPolicy(ms[i])>>
  <2>1. SecondOf(ms)[i][o] = applyTokenPolicy(ms[i])
    BY <1>4
  <2> QED
    BY <1>1, <1>4, <2>1, DeclaredTyped DEF applyTokenPolicy, Upsert
<1>5. CASE SecondOf(ms)[i] = <<>>
  BY <1>5
<1> QED
  BY <1>2, <1>3, <1>4, <1>5, SecondCases


LEMMA StatementsTyped ==
    ASSUME NEW ms \in Seq(Document)
    PROVE  /\ FirstPass(ms) \in Seq(Statement) /\ SecondPass(ms) \in Seq(Statement)
           /\ Statements(ms) \in Seq(Statement)
           /\ Len(Statements(ms)) = Len(FirstPass(ms)) + Len(SecondPass(ms))
           /\ \A p \in 1 .. Len(FirstPass(ms)) : Statements(ms)[p] = FirstPass(ms)[p]
           /\ \A p \in 1 .. Len(SecondPass(ms)) :
                 Statements(ms)[Len(FirstPass(ms)) + p] = SecondPass(ms)[p]
<1>1. FirstPass(ms) \in Seq(Statement) /\ SecondPass(ms) \in Seq(Statement)
  BY FirstTyped, SecondTyped, FlattenPlaces, PassesFlatten
<1> QED
  BY <1>1 DEF Statements

\* Which document each statement of a CA comes from.
CAPlaces(ms, doc) ==
    LET S == Statements(ms)
    IN /\ \A p \in 1 .. Len(S) : S[p].table \in CATables =>
             /\ doc[p] \in 1 .. Len(ms) /\ ms[doc[p]].kind = CAKind(S[p].table)
             /\ S[p] = CAStatement(ms[doc[p]]) /\ S[p].id = ms[doc[p]].name
       /\ \A i \in 1 .. Len(ms) : ms[i].kind \in {"root", "intermediate"} =>
             \E p \in 1 .. Len(S) : S[p].table \in CATables /\ doc[p] = i
       /\ \A p, q \in 1 .. Len(S) :
             (S[p].table \in CATables /\ S[q].table \in CATables /\ p < q) => doc[p] < doc[q]

\* CAs are written in the order they are declared in.
LEMMA CAsPlaced ==
    ASSUME NEW ms \in Seq(Document)
    PROVE  \E doc : CAPlaces(ms, doc)
<1> DEFINE F == FirstPass(ms)
           G == SecondPass(ms)
           S == Statements(ms)
<1>1. PICK doc, off : Places(F, FirstOf(ms), Len(FirstOf(ms)), doc, off)
  BY FirstTyped, FlattenPlaces, PassesFlatten
<1>2. PICK doc2, off2 : Places(G, SecondOf(ms), Len(SecondOf(ms)), doc2, off2)
  BY SecondTyped, FlattenPlaces, PassesFlatten
<1>3. /\ Len(FirstOf(ms)) = Len(ms) /\ Len(SecondOf(ms)) = Len(ms) /\ Len(ms) \in Nat
      /\ Len(F) \in Nat /\ Len(G) \in Nat /\ Len(S) = Len(F) + Len(G)
  BY StatementsTyped DEF FirstOf, SecondOf
<1>4. \A p \in 1 .. Len(F) : S[p] = F[p]
  BY StatementsTyped
<1>5. \A p \in 1 .. Len(G) : S[Len(F) + p] = G[p]
  BY StatementsTyped
<1> HIDE DEF F, G, S
<1>6. ASSUME NEW p \in 1 .. Len(F)
      PROVE  /\ doc[p] \in 1 .. Len(ms) /\ off[p] = 1
             /\ S[p].table \in CATables /\ ms[doc[p]].kind = CAKind(S[p].table)
             /\ S[p] = CAStatement(ms[doc[p]]) /\ S[p].id = ms[doc[p]].name
  <2>1. /\ doc[p] \in 1 .. Len(ms) /\ off[p] \in 1 .. Len(FirstOf(ms)[doc[p]])
        /\ S[p] = FirstOf(ms)[doc[p]][off[p]]
    BY <1>1, <1>3, <1>4 DEF Places
  <2> QED
    BY <2>1, FirstElement
<1>7. ASSUME NEW p \in 1 .. Len(S), ~(p <= Len(F))
      PROVE  S[p].table \notin CATables
  <2> DEFINE q == p - Len(F)
  <2>1. q \in 1 .. Len(G) /\ Len(F) + q = p
    BY <1>3, <1>7
  <2> HIDE DEF q
  <2>2. /\ doc2[q] \in 1 .. Len(ms) /\ off2[q] \in 1 .. Len(SecondOf(ms)[doc2[q]])
        /\ S[p] = SecondOf(ms)[doc2[q]][off2[q]]
    BY <1>2, <1>3, <1>5, <2>1 DEF Places
  <2>3. S[p].table \in {"ca_roles", "ca_token_policies"}
    BY <2>2, SecondElement
  <2> QED
    BY <2>3 DEF CATables
<1>8. \A p \in 1 .. Len(S) : S[p].table \in CATables => p \in 1 .. Len(F)
  BY <1>3, <1>7
<1>9. ASSUME NEW i \in 1 .. Len(ms), ms[i].kind \in {"root", "intermediate"}
      PROVE  \E p \in 1 .. Len(S) : S[p].table \in CATables /\ doc[p] = i
  <2>1. 1 \in 1 .. Len(FirstOf(ms)[i])
    BY <1>9 DEF FirstOf
  <2>2. PICK p \in 1 .. Len(F) : doc[p] = i
    BY <1>1, <1>3, <2>1 DEF Places
  <2> QED
    BY <1>3, <1>6, <2>2
<1>10. ASSUME NEW p \in 1 .. Len(F), NEW q \in 1 .. Len(F), p < q
       PROVE  doc[p] < doc[q]
  <2>1. doc[p] < doc[q] \/ (doc[p] = doc[q] /\ off[p] < off[q])
    BY <1>1, <1>10 DEF Places
  <2>2. off[p] = 1 /\ off[q] = 1
    BY <1>6
  <2> QED
    BY <2>1, <2>2
<1>11. CAPlaces(ms, doc)
  BY <1>6, <1>8, <1>9, <1>10 DEF CAPlaces, S
<1> QED
  BY <1>11

\* Which binding, rule and subject each statement of a role comes from.
RolePlaces(ms, doc, rule, sub) ==
    LET S == Statements(ms)
    IN /\ \A p \in 1 .. Len(S) : S[p].table = "ca_roles" =>
             /\ doc[p] \in 1 .. Len(ms) /\ ms[doc[p]].kind = "binding"
             /\ LET b == ms[doc[p]]
                    r == RoleNamed(ms, b.ref)
                IN IF r = 0 THEN S[p] = Failure
                   ELSE /\ rule[p] \in 1 .. Len(ms[r].rules) /\ sub[p] \in 1 .. Len(b.subjects)
                        /\ Target(ms[r].rules[rule[p]], ms[r], b) # None
                        /\ S[p] = RoleStatement(ms[r], b, rule[p], sub[p])
       /\ \A i \in 1 .. Len(ms) :
             (ms[i].kind = "binding" /\ RoleNamed(ms, ms[i].ref) = 0) =>
                \E p \in 1 .. Len(S) : S[p] = Failure
       /\ \A i \in 1 .. Len(ms) : (ms[i].kind = "binding" /\ RoleNamed(ms, ms[i].ref) # 0) =>
             LET r == RoleNamed(ms, ms[i].ref)
             IN \A j \in 1 .. Len(ms[r].rules), k \in 1 .. Len(ms[i].subjects) :
                   Target(ms[r].rules[j], ms[r], ms[i]) # None =>
                      \E p \in 1 .. Len(S) : /\ S[p].table = "ca_roles"
                                             /\ doc[p] = i /\ rule[p] = j /\ sub[p] = k
       /\ \A p, q \in 1 .. Len(S) :
             (S[p].table = "ca_roles" /\ S[q].table = "ca_roles" /\ p < q) =>
                \/ doc[p] < doc[q]
                \/ doc[p] = doc[q] /\ (S[p] # Failure => rule[p] <= rule[q])

\* Roles are written in the order of the bindings, and of the rules of a role.
LEMMA RolesPlaced ==
    ASSUME NEW ms \in Seq(Document)
    PROVE  \E doc, rule, sub : RolePlaces(ms, doc, rule, sub)
<1> DEFINE F == FirstPass(ms)
           G == SecondPass(ms)
           S == Statements(ms)
           role(i) == ms[RoleNamed(ms, ms[i].ref)]
           Bound(i) == ms[i].kind = "binding" /\ RoleNamed(ms, ms[i].ref) # 0
           place == [i \in 1 .. Len(ms) |-> CHOOSE x : BindingPlaces(role(i), ms[i], x[1], x[2])]
<1>1. PICK doc1, off1 : Places(F, FirstOf(ms), Len(FirstOf(ms)), doc1, off1)
  BY FirstTyped, FlattenPlaces, PassesFlatten
<1>2. PICK seg, off : Places(G, SecondOf(ms), Len(SecondOf(ms)), seg, off)
  BY SecondTyped, FlattenPlaces, PassesFlatten
<1>3. /\ Len(FirstOf(ms)) = Len(ms) /\ Len(SecondOf(ms)) = Len(ms) /\ Len(ms) \in Nat
      /\ Len(F) \in Nat /\ Len(G) \in Nat /\ Len(S) = Len(F) + Len(G)
  BY StatementsTyped DEF FirstOf, SecondOf
<1>4. \A p \in 1 .. Len(F) : S[p] = F[p]
  BY StatementsTyped
<1>5. \A p \in 1 .. Len(G) : S[Len(F) + p] = G[p]
  BY StatementsTyped
<1>6. ASSUME NEW i \in 1 .. Len(ms), Bound(i)
      PROVE  /\ BindingPlaces(role(i), ms[i], place[i][1], place[i][2])
             /\ SecondOf(ms)[i] = applyRoleBinding(role(i), ms[i])
             /\ role(i) \in Document /\ ms[i] \in Document
  <2>1. /\ RoleNamed(ms, ms[i].ref) \in Defining(ms, "role", ms[i].ref)
        /\ SecondOf(ms)[i] = applyRoleBinding(role(i), ms[i])
    BY <1>6, SecondCases
  <2>2. role(i) \in Document /\ ms[i] \in Document
    BY <2>1 DEF Defining
  <2> HIDE DEF role
  <2>3. PICK rl, sb : BindingPlaces(role(i), ms[i], rl, sb)
    BY <2>2, BindingPlaced
  <2>4. \E x : BindingPlaces(role(i), ms[i], x[1], x[2])
    <3>1. BindingPlaces(role(i), ms[i], <<rl, sb>>[1], <<rl, sb>>[2])
      BY <2>3
    <3> QED
      BY <3>1
  <2>5. BindingPlaces(role(i), ms[i], place[i][1], place[i][2])
    BY <2>4
  <2> QED
    BY <2>1, <2>2, <2>5
<1> DEFINE doc == [p \in 1 .. Len(S) |-> seg[p - Len(F)]]
           rule == [p \in 1 .. Len(S) |-> place[seg[p - Len(F)]][1][off[p - Len(F)]]]
           sub == [p \in 1 .. Len(S) |-> place[seg[p - Len(F)]][2][off[p - Len(F)]]]
<1> HIDE DEF F, G, S, place
<1>7. ASSUME NEW p \in 1 .. Len(S), S[p].table = "ca_roles"
      PROVE  /\ ~(p <= Len(F)) /\ p - Len(F) \in 1 .. Len(G)
             /\ doc[p] = seg[p - Len(F)]
             /\ doc[p] \in 1 .. Len(ms)
             /\ off[p - Len(F)] \in 1 .. Len(SecondOf(ms)[doc[p]])
             /\ S[p] = SecondOf(ms)[doc[p]][off[p - Len(F)]]
             /\ rule[p] = place[doc[p]][1][off[p - Len(F)]]
             /\ sub[p] = place[doc[p]][2][off[p - Len(F)]]
  <2>1. ASSUME p \in 1 .. Len(F) PROVE FALSE
    <3>1. /\ doc1[p] \in 1 .. Len(ms) /\ off1[p] \in 1 .. Len(FirstOf(ms)[doc1[p]])
          /\ S[p] = FirstOf(ms)[doc1[p]][off1[p]]
      BY <1>1, <1>3, <1>4, <2>1 DEF Places
    <3>2. S[p].table \in CATables
      BY <3>1, FirstElement
    <3> QED
      BY <1>7, <3>2 DEF CATables
  <2> DEFINE q == p - Len(F)
  <2>2. ~(p <= Len(F)) /\ q \in 1 .. Len(G) /\ Len(F) + q = p
    BY <1>3, <2>1
  <2>3. doc[p] = seg[q] /\ rule[p] = place[seg[q]][1][off[q]] /\ sub[p] = place[seg[q]][2][off[q]]
    OBVIOUS
  <2> HIDE DEF q, doc, rule, sub
  <2>4. /\ seg[q] \in 1 .. Len(ms) /\ off[q] \in 1 .. Len(SecondOf(ms)[seg[q]])
        /\ S[p] = SecondOf(ms)[seg[q]][off[q]]
    BY <1>2, <1>3, <1>5, <2>2 DEF Places
  <2> QED
    BY <2>2, <2>3, <2>4 DEF q
<1>8. ASSUME NEW i \in 1 .. Len(ms), NEW o \in 1 .. Len(SecondOf(ms)[i])
      PROVE  \E p \in 1 .. Len(S) : /\ ~(p <= Len(F)) /\ doc[p] = i /\ off[p - Len(F)] = o
                                    /\ S[p] = SecondOf(ms)[i][o]
                                    /\ rule[p] = place[i][1][o] /\ sub[p] = place[i][2][o]
  <2>1. PICK q \in 1 .. Len(G) : seg[q] = i /\ off[q] = o
    BY <1>2, <1>3 DEF Places
  <2>2. G[q] = SecondOf(ms)[i][o]
    BY <1>2, <2>1 DEF Places
  <2> DEFINE p == Len(F) + q
  <2>3. p \in 1 .. Len(S) /\ ~(p <= Len(F)) /\ p - Len(F) = q
    BY <1>3
  <2>4. S[p] = G[q]
    BY <1>5
  <2>5. doc[p] = i /\ rule[p] = place[i][1][o] /\ sub[p] = place[i][2][o]
    BY <2>1, <2>3
  <2> HIDE DEF p, doc, rule, sub
  <2> QED
    BY <2>1, <2>2, <2>3, <2>4, <2>5
<1> HIDE DEF doc, rule, sub
<1>9. ASSUME NEW p \in 1 .. Len(S), S[p].table = "ca_roles"
      PROVE  /\ doc[p] \in 1 .. Len(ms) /\ ms[doc[p]].kind = "binding"
             /\ IF RoleNamed(ms, ms[doc[p]].ref) = 0
                THEN S[p] = Failure /\ off[p - Len(F)] = 1
                ELSE /\ rule[p] \in 1 .. Len(role(doc[p]).rules)
                     /\ sub[p] \in 1 .. Len(ms[doc[p]].subjects)
                     /\ Target(role(doc[p]).rules[rule[p]], role(doc[p]), ms[doc[p]]) # None
                     /\ S[p] = RoleStatement(role(doc[p]), ms[doc[p]], rule[p], sub[p])
                     /\ S[p] # Failure
  <2> DEFINE i == doc[p]
             o == off[p - Len(F)]
  <2>1. /\ i \in 1 .. Len(ms) /\ o \in 1 .. Len(SecondOf(ms)[i]) /\ S[p] = SecondOf(ms)[i][o]
        /\ rule[p] = place[i][1][o] /\ sub[p] = place[i][2][o]
    BY <1>7, <1>9
  <2> HIDE DEF i, o
  <2>2. CASE ms[i].kind = "binding" /\ RoleNamed(ms, ms[i].ref) = 0 /\ SecondOf(ms)[i] = <<Failure>>
    BY <2>1, <2>2 DEF i, o
  <2>3. CASE ms[i].kind = "binding" /\ RoleNamed(ms, ms[i].ref) # 0
    <3>1. /\ BindingPlaces(role(i), ms[i], place[i][1], place[i][2])
          /\ SecondOf(ms)[i] = applyRoleBinding(role(i), ms[i])
      BY <1>6, <2>1, <2>3
    <3> HIDE DEF role
    <3>2. /\ rule[p] \in 1 .. Len(role(i).rules)
          /\ sub[p] \in 1 .. Len(ms[i].subjects)
          /\ Target(role(i).rules[rule[p]], role(i), ms[i]) # None
          /\ S[p] = RoleStatement(role(i), ms[i], rule[p], sub[p])
      BY <2>1, <3>1 DEF BindingPlaces
    <3>3. S[p] # Failure
      BY <3>2 DEF RoleStatement, Failure, Upsert
    <3> QED
      BY <2>1, <2>3, <3>2, <3>3 DEF i, o
  <2>4. CASE ms[i].kind = "policy" /\ SecondOf(ms)[i] = <<applyTokenPolicy(ms[i])>>
    <3>1. S[p] = applyTokenPolicy(ms[i])
      BY <2>1, <2>4
    <3> QED
      BY <1>9, <3>1 DEF applyTokenPolicy, Upsert
  <2>5. CASE SecondOf(ms)[i] = <<>>
    BY <2>1, <2>5
  <2> QED
    BY <2>1, <2>2, <2>3, <2>4, <2>5, SecondCases
<1>10. ASSUME NEW i \in 1 .. Len(ms), ms[i].kind = "binding", RoleNamed(ms, ms[i].ref) = 0
       PROVE  \E p \in 1 .. Len(S) : S[p] = Failure
  <2>1. SecondOf(ms)[i] = <<Failure>>
    BY <1>10, SecondCases
  <2>2. 1 \in 1 .. Len(SecondOf(ms)[i]) /\ SecondOf(ms)[i][1] = Failure
    BY <2>1
  <2> QED
    BY <1>8, <2>2
<1>11. ASSUME NEW i \in 1 .. Len(ms), Bound(i),
              NEW j \in 1 .. Len(role(i).rules), NEW k \in 1 .. Len(ms[i].subjects),
              Target(role(i).rules[j], role(i), ms[i]) # None
       PROVE  \E p \in 1 .. Len(S) : /\ S[p].table = "ca_roles"
                                     /\ doc[p] = i /\ rule[p] = j /\ sub[p] = k
  <2>1. /\ BindingPlaces(role(i), ms[i], place[i][1], place[i][2])
        /\ SecondOf(ms)[i] = applyRoleBinding(role(i), ms[i])
    BY <1>6, <1>11
  <2> HIDE DEF role
  <2>2. PICK o \in 1 .. Len(SecondOf(ms)[i]) : place[i][1][o] = j /\ place[i][2][o] = k
    BY <1>11, <2>1 DEF BindingPlaces
  <2>3. SecondOf(ms)[i][o] = RoleStatement(role(i), ms[i], j, k)
    BY <2>1, <2>2 DEF BindingPlaces
  <2>4. SecondOf(ms)[i][o].table = "ca_roles"
    BY <2>3 DEF RoleStatement, Upsert
  <2>5. PICK p \in 1 .. Len(S) : /\ ~(p <= Len(F)) /\ doc[p] = i /\ off[p - Len(F)] = o
                                  /\ S[p] = SecondOf(ms)[i][o]
                                  /\ rule[p] = place[i][1][o] /\ sub[p] = place[i][2][o]
    <3>1. o \in 1 .. Len(SecondOf(ms)[i])
      BY <2>2
    <3> QED
      BY <1>8, <3>1, ZenonT(60)
  <2> QED
    BY <2>2, <2>4, <2>5
<1>12. ASSUME NEW p \in 1 .. Len(S), NEW q \in 1 .. Len(S),
              S[p].table = "ca_roles", S[q].table = "ca_roles", p < q
       PROVE  \/ doc[p] < doc[q]
              \/ doc[p] = doc[q] /\ (S[p] # Failure => rule[p] <= rule[q])
  <2> DEFINE x == p - Len(F)
             y == q - Len(F)
  <2>1. /\ x \in 1 .. Len(G) /\ y \in 1 .. Len(G) /\ doc[p] = seg[x] /\ doc[q] = seg[y]
        /\ off[x] \in 1 .. Len(SecondOf(ms)[doc[p]]) /\ off[y] \in 1 .. Len(SecondOf(ms)[doc[q]])
        /\ rule[p] = place[doc[p]][1][off[x]] /\ rule[q] = place[doc[q]][1][off[y]]
    BY <1>7, <1>12
  <2>2. x < y
    BY <1>3, <1>12
  <2>3. seg[x] < seg[y] \/ (seg[x] = seg[y] /\ off[x] < off[y])
    BY <1>2, <2>1, <2>2 DEF Places
  <2> HIDE DEF x, y
  <2>4. ASSUME doc[p] = doc[q], S[p] # Failure, off[x] < off[y] PROVE rule[p] <= rule[q]
    <3>1. Bound(doc[p]) /\ doc[p] \in 1 .. Len(ms)
      BY <1>9, <1>12, <2>4
    <3>2. /\ BindingPlaces(role(doc[p]), ms[doc[p]], place[doc[p]][1], place[doc[p]][2])
          /\ SecondOf(ms)[doc[p]] = applyRoleBinding(role(doc[p]), ms[doc[p]])
      BY <1>6, <3>1
    <3> DEFINE a == applyRoleBinding(role(doc[p]), ms[doc[p]])
    <3>3. \A u, v \in 1 .. Len(a) : u < v => place[doc[p]][1][u] <= place[doc[p]][1][v]
      BY <3>2 DEF BindingPlaces
    <3>4. off[x] \in 1 .. Len(a) /\ off[y] \in 1 .. Len(a)
      BY <2>1, <2>4, <3>2
    <3> HIDE DEF a
    <3>5. place[doc[p]][1][off[x]] <= place[doc[p]][1][off[y]]
      BY <2>4, <3>3, <3>4
    <3> QED
      BY <2>1, <2>4, <3>5
  <2> QED
    BY <2>1, <2>3, <2>4
<1>13. RolePlaces(ms, doc, rule, sub)
  BY <1>9, <1>10, <1>11, <1>12 DEF RolePlaces, S
<1> QED
  BY <1>13

\* Of complete documents every statement fits its table.
LEMMA StatementsOK ==
    ASSUME NEW ms \in Seq(Document), AllComplete(ms)
    PROVE  \A p \in 1 .. Len(Statements(ms)) : StatementOK(Statements(ms)[p])
<1> DEFINE F == FirstPass(ms)
           G == SecondPass(ms)
           S == Statements(ms)
<1> SUFFICES ASSUME NEW p \in 1 .. Len(S) PROVE StatementOK(S[p])
  OBVIOUS
<1>1. PICK doc, off : Places(F, FirstOf(ms), Len(FirstOf(ms)), doc, off)
  BY FirstTyped, FlattenPlaces, PassesFlatten
<1>2. PICK doc2, off2 : Places(G, SecondOf(ms), Len(SecondOf(ms)), doc2, off2)
  BY SecondTyped, FlattenPlaces, PassesFlatten
<1>3. /\ Len(FirstOf(ms)) = Len(ms) /\ Len(SecondOf(ms)) = Len(ms) /\ Len(ms) \in Nat
      /\ Len(F) \in Nat /\ Len(G) \in Nat /\ Len(S) = Len(F) + Len(G)
  BY StatementsTyped DEF FirstOf, SecondOf
<1>4. \A i \in 1 .. Len(F) : S[i] = F[i]
  BY StatementsTyped
<1>5. \A i \in 1 .. Len(G) : S[Len(F) + i] = G[i]
  BY StatementsTyped
<1>6. \A i \in 1 .. Len(ms) : ms[i] \in Document /\ Complete(ms[i])
  BY DEF AllComplete
<1> HIDE DEF F, G, S
<1>7. CASE p <= Len(F)
  <2>1. /\ doc[p] \in 1 .. Len(ms) /\ off[p] \in 1 .. Len(FirstOf(ms)[doc[p]])
        /\ S[p] = FirstOf(ms)[doc[p]][off[p]]
    <3>1. p \in 1 .. Len(F)
      BY <1>3, <1>7
    <3> QED
      BY <1>1, <1>3, <1>4, <3>1 DEF Places
  <2>2. ms[doc[p]].kind \in {"root", "intermediate"} /\ S[p] = CAStatement(ms[doc[p]])
    BY <2>1, FirstElement
  <2>3. CASE ms[doc[p]].kind = "root"
    BY <1>6, <2>1, <2>2, <2>3, DeclaredTyped DEF CAStatement
  <2>4. CASE ms[doc[p]].kind = "intermediate"
    BY <1>6, <2>1, <2>2, <2>4, DeclaredTyped DEF CAStatement
  <2> QED
    BY <2>2, <2>3, <2>4
<1>8. CASE ~(p <= Len(F))
  <2> DEFINE q == p - Len(F)
  <2>1. q \in 1 .. Len(G) /\ Len(F) + q = p
    BY <1>3, <1>8
  <2> HIDE DEF q
  <2>2. /\ doc2[q] \in 1 .. Len(ms) /\ off2[q] \in 1 .. Len(SecondOf(ms)[doc2[q]])
        /\ S[p] = SecondOf(ms)[doc2[q]][off2[q]]
    BY <1>2, <1>3, <1>5, <2>1 DEF Places
  <2> QED
    BY <1>6, <2>2, SecondElement
<1> QED
  BY <1>7, <1>8


-----------------------------------------------------------------------------
(* The tables                                                              *)

\* Functions from ids of the table to rows of the table.
TablesOK(tables) ==
    /\ tables = [t \in Tables |-> tables[t]]
    /\ \A t \in Tables :
          /\ tables[t] = [id \in DOMAIN tables[t] |-> tables[t][id]]
          /\ \A id \in DOMAIN tables[t] : id \in Ids(t) /\ tables[t][id] \in Rows(t)

\* What the UNIQUE constraints keep.
FingerprintsUnique(tables) ==
    \A t \in CATables : \A a, b \in DOMAIN tables[t] :
        FingerprintOf(t, tables[t][a]) = FingerprintOf(t, tables[t][b]) => a = b

\* What the foreign keys keep.
ParentTable(table) == IF table = "intermediate_cas" THEN "root_cas" ELSE "intermediate_cas"

ParentsPresent(tables) ==
    \A t \in Tables \ {"root_cas"} : \A id \in DOMAIN tables[t] :
        tables[t][id].parent \in DOMAIN tables[ParentTable(t)]

Consistent(tables) == TablesOK(tables) /\ FingerprintsUnique(tables) /\ ParentsPresent(tables)

\* What an upsert changes and what it leaves.
LEMMA ExecuteFacts ==
    ASSUME NEW tables, DOMAIN tables = Tables, NEW st, st.table \in Tables
    PROVE  /\ Execute(tables, st) = [t \in Tables |-> Execute(tables, st)[t]]
           /\ \A t \in Tables : t # st.table => Execute(tables, st)[t] = tables[t]
           /\ DOMAIN Execute(tables, st)[st.table] = DOMAIN tables[st.table] \cup {st.id}
           /\ Execute(tables, st)[st.table]
                 = [id \in DOMAIN Execute(tables, st)[st.table] |-> Execute(tables, st)[st.table][id]]
           /\ Execute(tables, st)[st.table][st.id] = st.row
           /\ \A id \in DOMAIN tables[st.table] :
                 id # st.id => Execute(tables, st)[st.table][id] = tables[st.table][id]
<1> DEFINE new == [id \in DOMAIN tables[st.table] \cup {st.id} |->
                      IF id = st.id THEN st.row ELSE tables[st.table][id]]
<1>1. Execute(tables, st) = [tables EXCEPT ![st.table] = new]
  BY DEF Execute
<1>2. /\ DOMAIN new = DOMAIN tables[st.table] \cup {st.id}
      /\ new = [id \in DOMAIN new |-> new[id]] /\ new[st.id] = st.row
      /\ \A id \in DOMAIN tables[st.table] : id # st.id => new[id] = tables[st.table][id]
  OBVIOUS
<1> HIDE DEF new
<1>3. Execute(tables, st)[st.table] = new
  BY <1>1
<1>4. /\ Execute(tables, st) = [t \in Tables |-> Execute(tables, st)[t]]
      /\ \A t \in Tables : t # st.table => Execute(tables, st)[t] = tables[t]
  BY <1>1
<1> QED
  BY <1>2, <1>3, <1>4

\* Rows are never deleted.
LEMMA ExecuteGrows ==
    ASSUME NEW tables, DOMAIN tables = Tables, NEW st, st.table \in Tables, NEW t \in Tables
    PROVE  DOMAIN tables[t] \subseteq DOMAIN Execute(tables, st)[t]
<1> DEFINE new == Execute(tables, st)
<1>1. /\ new = [u \in Tables |-> new[u]]
      /\ \A u \in Tables : u # st.table => new[u] = tables[u]
      /\ DOMAIN new[st.table] = DOMAIN tables[st.table] \cup {st.id}
      /\ new[st.table] = [id \in DOMAIN new[st.table] |-> new[st.table][id]]
      /\ new[st.table][st.id] = st.row
      /\ \A id \in DOMAIN tables[st.table] : id # st.id => new[st.table][id] = tables[st.table][id]
  BY ExecuteFacts
<1> HIDE DEF new
<1> SUFFICES DOMAIN tables[t] \subseteq DOMAIN new[t]
  BY DEF new
<1>2. CASE t = st.table
  BY <1>1, <1>2
<1>3. CASE t # st.table
  BY <1>1, <1>3
<1> QED
  BY <1>2, <1>3

\* A statement the tables accept keeps types, unique fingerprints and parents.
LEMMA ExecuteConsistent ==
    ASSUME NEW tables, Consistent(tables), NEW st, StatementOK(st), Accepted(tables, st)
    PROVE  Consistent(Execute(tables, st))
<1> DEFINE new == Execute(tables, st)
           T == st.table
<1>1. DOMAIN tables = Tables
  BY DEF Consistent, TablesOK
<1>2. T \in Tables /\ st.id \in Ids(T) /\ st.row \in Rows(T)
  BY DEF StatementOK, Accepted
<1>3. /\ new = [t \in Tables |-> new[t]]
      /\ \A t \in Tables : t # T => new[t] = tables[t]
      /\ DOMAIN new[T] = DOMAIN tables[T] \cup {st.id}
      /\ new[T] = [id \in DOMAIN new[T] |-> new[T][id]]
      /\ new[T][st.id] = st.row
      /\ \A id \in DOMAIN tables[T] : id # st.id => new[T][id] = tables[T][id]
  BY <1>1, <1>2, ExecuteFacts
<1>4. \A t \in Tables : DOMAIN tables[t] \subseteq DOMAIN new[t]
  BY <1>1, <1>2, ExecuteGrows
<1> HIDE DEF new
<1>5. TablesOK(new)
  <2>1. ASSUME NEW t \in Tables
        PROVE  /\ new[t] = [id \in DOMAIN new[t] |-> new[t][id]]
               /\ \A id \in DOMAIN new[t] : id \in Ids(t) /\ new[t][id] \in Rows(t)
    <3>1. CASE t = T
      <4>1. \A id \in DOMAIN tables[T] : id \in Ids(T) /\ tables[T][id] \in Rows(T)
        BY <1>2 DEF Consistent, TablesOK
      <4>2. \A id \in DOMAIN new[T] : id \in Ids(T) /\ new[T][id] \in Rows(T)
        BY <1>2, <1>3, <4>1
      <4> QED
        BY <1>3, <3>1, <4>2
    <3>2. CASE t # T
      <4>1. new[t] = tables[t]
        BY <1>3, <3>2
      <4> QED
        BY <4>1 DEF Consistent, TablesOK
    <3> QED
      BY <3>1, <3>2
  <2> QED
    BY <1>3, <2>1 DEF TablesOK
<1>6. FingerprintsUnique(new)
  <2> SUFFICES ASSUME NEW t \in CATables, NEW a \in DOMAIN new[t], NEW b \in DOMAIN new[t],
                      FingerprintOf(t, new[t][a]) = FingerprintOf(t, new[t][b]), a # b
               PROVE  FALSE
    BY DEF FingerprintsUnique
  <2>1. t \in Tables
    BY DEF CATables, Tables
  <2>2. CASE t # T
    <3>1. new[t] = tables[t]
      BY <1>3, <2>1, <2>2
    <3> QED
      BY <3>1 DEF Consistent, FingerprintsUnique
  <2>3. CASE t = T
    <3>1. ~FingerprintTaken(tables, st)
      BY DEF Accepted
    <3>2. \A id \in DOMAIN tables[T] \ {st.id} :
             FingerprintOf(T, tables[T][id]) # FingerprintOf(T, st.row)
      BY <2>3, <3>1 DEF FingerprintTaken, CATables
    <3>3. CASE a # st.id /\ b # st.id
      <4>1. /\ a \in DOMAIN tables[T] /\ b \in DOMAIN tables[T]
            /\ new[T][a] = tables[T][a] /\ new[T][b] = tables[T][b]
        BY <1>3, <2>3, <3>3
      <4> QED
        BY <2>3, <4>1 DEF Consistent, FingerprintsUnique
    <3>4. CASE a = st.id
      <4>1. b \in DOMAIN tables[T] \ {st.id} /\ new[T][b] = tables[T][b] /\ new[T][a] = st.row
        BY <1>3, <2>3, <3>4
      <4> QED
        BY <2>3, <3>2, <4>1
    <3>5. CASE b = st.id
      <4>1. a \in DOMAIN tables[T] \ {st.id} /\ new[T][a] = tables[T][a] /\ new[T][b] = st.row
        BY <1>3, <2>3, <3>5
      <4> QED
        BY <2>3, <3>2, <4>1
    <3> QED
      BY <3>3, <3>4, <3>5
  <2> QED
    BY <2>2, <2>3
<1>7. ParentsPresent(new)
  <2> SUFFICES ASSUME NEW t \in Tables \ {"root_cas"}, NEW id \in DOMAIN new[t]
               PROVE  new[t][id].parent \in DOMAIN new[ParentTable(t)]
    BY DEF ParentsPresent
  <2>1. ParentTable(t) \in Tables
    BY DEF ParentTable, Tables
  <2>2. CASE id \in DOMAIN tables[t] /\ new[t][id] = tables[t][id]
    <3>1. tables[t][id].parent \in DOMAIN tables[ParentTable(t)]
      BY <2>2 DEF Consistent, ParentsPresent
    <3> QED
      BY <1>4, <2>1, <2>2, <3>1
  <2>3. CASE t = T /\ id = st.id
    <3>1. ParentExists(tables, st)
      BY DEF Accepted
    <3>2. st.row.parent \in DOMAIN tables[ParentTable(t)]
      BY <2>3, <3>1 DEF ParentExists, ParentTable
    <3> QED
      BY <1>3, <1>4, <2>1, <2>3, <3>2
  <2> QED
    BY <1>3, <2>2, <2>3
<1> QED
  BY <1>5, <1>6, <1>7 DEF Consistent, new

-----------------------------------------------------------------------------
(* What executed statements leave                                          *)

SameRow(s, t) == s.table = t.table /\ s.id = t.id

\* Of the first m statements of S each is legal and has left its row, and the last
\* of those that write a row has left its value.
Executed(tables, S, m) ==
    \A k \in 1 .. m :
        /\ S[k].legal
        /\ S[k].id \in DOMAIN tables[S[k].table]
        /\ (\A l \in (k + 1) .. m : ~SameRow(S[l], S[k])) =>
               tables[S[k].table][S[k].id] = S[k].row

LEMMA ExecuteNext ==
    ASSUME NEW S, NEW n \in Nat, NEW m \in Nat, m < n, \A k \in 1 .. n : S[k].table \in Tables,
           NEW tables, DOMAIN tables = Tables, Executed(tables, S, m), S[m + 1].legal
    PROVE  Executed(Execute(tables, S[m + 1]), S, m + 1)
<1> DEFINE st == S[m + 1]
           new == Execute(tables, st)
<1>1. st.table \in Tables
  OBVIOUS
<1> HIDE DEF st
<1>2. /\ new = [u \in Tables |-> new[u]]
      /\ \A u \in Tables : u # st.table => new[u] = tables[u]
      /\ DOMAIN new[st.table] = DOMAIN tables[st.table] \cup {st.id}
      /\ new[st.table] = [id \in DOMAIN new[st.table] |-> new[st.table][id]]
      /\ new[st.table][st.id] = st.row
      /\ \A id \in DOMAIN tables[st.table] : id # st.id => new[st.table][id] = tables[st.table][id]
  BY <1>1, ExecuteFacts
<1> HIDE DEF new
<1> SUFFICES ASSUME NEW k \in 1 .. (m + 1)
             PROVE  /\ S[k].legal
                    /\ S[k].id \in DOMAIN new[S[k].table]
                    /\ (\A l \in (k + 1) .. (m + 1) : ~SameRow(S[l], S[k])) =>
                           new[S[k].table][S[k].id] = S[k].row
  BY DEF Executed, new, st
<1>a. S[m + 1] = st /\ st.legal
  BY DEF st
<1>3. CASE k = m + 1
  BY <1>2, <1>a, <1>3
<1>4. CASE k \in 1 .. m
  <2>1. /\ S[k].legal /\ S[k].id \in DOMAIN tables[S[k].table]
        /\ (\A l \in (k + 1) .. m : ~SameRow(S[l], S[k])) =>
               tables[S[k].table][S[k].id] = S[k].row
    BY <1>4 DEF Executed
  <2>2. S[k].table \in Tables
    OBVIOUS
  <2>3. m + 1 \in (k + 1) .. (m + 1) /\ (k + 1) .. m \subseteq (k + 1) .. (m + 1)
    BY <1>4
  <2>4. CASE SameRow(st, S[k])
    BY <1>2, <1>a, <2>1, <2>3, <2>4 DEF SameRow
  <2>5. CASE S[k].table # st.table
    <3>1. new[S[k].table] = tables[S[k].table]
      BY <1>2, <2>2, <2>5
    <3> QED
      BY <2>1, <2>3, <3>1
  <2>6. CASE S[k].table = st.table /\ S[k].id # st.id
    <3>1. S[k].id \in DOMAIN new[S[k].table] /\ new[S[k].table][S[k].id] = tables[S[k].table][S[k].id]
      BY <1>2, <2>1, <2>6
    <3> QED
      BY <2>1, <2>3, <3>1
  <2> QED
    BY <2>4, <2>5, <2>6 DEF SameRow
<1> QED
  BY <1>3, <1>4


-----------------------------------------------------------------------------
(* Types and parents                                                       *)

\* Every statement is for some table.
LEMMA StatementTables ==
    ASSUME NEW ms \in Seq(Document)
    PROVE  /\ Statements(ms) \in Seq(Statement) /\ Len(Statements(ms)) \in Nat
           /\ \A k \in 1 .. Len(Statements(ms)) :
                 Statements(ms)[k] \in Statement /\ Statements(ms)[k].table \in Tables
<1>1. Statements(ms) \in Seq(Statement)
  BY StatementsTyped
<1>2. \A k \in 1 .. Len(Statements(ms)) : Statements(ms)[k] \in Statement
  BY <1>1
<1> QED
  BY <1>1, <1>2 DEF Statement

\* What is left of a sequence after its first e elements.
LEMMA RestOfSequence ==
    ASSUME NEW A, NEW S \in Seq(A), NEW e \in 0 .. Len(S)
    PROVE  /\ SubSeq(S, e + 1, Len(S)) # <<>> =>
                 /\ e < Len(S) /\ e + 1 \in 1 .. Len(S)
                 /\ Head(SubSeq(S, e + 1, Len(S))) = S[e + 1]
                 /\ Tail(SubSeq(S, e + 1, Len(S))) = SubSeq(S, (e + 1) + 1, Len(S))
           /\ SubSeq(S, e + 1, Len(S)) = <<>> => e = Len(S)
           /\ SubSeq(S, 1, Len(S)) = S
<1> DEFINE r == SubSeq(S, e + 1, Len(S))
<1>1. r \in Seq(A) /\ Len(r) = Len(S) - e /\ \A i \in 1 .. (Len(S) - e) : r[i] = S[i + e]
  OBVIOUS
<1>2. ASSUME r # <<>>
      PROVE  /\ e < Len(S) /\ e + 1 \in 1 .. Len(S) /\ Head(r) = S[e + 1]
             /\ Tail(r) = SubSeq(S, (e + 1) + 1, Len(S))
  <2> DEFINE u == SubSeq(S, (e + 1) + 1, Len(S))
  <2>1. Len(r) # 0
    BY <1>1, <1>2
  <2>2. e < Len(S) /\ e + 1 \in 1 .. Len(S) /\ Head(r) = S[e + 1]
    BY <1>1, <2>1
  <2>3. u \in Seq(A) /\ Len(u) = Len(S) - (e + 1) /\ \A i \in 1 .. Len(u) : u[i] = S[i + (e + 1)]
    BY <2>2
  <2>4. Tail(r) \in Seq(A) /\ Len(Tail(r)) = Len(r) - 1 /\ \A i \in 1 .. Len(Tail(r)) : Tail(r)[i] = r[i + 1]
    BY <1>1, <1>2
  <2> HIDE DEF r, u
  <2>5. Len(Tail(r)) = Len(u) /\ \A i \in 1 .. Len(u) : Tail(r)[i] = u[i]
    BY <1>1, <2>2, <2>3, <2>4
  <2>6. Tail(r) = u
    BY <2>3, <2>4, <2>5
  <2> QED
    BY <2>2, <2>6 DEF u
<1>3. r = <<>> => e = Len(S)
  <2> HIDE DEF r
  <2>1. r = <<>> => Len(r) = 0
    OBVIOUS
  <2> QED
    BY <1>1, <2>1
<1>4. SubSeq(S, 1, Len(S)) = S
  OBVIOUS
<1> QED
  BY <1>2, <1>3, <1>4

Shape ==
    /\ files \in [1 .. NumFiles -> Contents \cup {<<>>}]
    /\ server \in {"down", "loading", "up"}
    /\ manifests \in Seq(Document)
    /\ deployments \in 0 .. MaxDeployments /\ starts \in 0 .. MaxStarts
    /\ Consistent(db) /\ Consistent(base)

\* e statements are executed and the others are pending.
Remaining(e) ==
    /\ pending = SubSeq(Statements(manifests), e + 1, Len(Statements(manifests)))
    /\ Executed(db, Statements(manifests), e)

\* A server that loads has executed the first of its statements, one that
\* listens all of them.
LoadInv ==
    /\ server # "down" => AllComplete(manifests)
    /\ server = "loading" => \E e \in 0 .. Len(Statements(manifests)) : Remaining(e)
    /\ server = "up" => Executed(db, Statements(manifests), Len(Statements(manifests)))

LEMMA EmptyConsistent == Consistent(EmptyTables)
BY DEF Consistent, TablesOK, FingerprintsUnique, ParentsPresent, EmptyTables, CATables, Tables

LEMMA InitShape == Init => Shape /\ LoadInv
<1> SUFFICES ASSUME Init PROVE Shape /\ LoadInv
  OBVIOUS
<1>1. files \in [1 .. NumFiles -> Contents \cup {<<>>}]
  BY DEF Init
<1>2. 0 \in 0 .. MaxDeployments /\ 0 \in 0 .. MaxStarts
  BY RbacAssumption DEF RbacAssumption
<1> QED
  BY <1>1, <1>2, EmptyConsistent DEF Init, Shape, LoadInv

\* What a start reads are documents.
LEMMA ReadTyped ==
    ASSUME NEW fs \in [1 .. NumFiles -> Contents \cup {<<>>}]
    PROVE  Read(fs) \in Seq(Document)
<1>1. NumFiles \in Nat /\ Contents \subseteq Seq(Document)
  BY RbacAssumption DEF RbacAssumption
<1>2. fs \in Seq(Seq(Document))
  <2> DEFINE D == Seq(Document)
  <2>1. <<>> \in D
    OBVIOUS
  <2> HIDE DEF D
  <2>2. \A f \in 1 .. NumFiles : fs[f] \in D
    BY <1>1, <2>1 DEF D
  <2>3. fs \in Seq(D)
    BY <1>1, <2>2
  <2> QED
    BY <2>3 DEF D
<1> QED
  BY <1>2, FlattenPlaces DEF Read

\* What Apply executes: the next of the statements, and one the tables take.
LEMMA ApplyNext ==
    ASSUME Shape, LoadInv, Apply, NEW e \in 0 .. Len(Statements(manifests)), Remaining(e)
    PROVE  LET S == Statements(manifests)
           IN  /\ e \in Nat /\ e < Len(S) /\ e + 1 \in 1 .. Len(S)
               /\ Head(pending) = S[e + 1] /\ StatementOK(S[e + 1]) /\ Accepted(db, S[e + 1])
               /\ db' = Execute(db, S[e + 1])
               /\ pending' = SubSeq(S, (e + 1) + 1, Len(S))
               /\ Executed(db', S, e + 1)
<1> DEFINE S == Statements(manifests)
<1>1. S \in Seq(Statement) /\ Len(S) \in Nat /\ \A k \in 1 .. Len(S) : S[k].table \in Tables
  BY StatementTables DEF Shape
<1>2. \A k \in 1 .. Len(S) : StatementOK(S[k])
  BY StatementsOK DEF Shape, LoadInv, Apply
<1> HIDE DEF S
<1>3. pending = SubSeq(S, e + 1, Len(S)) /\ pending # <<>> /\ Executed(db, S, e)
  BY DEF Remaining, Apply, S
<1>4. /\ e < Len(S) /\ e + 1 \in 1 .. Len(S) /\ Head(pending) = S[e + 1]
      /\ Tail(pending) = SubSeq(S, (e + 1) + 1, Len(S))
  BY <1>1, <1>3, RestOfSequence DEF S
<1>5. Accepted(db, S[e + 1]) /\ db' = Execute(db, S[e + 1]) /\ pending' = Tail(pending)
  BY <1>4 DEF Apply
<1>6. DOMAIN db = Tables
  BY DEF Shape, Consistent, TablesOK
<1>7. e \in Nat /\ S[e + 1].legal
  BY <1>1, <1>5 DEF Accepted, S
<1>8. Executed(Execute(db, S[e + 1]), S, e + 1)
  BY <1>1, <1>3, <1>4, <1>6, <1>7, ExecuteNext
<1> QED
  BY <1>2, <1>4, <1>5, <1>7, <1>8 DEF S

LEMMA NextShape == Shape /\ LoadInv /\ [Next]_vars => Shape'
<1> SUFFICES ASSUME Shape, LoadInv, [Next]_vars PROVE Shape'
  OBVIOUS
<1>1. CASE Deploy
  <2>1. deployments' \in 0 .. MaxDeployments
    BY <1>1, RbacAssumption DEF Deploy, Shape, RbacAssumption
  <2> QED
    BY <1>1, <2>1 DEF Deploy, Shape
<1>2. CASE Start
  <2>1. starts' \in 0 .. MaxStarts
    BY <1>2, RbacAssumption DEF Start, Shape, RbacAssumption
  <2>2. manifests' \in Seq(Document)
    BY <1>2, ReadTyped DEF Start, Shape
  <2>3. server' \in {"down", "loading", "up"} /\ base' \in {base, db}
    BY <1>2 DEF Start
  <2>4. Consistent(base') /\ Consistent(db')
    BY <1>2, <2>3 DEF Start, Shape
  <2> QED
    BY <1>2, <2>1, <2>2, <2>3, <2>4 DEF Start, Shape
<1>3. CASE Apply
  <2>1. PICK e \in 0 .. Len(Statements(manifests)) : Remaining(e)
    BY <1>3 DEF Apply, LoadInv
  <2>2. /\ StatementOK(Statements(manifests)[e + 1]) /\ Accepted(db, Statements(manifests)[e + 1])
        /\ db' = Execute(db, Statements(manifests)[e + 1])
    BY <1>3, <2>1, ApplyNext
  <2>3. Consistent(db')
    BY <2>2, ExecuteConsistent DEF Shape
  <2> QED
    BY <1>3, <2>3 DEF Apply, Shape
<1>4. CASE ApplyError
  BY <1>4 DEF ApplyError, Shape
<1>5. CASE Listen
  BY <1>5 DEF Listen, Shape
<1>6. CASE Stop
  BY <1>6 DEF Stop, Shape
<1>7. CASE UNCHANGED vars
  BY <1>7 DEF vars, Shape
<1> QED
  BY <1>1, <1>2, <1>3, <1>4, <1>5, <1>6, <1>7 DEF Next

LEMMA NextLoads == Shape /\ LoadInv /\ [Next]_vars => LoadInv'
<1> SUFFICES ASSUME Shape, LoadInv, [Next]_vars PROVE LoadInv'
  OBVIOUS
<1>1. CASE Deploy
  BY <1>1 DEF Deploy, LoadInv, Remaining
<1>2. CASE Start
  <2> DEFINE S == Statements(manifests')
  <2>1. S \in Seq(Statement) /\ Len(S) \in Nat
    BY <1>2, ReadTyped, StatementTables DEF Start, Shape
  <2>2. CASE AllComplete(manifests')
    <3>1. server' = "loading" /\ pending' = S
      BY <1>2, <2>2 DEF Start
    <3>2. SubSeq(S, 0 + 1, Len(S)) = S /\ 0 \in 0 .. Len(S)
      BY <2>1
    <3>3. Executed(db', S, 0)
      BY DEF Executed
    <3> HIDE DEF S
    <3>4. \E e \in 0 .. Len(S) : pending' = SubSeq(S, e + 1, Len(S)) /\ Executed(db', S, e)
      BY <3>1, <3>2, <3>3
    <3> QED
      BY <2>2, <3>1, <3>4 DEF LoadInv, Remaining, S
  <2>3. CASE ~AllComplete(manifests')
    BY <1>2, <2>3 DEF Start, LoadInv
  <2> QED
    BY <2>2, <2>3
<1>3. CASE Apply
  <2>1. PICK e \in 0 .. Len(Statements(manifests)) : Remaining(e)
    BY <1>3 DEF Apply, LoadInv
  <2> DEFINE S == Statements(manifests)
  <2>2. /\ e \in Nat /\ e < Len(S) /\ e + 1 \in 1 .. Len(S)
        /\ pending' = SubSeq(S, (e + 1) + 1, Len(S)) /\ Executed(db', S, e + 1)
    BY <1>3, <2>1, ApplyNext
  <2>3. e + 1 \in 0 .. Len(S)
    BY <2>2
  <2>4. server' = "loading" /\ manifests' = manifests /\ AllComplete(manifests)
    BY <1>3 DEF Apply, LoadInv
  <2> HIDE DEF S
  <2>5. \E f \in 0 .. Len(S) : pending' = SubSeq(S, f + 1, Len(S)) /\ Executed(db', S, f)
    BY <2>2, <2>3
  <2> QED
    BY <2>4, <2>5 DEF LoadInv, Remaining, S
<1>4. CASE ApplyError
  BY <1>4 DEF ApplyError, LoadInv
<1>5. CASE Listen
  <2>1. PICK e \in 0 .. Len(Statements(manifests)) : Remaining(e)
    BY <1>5 DEF Listen, LoadInv
  <2>2. Statements(manifests) \in Seq(Statement)
    BY StatementTables DEF Shape
  <2>3. e = Len(Statements(manifests))
    BY <1>5, <2>1, <2>2, RestOfSequence DEF Listen, Remaining
  <2> QED
    BY <1>5, <2>1, <2>3 DEF Listen, LoadInv, Remaining
<1>6. CASE Stop
  BY <1>6 DEF Stop, LoadInv
<1>7. CASE UNCHANGED vars
  BY <1>7 DEF vars, LoadInv, Remaining
<1> QED
  BY <1>1, <1>2, <1>3, <1>4, <1>5, <1>6, <1>7 DEF Next

LEMMA LoadsAlways == Spec => [](Shape /\ LoadInv)
<1>1. Init => Shape /\ LoadInv
  BY InitShape
<1>2. Shape /\ LoadInv /\ [Next]_vars => (Shape /\ LoadInv)'
  BY NextShape, NextLoads
<1> QED
  BY <1>1, <1>2, PTL DEF Spec

\* Only complete documents reach the tables, so every row has the columns its
\* table wants (LoadAndApply validates before it applies).
THEOREM TypesHold == Spec => []TypeOK
<1>1. Shape => TypeOK
  <2> SUFFICES ASSUME Shape PROVE TypeOK
    OBVIOUS
  <2>1. DOMAIN db = Tables /\ DOMAIN base = Tables
    BY DEF Shape, Consistent, TablesOK
  <2>2. \A t \in Tables : \A id \in DOMAIN db[t] : id \in Ids(t) /\ db[t][id] \in Rows(t)
    BY DEF Shape, Consistent, TablesOK
  <2>3. \A id \in DOMAIN db["root_cas"] : id \in Names /\ db["root_cas"][id] \in Fingerprints
    BY <2>2 DEF Tables, Ids, Rows
  <2>4. \A id \in DOMAIN db["intermediate_cas"] :
           id \in Names /\ db["intermediate_cas"][id] \in [parent : Names, fingerprint : Fingerprints]
    BY <2>2 DEF Tables, Ids, Rows
  <2>5. \A id \in DOMAIN db["ca_roles"] :
           /\ id \in Names \X Subjects \X Names
           /\ db["ca_roles"][id] \in [parent : Names, role : Names, permissions : Verbs]
    BY <2>2 DEF Tables, Ids, Rows
  <2>6. \A id \in DOMAIN db["ca_token_policies"] :
           id \in Names /\ db["ca_token_policies"][id] \in [parent : Names]
    BY <2>2 DEF Tables, Ids, Rows
  <2> QED
    BY <2>1, <2>3, <2>4, <2>5, <2>6 DEF TypeOK, Shape
<1> QED
  BY <1>1, LoadsAlways, PTL

\* No row is ever without its parent, wherever a load was cut short: apply writes
\* CAs before what refers to them, the foreign keys refuse the rest, and rows are
\* never deleted.  So the status page shows every row it counts.
THEOREM RowsShown == Spec => []EveryRowShown
<1>1. Shape => EveryRowShown
  <2> SUFFICES ASSUME Shape PROVE EveryRowShown
    OBVIOUS
  <2>1. \A t \in Tables \ {"root_cas"} : \A id \in DOMAIN db[t] :
           db[t][id].parent \in DOMAIN db[ParentTable(t)]
    BY DEF Shape, Consistent, ParentsPresent
  <2>2. ShownIntermediates(db) = DOMAIN db["intermediate_cas"]
    BY <2>1 DEF ShownIntermediates, Tables, ParentTable
  <2>3. \A t \in {"ca_roles", "ca_token_policies"} : ShownUnder(db, t) = DOMAIN db[t]
    BY <2>1, <2>2 DEF ShownUnder, Tables, ParentTable
  <2> QED
    BY <2>2, <2>3 DEF EveryRowShown
<1> QED
  BY <1>1, LoadsAlways, PTL


-----------------------------------------------------------------------------
(* A listening server has applied its documents faithfully                 *)

\* The last document of a CA decides its row.
LEMMA LastCADecides ==
    ASSUME NEW ms \in Seq(Document), NEW tables,
           Executed(tables, Statements(ms), Len(Statements(ms))),
           NEW kind \in {"root", "intermediate"}, NEW i \in Effective(ms, kind)
    PROVE  /\ CAStatement(ms[i]).id \in DOMAIN tables[CAStatement(ms[i]).table]
           /\ tables[CAStatement(ms[i]).table][CAStatement(ms[i]).id] = CAStatement(ms[i]).row
<1> DEFINE S == Statements(ms)
<1>1. PICK doc : CAPlaces(ms, doc)
  BY CAsPlaced
<1>2. i \in 1 .. Len(ms) /\ ms[i].kind = kind /\ \A j \in Defining(ms, kind, ms[i].name) : j <= i
  BY DEF Effective
<1>3. PICK p \in 1 .. Len(S) : S[p].table \in CATables /\ doc[p] = i
  BY <1>1, <1>2 DEF CAPlaces
<1>4. S[p] = CAStatement(ms[i]) /\ CAKind(S[p].table) = kind /\ S[p].id = ms[i].name
  BY <1>1, <1>2, <1>3 DEF CAPlaces
<1>5. Len(S) \in Nat /\ Len(ms) \in Nat
  BY StatementTables
<1>6. ASSUME NEW l \in (p + 1) .. Len(S), SameRow(S[l], S[p]) PROVE FALSE
  <2>1. l \in 1 .. Len(S) /\ p < l
    BY <1>5
  <2>2. S[l].table \in CATables /\ S[l].table = S[p].table /\ S[l].id = S[p].id
    BY <1>3, <1>6 DEF SameRow
  <2>3. /\ doc[l] \in 1 .. Len(ms) /\ ms[doc[l]].kind = kind /\ ms[doc[l]].name = ms[i].name
        /\ doc[p] < doc[l]
    BY <1>1, <1>3, <1>4, <2>1, <2>2 DEF CAPlaces
  <2>4. doc[l] <= i
    BY <1>2, <2>3 DEF Defining
  <2> QED
    BY <1>2, <1>3, <1>5, <2>3, <2>4
<1>7. /\ S[p].id \in DOMAIN tables[S[p].table]
      /\ tables[S[p].table][S[p].id] = S[p].row
  BY <1>6 DEF Executed
<1> QED
  BY <1>4, <1>7

\* The documents RolesOf gives a binding are the one the loader finds, if any.
LEMMA RoleFound ==
    ASSUME NEW ms \in Seq(Document), NEW b \in 1 .. Len(ms)
    PROVE  /\ RoleNamed(ms, ms[b].ref) # 0 => RoleNamed(ms, ms[b].ref) \in RolesOf(ms, b)
           /\ \A r \in RolesOf(ms, b) : r = RoleNamed(ms, ms[b].ref) /\ r # 0
           /\ RoleNamed(ms, ms[b].ref) # 0 => Defining(ms, "role", ms[b].ref) # {}
<1> DEFINE n == RoleNamed(ms, ms[b].ref)
           D == Defining(ms, "role", ms[b].ref)
<1>1. IF D = {} THEN n = 0 ELSE n \in D /\ \A i \in D : i <= n
  BY RoleNamedLast
<1> HIDE DEF n
<1>2. D \subseteq 1 .. Len(ms) /\ Len(ms) \in Nat
  BY DEF Defining
<1>3. n # 0 => n \in D /\ \A i \in D : i <= n
  BY <1>1
<1>4. n # 0 => n \in RolesOf(ms, b)
  BY <1>3 DEF RolesOf, Effective, Defining
<1>5. ASSUME NEW r \in RolesOf(ms, b) PROVE r = n /\ r # 0
  <2>1. r \in D /\ \A i \in D : i <= r
    BY DEF RolesOf, Effective, Defining
  <2>2. n \in D /\ r <= n
    BY <1>1, <2>1
  <2>3. n <= r
    BY <2>1, <2>2
  <2> QED
    BY <1>2, <2>1, <2>2, <2>3
<1> QED
  BY <1>1, <1>4, <1>5 DEF n

\* What is granted, in terms of statements.
LEMMA GrantFields ==
    ASSUME NEW ms, NEW g \in Grants(ms)
    PROVE  /\ g.binding \in 1 .. Len(ms) /\ ms[g.binding].kind = "binding"
           /\ g.role \in RolesOf(ms, g.binding) /\ g.rule \in 1 .. Len(ms[g.role].rules)
           /\ \E k \in 1 .. Len(ms[g.binding].subjects) : g.subject = ms[g.binding].subjects[k]
<1>1. PICK b \in {i \in 1 .. Len(ms) : ms[i].kind = "binding"} :
         g \in UNION {{[binding |-> b, role |-> r, rule |-> j, subject |-> ms[b].subjects[k]] :
                          j \in 1 .. Len(ms[r].rules), k \in 1 .. Len(ms[b].subjects)} :
                      r \in RolesOf(ms, b)}
  BY DEF Grants
<1>2. PICK r \in RolesOf(ms, b) :
         g \in {[binding |-> b, role |-> r, rule |-> j, subject |-> ms[b].subjects[k]] :
                   j \in 1 .. Len(ms[r].rules), k \in 1 .. Len(ms[b].subjects)}
  BY <1>1
<1>3. PICK j \in 1 .. Len(ms[r].rules), k \in 1 .. Len(ms[b].subjects) :
         g = [binding |-> b, role |-> r, rule |-> j, subject |-> ms[b].subjects[k]]
  BY <1>2
<1>4. g.binding = b /\ g.role = r /\ g.rule = j /\ g.subject = ms[b].subjects[k]
  BY <1>3
<1> QED
  BY <1>4

LEMMA IsGrant ==
    ASSUME NEW ms, NEW b \in 1 .. Len(ms), ms[b].kind = "binding",
           NEW r \in RolesOf(ms, b), NEW j \in 1 .. Len(ms[r].rules),
           NEW k \in 1 .. Len(ms[b].subjects)
    PROVE  [binding |-> b, role |-> r, rule |-> j, subject |-> ms[b].subjects[k]] \in Grants(ms)
<1> DEFINE h == [binding |-> b, role |-> r, rule |-> j, subject |-> ms[b].subjects[k]]
           H == {[binding |-> b, role |-> r, rule |-> x, subject |-> ms[b].subjects[y]] :
                   x \in 1 .. Len(ms[r].rules), y \in 1 .. Len(ms[b].subjects)}
           U == UNION {{[binding |-> b, role |-> q, rule |-> x, subject |-> ms[b].subjects[y]] :
                          x \in 1 .. Len(ms[q].rules), y \in 1 .. Len(ms[b].subjects)} :
                       q \in RolesOf(ms, b)}
<1>1. h \in H
  OBVIOUS
<1>2. H \subseteq U
  OBVIOUS
<1>3. U \subseteq Grants(ms)
  BY DEF Grants
<1> QED
  BY <1>1, <1>2, <1>3

\* A grant has its row, or one that is written later has it.
LEMMA GrantsApplied ==
    ASSUME NEW ms \in Seq(Document), NEW tables,
           Executed(tables, Statements(ms), Len(Statements(ms))), NEW g \in Grants(ms)
    PROVE  \/ GrantTarget(ms, g) = None
           \/ \E h \in Grants(ms) : Later(h, g) /\ GrantedRow(ms, h) = GrantedRow(ms, g)
           \/ /\ GrantedRow(ms, g) \in DOMAIN tables["ca_roles"]
              /\ tables["ca_roles"][GrantedRow(ms, g)].permissions = ms[g.role].rules[g.rule].verbs
<1> DEFINE S == Statements(ms)
           b == g.binding
           r == g.role
<1> SUFFICES ASSUME GrantTarget(ms, g) # None,
                    \A h \in Grants(ms) : ~(Later(h, g) /\ GrantedRow(ms, h) = GrantedRow(ms, g))
             PROVE  /\ GrantedRow(ms, g) \in DOMAIN tables["ca_roles"]
                    /\ tables["ca_roles"][GrantedRow(ms, g)].permissions
                          = ms[g.role].rules[g.rule].verbs
  OBVIOUS
<1>1. PICK doc, rule, sub : RolePlaces(ms, doc, rule, sub)
  BY RolesPlaced
<1>2. /\ b \in 1 .. Len(ms) /\ ms[b].kind = "binding" /\ r \in RolesOf(ms, b)
      /\ g.rule \in 1 .. Len(ms[r].rules)
  BY GrantFields
<1>3. PICK k \in 1 .. Len(ms[b].subjects) : g.subject = ms[b].subjects[k]
  BY GrantFields
<1>4. r = RoleNamed(ms, ms[b].ref) /\ RoleNamed(ms, ms[b].ref) # 0
  BY <1>2, RoleFound
<1>5. Target(ms[r].rules[g.rule], ms[r], ms[b]) # None
  BY DEF GrantTarget
<1>6. Len(S) \in Nat /\ \A p \in 1 .. Len(S) : S[p] \in Statement
  BY StatementTables
<1> HIDE DEF S, b, r
<1>7. PICK p \in 1 .. Len(S) : /\ S[p].table = "ca_roles"
                               /\ doc[p] = b /\ rule[p] = g.rule /\ sub[p] = k
  BY <1>1, <1>2, <1>3, <1>4, <1>5 DEF RolePlaces, S
<1>8. \A q \in 1 .. Len(S) : S[q].legal /\ S[q] # Failure
  BY DEF Executed, Failure, Upsert, S
<1>9. ASSUME NEW q \in 1 .. Len(S), S[q].table = "ca_roles"
      PROVE  /\ doc[q] \in 1 .. Len(ms) /\ ms[doc[q]].kind = "binding"
             /\ RoleNamed(ms, ms[doc[q]].ref) \in RolesOf(ms, doc[q])
             /\ rule[q] \in 1 .. Len(ms[RoleNamed(ms, ms[doc[q]].ref)].rules)
             /\ sub[q] \in 1 .. Len(ms[doc[q]].subjects)
             /\ S[q] = RoleStatement(ms[RoleNamed(ms, ms[doc[q]].ref)], ms[doc[q]], rule[q], sub[q])
  <2>1. /\ doc[q] \in 1 .. Len(ms) /\ ms[doc[q]].kind = "binding"
        /\ RoleNamed(ms, ms[doc[q]].ref) # 0
        /\ rule[q] \in 1 .. Len(ms[RoleNamed(ms, ms[doc[q]].ref)].rules)
        /\ sub[q] \in 1 .. Len(ms[doc[q]].subjects)
        /\ S[q] = RoleStatement(ms[RoleNamed(ms, ms[doc[q]].ref)], ms[doc[q]], rule[q], sub[q])
    BY <1>1, <1>8, <1>9 DEF RolePlaces, S
  <2> QED
    BY <2>1, RoleFound
<1>10. S[p] = RoleStatement(ms[r], ms[b], g.rule, k)
  BY <1>4, <1>7, <1>9
<1>11. S[p].id = GrantedRow(ms, g)
  BY <1>3, <1>10 DEF RoleStatement, Upsert, GrantedRow, GrantTarget, b, r
<1> DEFINE same == {q \in 1 .. Len(S) : SameRow(S[q], S[p])}
<1>12. PICK l \in same : \A q \in same : q <= l
  <2>1. same \subseteq 1 .. Len(S) /\ p \in same
    BY DEF SameRow
  <2> HIDE DEF same
  <2> QED
    BY <1>6, <2>1, Greatest
<1>13. l \in 1 .. Len(S) /\ S[l].table = "ca_roles" /\ S[l].id = S[p].id /\ p <= l
  BY <1>7, <1>12 DEF SameRow
<1>14. \A q \in (l + 1) .. Len(S) : ~SameRow(S[q], S[l])
  BY <1>6, <1>12, <1>13 DEF SameRow
<1>15. S[l].id \in DOMAIN tables["ca_roles"] /\ tables["ca_roles"][S[l].id] = S[l].row
  BY <1>13, <1>14 DEF Executed, S
<1> DEFINE rl == RoleNamed(ms, ms[doc[l]].ref)
           h == [binding |-> doc[l], role |-> rl, rule |-> rule[l],
                 subject |-> ms[doc[l]].subjects[sub[l]]]
<1>16. h \in Grants(ms)
  BY <1>9, <1>13, IsGrant
<1>17. S[l] = RoleStatement(ms[rl], ms[doc[l]], rule[l], sub[l])
  BY <1>9, <1>13
<1>18. GrantedRow(ms, h) = GrantedRow(ms, g)
  BY <1>11, <1>13, <1>17 DEF RoleStatement, Upsert, GrantedRow, GrantTarget
<1>19. ~Later(h, g)
  BY <1>16, <1>18
<1>20. doc[l] = b /\ rule[l] = g.rule
  <2>1. doc[l] \in 1 .. Len(ms) /\ rule[l] \in 1 .. Len(ms[rl].rules)
    BY <1>9, <1>13
  <2>2. Len(ms) \in Nat /\ Len(ms[rl].rules) \in Nat /\ Len(ms[r].rules) \in Nat
    <3>1. rl \in RolesOf(ms, doc[l])
      BY <1>9, <1>13
    <3>2. ms[rl] \in Document /\ ms[r] \in Document
      BY <1>2, <3>1 DEF RolesOf, Effective
    <3>3. \A m \in Document : Len(m.rules) \in Nat
      BY DEF Document
    <3> HIDE DEF rl
    <3> QED
      BY <3>2, <3>3
  <2>3. ~(doc[l] > b \/ (doc[l] = b /\ rule[l] > g.rule))
    BY <1>19 DEF Later, b
  <2>4. CASE p = l
    BY <1>7, <2>4
  <2>5. CASE p < l
    <3>1. doc[p] < doc[l] \/ (doc[p] = doc[l] /\ rule[p] <= rule[l])
      BY <1>1, <1>7, <1>8, <1>13, <2>5 DEF RolePlaces, S
    <3> QED
      BY <1>2, <1>7, <2>1, <2>2, <2>3, <3>1
  <2> QED
    BY <1>6, <1>13, <2>4, <2>5
<1>21. S[l].row.permissions = ms[r].rules[g.rule].verbs
  BY <1>4, <1>17, <1>20 DEF RoleStatement, Upsert
<1> QED
  BY <1>11, <1>13, <1>15, <1>21 DEF r

\* A binding without a role ends the load.
LEMMA BindingsHaveRoles ==
    ASSUME NEW ms \in Seq(Document), NEW tables,
           Executed(tables, Statements(ms), Len(Statements(ms))),
           NEW i \in 1 .. Len(ms), ms[i].kind = "binding"
    PROVE  Defining(ms, "role", ms[i].ref) # {}
<1>1. PICK doc, rule, sub : RolePlaces(ms, doc, rule, sub)
  BY RolesPlaced
<1>2. \A q \in 1 .. Len(Statements(ms)) : Statements(ms)[q] # Failure
  BY DEF Executed, Failure, Upsert
<1>3. RoleNamed(ms, ms[i].ref) # 0
  BY <1>1, <1>2 DEF RolePlaces
<1> QED
  BY <1>3, RoleFound

\* A server listens only after each statement of its documents was executed, in
\* order, so that the last word about a row is the last document's: apply.
THEOREM LoadsFaithfully == Spec => []LoadedFaithfully
<1>1. Shape /\ LoadInv => LoadedFaithfully
  <2> SUFFICES ASSUME Shape, LoadInv, server = "up" PROVE LoadedFaithfully!2
    BY DEF LoadedFaithfully
  <2>1. manifests \in Seq(Document) /\ Executed(db, Statements(manifests), Len(Statements(manifests)))
    BY DEF Shape, LoadInv
  <2>2. ASSUME NEW i \in Effective(manifests, "root")
        PROVE  /\ manifests[i].name \in DOMAIN db["root_cas"]
               /\ db["root_cas"][manifests[i].name] = manifests[i].fingerprint
    <3>1. manifests[i].kind = "root"
      BY DEF Effective
    <3>2. /\ CAStatement(manifests[i]).table = "root_cas"
          /\ CAStatement(manifests[i]).id = manifests[i].name
          /\ CAStatement(manifests[i]).row = manifests[i].fingerprint
      BY <3>1 DEF CAStatement, applyRootCA, Upsert
    <3> QED
      BY <2>1, <3>2, LastCADecides
  <2>3. ASSUME NEW i \in Effective(manifests, "intermediate")
        PROVE  /\ manifests[i].name \in DOMAIN db["intermediate_cas"]
               /\ db["intermediate_cas"][manifests[i].name].parent = manifests[i].ref
    <3>1. manifests[i].kind = "intermediate"
      BY DEF Effective
    <3>2. /\ CAStatement(manifests[i]).table = "intermediate_cas"
          /\ CAStatement(manifests[i]).id = manifests[i].name
          /\ CAStatement(manifests[i]).row.parent = manifests[i].ref
      BY <3>1 DEF CAStatement, applyIntermediateCA, Upsert
    <3> QED
      BY <2>1, <3>2, LastCADecides
  <2>4. \A g \in Grants(manifests) :
           \/ GrantTarget(manifests, g) = None
           \/ \E h \in Grants(manifests) :
                 Later(h, g) /\ GrantedRow(manifests, h) = GrantedRow(manifests, g)
           \/ /\ GrantedRow(manifests, g) \in DOMAIN db["ca_roles"]
              /\ db["ca_roles"][GrantedRow(manifests, g)].permissions
                    = manifests[g.role].rules[g.rule].verbs
    BY <2>1, GrantsApplied
  <2>5. \A i \in 1 .. Len(manifests) : manifests[i].kind = "binding" =>
           Defining(manifests, "role", manifests[i].ref) # {}
    BY <2>1, BindingsHaveRoles
  <2> QED
    BY <2>2, <2>3, <2>4, <2>5
<1> QED
  BY <1>1, LoadsAlways, PTL


-----------------------------------------------------------------------------
(* A restart ends where the first start would have                         *)

\* The recursion Outcomes is defined by has a solution.
LEMMA OutcomesRecursion ==
    ASSUME NEW A, NEW sts \in Seq(A), NEW tables
    PROVE  \A n \in 0 .. Len(sts) :
              Outcomes(tables, sts)[n] =
                  IF n = 0 THEN [ok |-> TRUE, db |-> tables]
                  ELSE IF Outcomes(tables, sts)[n - 1].ok
                          /\ Accepted(Outcomes(tables, sts)[n - 1].db, sts[n])
                       THEN [ok |-> TRUE, db |-> Execute(Outcomes(tables, sts)[n - 1].db, sts[n])]
                       ELSE [ok |-> FALSE, db |-> Outcomes(tables, sts)[n - 1].db]
<1> DEFINE Step(acc, n) == IF acc.ok /\ Accepted(acc.db, sts[n])
                           THEN [ok |-> TRUE, db |-> Execute(acc.db, sts[n])]
                           ELSE [ok |-> FALSE, db |-> acc.db]
           first == [ok |-> TRUE, db |-> tables]
           Rec(f, m) == f = [n \in 0 .. m |-> IF n = 0 THEN first ELSE Step(f[n - 1], n)]
           P(m) == \E f : Rec(f, m)
           Q == {m \in Nat : P(m)}
<1>a. Outcomes(tables, sts) = CHOOSE f : Rec(f, Len(sts))
  BY DEF Outcomes
<1>b. ASSUME NEW f, NEW n, n # 0
      PROVE  Step(f[n - 1], n) = IF f[n - 1].ok /\ Accepted(f[n - 1].db, sts[n])
                                 THEN [ok |-> TRUE, db |-> Execute(f[n - 1].db, sts[n])]
                                 ELSE [ok |-> FALSE, db |-> f[n - 1].db]
  OBVIOUS
<1>c. first = [ok |-> TRUE, db |-> tables]
  OBVIOUS
<1> HIDE DEF Step, first
<1>1. 0 \in Q
  <2> DEFINE f == [n \in 0 .. 0 |-> first]
  <2>1. Rec(f, 0)
    OBVIOUS
  <2> HIDE DEF Rec, f
  <2> QED
    BY <2>1
<1>2. ASSUME NEW m \in Nat, m \in Q PROVE m + 1 \in Q
  <2>1. PICK f : Rec(f, m)
    BY <1>2
  <2> DEFINE g == [n \in 0 .. (m + 1) |-> IF n <= m THEN f[n] ELSE Step(f[n - 1], n)]
  <2>2. ASSUME NEW n \in 0 .. (m + 1)
        PROVE  g[n] = IF n = 0 THEN first ELSE Step(g[n - 1], n)
    <3>1. CASE n <= m
      <4>1. n \in 0 .. m /\ g[n] = f[n]
        BY <3>1
      <4>2. f[n] = IF n = 0 THEN first ELSE Step(f[n - 1], n)
        BY <2>1, <4>1
      <4>3. n # 0 => n - 1 \in 0 .. (m + 1) /\ n - 1 <= m
        BY <4>1
      <4>4. n # 0 => g[n - 1] = f[n - 1]
        BY <4>3
      <4> HIDE DEF g
      <4> QED
        BY <4>1, <4>2, <4>4
    <3>2. CASE n = m + 1
      <4>1. ~(n <= m) /\ n # 0 /\ n - 1 \in 0 .. (m + 1) /\ n - 1 <= m
        BY <3>2
      <4>2. g[n - 1] = f[n - 1] /\ g[n] = Step(f[n - 1], n)
        BY <4>1
      <4> HIDE DEF g
      <4> QED
        BY <4>1, <4>2
    <3> QED
      BY <3>1, <3>2
  <2>3. Rec(g, m + 1)
    <3>1. g = [n \in 0 .. (m + 1) |-> g[n]]
      OBVIOUS
    <3> HIDE DEF g
    <3> QED
      BY <2>2, <3>1
  <2>4. P(m + 1)
    <3> HIDE DEF Rec
    <3> QED
      BY <2>3
  <2> HIDE DEF P
  <2> QED
    BY <2>4
<1>3. Len(sts) \in Q
  <2>1. Len(sts) \in Nat
    OBVIOUS
  <2> HIDE DEF Q
  <2> QED
    BY <1>1, <1>2, <2>1, Induction
<1> DEFINE o == Outcomes(tables, sts)
<1>4. Rec(o, Len(sts))
  <2>1. P(Len(sts))
    BY <1>3
  <2> HIDE DEF Rec
  <2> QED
    BY <1>a, <2>1
<1>5. ASSUME NEW n \in 0 .. Len(sts)
      PROVE  o[n] = IF n = 0 THEN first ELSE Step(o[n - 1], n)
  <2> HIDE DEF o
  <2> QED
    BY <1>4
<1> SUFFICES ASSUME NEW n \in 0 .. Len(sts)
             PROVE  o[n] = IF n = 0 THEN [ok |-> TRUE, db |-> tables]
                           ELSE IF o[n - 1].ok /\ Accepted(o[n - 1].db, sts[n])
                                THEN [ok |-> TRUE, db |-> Execute(o[n - 1].db, sts[n])]
                                ELSE [ok |-> FALSE, db |-> o[n - 1].db]
  OBVIOUS
<1> HIDE DEF o
<1> QED
  BY <1>5, <1>b, <1>c

\* What each statement makes of the outcome before it.
LEMMA OutcomeNext ==
    ASSUME NEW A, NEW sts \in Seq(A), NEW tables, NEW n \in Nat, n < Len(sts)
    PROVE  LET o == Outcomes(tables, sts)
           IN  /\ o[0] = [ok |-> TRUE, db |-> tables]
               /\ o[n + 1].ok <=> o[n].ok /\ Accepted(o[n].db, sts[n + 1])
               /\ o[n + 1].ok => o[n + 1] = [ok |-> TRUE, db |-> Execute(o[n].db, sts[n + 1])]
               /\ ~o[n + 1].ok => o[n + 1] = [ok |-> FALSE, db |-> o[n].db]
<1> DEFINE o == Outcomes(tables, sts)
<1>1. \A k \in 0 .. Len(sts) :
         o[k] = IF k = 0 THEN [ok |-> TRUE, db |-> tables]
                ELSE IF o[k - 1].ok /\ Accepted(o[k - 1].db, sts[k])
                     THEN [ok |-> TRUE, db |-> Execute(o[k - 1].db, sts[k])]
                     ELSE [ok |-> FALSE, db |-> o[k - 1].db]
  BY OutcomesRecursion
<1> HIDE DEF o
<1>2. 0 \in 0 .. Len(sts) /\ n + 1 \in 0 .. Len(sts) /\ n + 1 # 0 /\ (n + 1) - 1 = n
  OBVIOUS
<1>3. o[0] = [ok |-> TRUE, db |-> tables]
  BY <1>1, <1>2
<1>4. o[n + 1] = IF o[n].ok /\ Accepted(o[n].db, sts[n + 1])
                 THEN [ok |-> TRUE, db |-> Execute(o[n].db, sts[n + 1])]
                 ELSE [ok |-> FALSE, db |-> o[n].db]
  BY <1>1, <1>2
<1>5. CASE o[n].ok /\ Accepted(o[n].db, sts[n + 1])
  BY <1>3, <1>4, <1>5 DEF o
<1>6. CASE ~(o[n].ok /\ Accepted(o[n].db, sts[n + 1]))
  BY <1>3, <1>4, <1>6 DEF o
<1> QED
  BY <1>5, <1>6

LEMMA OutcomeFirst ==
    ASSUME NEW A, NEW sts \in Seq(A), NEW tables
    PROVE  Outcomes(tables, sts)[0] = [ok |-> TRUE, db |-> tables]
<1> DEFINE o == Outcomes(tables, sts)
<1>1. \A n \in 0 .. Len(sts) :
         o[n] = IF n = 0 THEN [ok |-> TRUE, db |-> tables]
                ELSE IF o[n - 1].ok /\ Accepted(o[n - 1].db, sts[n])
                     THEN [ok |-> TRUE, db |-> Execute(o[n - 1].db, sts[n])]
                     ELSE [ok |-> FALSE, db |-> o[n - 1].db]
  BY OutcomesRecursion
<1> HIDE DEF o
<1>2. 0 \in 0 .. Len(sts)
  OBVIOUS
<1>3. o[0] = [ok |-> TRUE, db |-> tables]
  BY <1>1, <1>2
<1> QED
  BY <1>3 DEF o

\* Statements that fit their tables.
Fitting(S) == S \in Seq(Statement) /\ \A k \in 1 .. Len(S) : StatementOK(S[k])

\* A load that got through its first m statements got through each of them, and
\* no table lost a row.
Through(start, S, m) ==
    LET o == Outcomes(start, S)
    IN /\ Consistent(o[m].db) /\ Executed(o[m].db, S, m)
       /\ o[m] = [ok |-> TRUE, db |-> o[m].db]
       /\ \A k \in 0 .. (m - 1) :
             /\ Accepted(o[k].db, S[k + 1])
             /\ \A t \in Tables : DOMAIN o[k].db[t] \subseteq DOMAIN o[m].db[t]

LEMMA OutcomeThrough ==
    ASSUME NEW S, Fitting(S), NEW start, Consistent(start), NEW m \in 0 .. Len(S),
           Outcomes(start, S)[m].ok
    PROVE  Through(start, S, m)
<1> DEFINE o == Outcomes(start, S)
           P(k) == k <= Len(S) /\ o[k].ok => Through(start, S, k)
           Q == {k \in Nat : P(k)}
<1>1. S \in Seq(Statement) /\ Len(S) \in Nat /\ \A k \in 1 .. Len(S) : StatementOK(S[k])
  BY DEF Fitting
<1>2. 0 \in Q
  <2>1. o[0] = [ok |-> TRUE, db |-> start]
    BY <1>1, OutcomeFirst
  <2>2. Through(start, S, 0)
    BY <2>1 DEF Through, Executed
  <2> HIDE DEF o
  <2> QED
    BY <2>2
<1>3. ASSUME NEW k \in Nat, k \in Q PROVE k + 1 \in Q
  <2>1. ASSUME k + 1 <= Len(S), o[k + 1].ok PROVE Through(start, S, k + 1)
    <3>1. k < Len(S) /\ k + 1 \in 1 .. Len(S)
      BY <1>1, <2>1
    <3>2. /\ o[k].ok /\ Accepted(o[k].db, S[k + 1])
          /\ o[k + 1] = [ok |-> TRUE, db |-> Execute(o[k].db, S[k + 1])]
      <4>1. /\ o[0] = [ok |-> TRUE, db |-> start]
            /\ o[k + 1].ok <=> o[k].ok /\ Accepted(o[k].db, S[k + 1])
            /\ o[k + 1].ok => o[k + 1] = [ok |-> TRUE, db |-> Execute(o[k].db, S[k + 1])]
            /\ ~o[k + 1].ok => o[k + 1] = [ok |-> FALSE, db |-> o[k].db]
        BY <1>1, <3>1, OutcomeNext
      <4> HIDE DEF o
      <4> QED
        BY <2>1, <4>1
    <3>3. Through(start, S, k)
      BY <1>1, <1>3, <3>1, <3>2
    <3> HIDE DEF o
    <3>4. o[k + 1].db = Execute(o[k].db, S[k + 1]) /\ o[k + 1] = [ok |-> TRUE, db |-> o[k + 1].db]
      BY <3>2
    <3>5. Consistent(o[k].db) /\ Executed(o[k].db, S, k) /\ DOMAIN o[k].db = Tables
      BY <3>3 DEF Through, o, Consistent, TablesOK
    <3>6. Consistent(o[k + 1].db)
      BY <1>1, <3>1, <3>2, <3>4, <3>5, ExecuteConsistent
    <3>7. S[k + 1].table \in Tables /\ S[k + 1].legal /\ \A j \in 1 .. Len(S) : S[j].table \in Tables
      BY <1>1, <3>1, <3>2 DEF StatementOK, Accepted
    <3>8. Executed(o[k + 1].db, S, k + 1)
      BY <1>1, <3>1, <3>4, <3>5, <3>7, ExecuteNext
    <3>9. \A t \in Tables : DOMAIN o[k].db[t] \subseteq DOMAIN o[k + 1].db[t]
      BY <3>4, <3>5, <3>7, ExecuteGrows
    <3>10. ASSUME NEW j \in 0 .. ((k + 1) - 1)
           PROVE  /\ Accepted(o[j].db, S[j + 1])
                  /\ \A t \in Tables : DOMAIN o[j].db[t] \subseteq DOMAIN o[k + 1].db[t]
      <4>1. CASE j = k
        BY <3>2, <3>9, <4>1
      <4>2. CASE j \in 0 .. (k - 1)
        <5>1. /\ Accepted(o[j].db, S[j + 1])
              /\ \A t \in Tables : DOMAIN o[j].db[t] \subseteq DOMAIN o[k].db[t]
          BY <3>3, <4>2 DEF Through, o
        <5> QED
          BY <3>9, <5>1
      <4> QED
        BY <4>1, <4>2
    <3> QED
      BY <3>4, <3>6, <3>8, <3>10 DEF Through, o
  <2> QED
    BY <2>1
<1>4. m \in Q
  <2> HIDE DEF Q
  <2> QED
    BY <1>1, <1>2, <1>3, Induction
<1> QED
  BY <1>1, <1>4

\* The tables of a start and those after its first m statements differ only in
\* rows these statements write, and not in the CAs.
Reached(tables, start, S, m) ==
    LET last == Outcomes(start, S)[m]
    IN /\ last.ok
       /\ \A t \in Tables : DOMAIN tables[t] = DOMAIN last.db[t]
       /\ \A t \in CATables : tables[t] = last.db[t]
       /\ \A t \in Tables : \A id \in DOMAIN tables[t] :
             (\A k \in 1 .. m : ~(S[k].table = t /\ S[k].id = id)) =>
                 tables[t][id] = last.db[t][id]

\* CAs that are declared once are written once.
WrittenOnce(S) ==
    \A p, q \in 1 .. Len(S) : (S[p].table \in CATables /\ SameRow(S[p], S[q])) => p = q

LEMMA DistinctWrittenOnce ==
    ASSUME NEW ms \in Seq(Document), DistinctCAs(ms)
    PROVE  WrittenOnce(Statements(ms))
<1> DEFINE S == Statements(ms)
<1>1. PICK doc : CAPlaces(ms, doc)
  BY CAsPlaced
<1>2. Len(S) \in Nat /\ Len(ms) \in Nat
  BY StatementTables
<1>3. ASSUME NEW p \in 1 .. Len(S), NEW q \in 1 .. Len(S), p < q,
             S[p].table \in CATables, SameRow(S[p], S[q])
      PROVE  FALSE
  <2>1. S[q].table \in CATables /\ S[q].table = S[p].table /\ S[q].id = S[p].id
    BY <1>3 DEF SameRow
  <2>2. /\ doc[p] \in 1 .. Len(ms) /\ doc[q] \in 1 .. Len(ms) /\ doc[p] < doc[q]
        /\ ms[doc[p]].kind = CAKind(S[p].table) /\ ms[doc[q]].kind = ms[doc[p]].kind
        /\ ms[doc[q]].name = ms[doc[p]].name
    BY <1>1, <1>3, <2>1 DEF CAPlaces
  <2>3. ms[doc[p]].kind \in {"root", "intermediate"}
    BY <2>2 DEF CAKind
  <2>4. doc[p] = doc[q]
    BY <2>2, <2>3 DEF DistinctCAs
  <2> QED
    BY <1>2, <2>2, <2>4
<1>4. ASSUME NEW p \in 1 .. Len(S), NEW q \in 1 .. Len(S), p # q,
             S[p].table \in CATables, SameRow(S[p], S[q])
      PROVE  FALSE
  <2>1. S[q].table \in CATables /\ SameRow(S[q], S[p])
    BY <1>4 DEF SameRow
  <2>2. p < q \/ q < p
    BY <1>2, <1>4
  <2> QED
    BY <1>3, <1>4, <2>1, <2>2
<1> QED
  BY <1>4 DEF WrittenOnce

\* A statement that was executed before is accepted again, and leaves the tables
\* within what was reached.
LEMMA ReachedAgain ==
    ASSUME NEW S, Fitting(S), WrittenOnce(S), NEW start, Consistent(start),
           NEW m \in 0 .. Len(S), NEW tables, Consistent(tables), Reached(tables, start, S, m),
           NEW e \in Nat, e < m
    PROVE  /\ Accepted(tables, S[e + 1])
           /\ Reached(Execute(tables, S[e + 1]), start, S, m)
<1> DEFINE o == Outcomes(start, S)
           last == o[m].db
           st == S[e + 1]
           T == st.table
           new == Execute(tables, st)
<1>1. S \in Seq(Statement) /\ Len(S) \in Nat /\ \A k \in 1 .. Len(S) : StatementOK(S[k])
  BY DEF Fitting
<1>2. e + 1 \in 1 .. m /\ e + 1 \in 1 .. Len(S) /\ e \in 0 .. (m - 1) /\ m \in Nat
  BY <1>1
<1>3. Through(start, S, m)
  BY <1>1, OutcomeThrough DEF Reached
<1>4. Reached(tables, start, S, m) /\ T \in Tables
  BY <1>1, <1>2 DEF StatementOK
<1>5. /\ Consistent(last) /\ Executed(last, S, m)
      /\ Accepted(o[e].db, st)
      /\ \A t \in Tables : DOMAIN o[e].db[t] \subseteq DOMAIN last[t]
  BY <1>2, <1>3 DEF Through
<1>6. /\ o[m].ok /\ \A t \in Tables : DOMAIN tables[t] = DOMAIN last[t]
      /\ \A t \in CATables : tables[t] = last[t]
      /\ \A t \in Tables : \A id \in DOMAIN tables[t] :
            (\A k \in 1 .. m : ~(S[k].table = t /\ S[k].id = id)) => tables[t][id] = last[t][id]
  BY <1>4 DEF Reached
<1> HIDE DEF o, last
<1>7. st.legal /\ st.id \in DOMAIN last[T]
  BY <1>2, <1>5 DEF Executed
<1>8. T \in CATables => last[T][st.id] = st.row
  <2>1. ASSUME T \in CATables, NEW l \in ((e + 1) + 1) .. m, SameRow(S[l], st) PROVE FALSE
    <3>1. l \in 1 .. Len(S) /\ l # e + 1
      BY <1>1, <1>2
    <3>2. SameRow(st, S[l])
      BY <2>1 DEF SameRow
    <3> QED
      BY <1>2, <2>1, <3>1, <3>2 DEF WrittenOnce
  <2> QED
    BY <1>2, <1>5, <2>1 DEF Executed
<1> HIDE DEF st
<1>9. ~FingerprintTaken(tables, st)
  <2> SUFFICES ASSUME T \in CATables, NEW id \in DOMAIN tables[T] \ {st.id},
                      FingerprintOf(T, tables[T][id]) = FingerprintOf(T, st.row)
               PROVE  FALSE
    BY DEF FingerprintTaken, CATables
  <2>1. tables[T] = last[T] /\ id \in DOMAIN last[T] /\ last[T][st.id] = st.row
    BY <1>6, <1>8
  <2> QED
    BY <1>5, <1>7, <2>1 DEF Consistent, FingerprintsUnique
<1>10. ParentExists(tables, st)
  <2>1. ParentExists(o[e].db, st)
    BY <1>5 DEF Accepted
  <2>2. \A t \in Tables : DOMAIN o[e].db[t] \subseteq DOMAIN tables[t]
    BY <1>5, <1>6
  <2>3. "root_cas" \in Tables /\ "intermediate_cas" \in Tables
    BY DEF Tables
  <2>4. /\ DOMAIN o[e].db["root_cas"] \subseteq DOMAIN tables["root_cas"]
        /\ DOMAIN o[e].db["intermediate_cas"] \subseteq DOMAIN tables["intermediate_cas"]
    BY <2>2, <2>3
  <2> QED
    BY <2>1, <2>4 DEF ParentExists
<1>11. Accepted(tables, st)
  BY <1>7, <1>9, <1>10 DEF Accepted
<1>12. DOMAIN tables = Tables /\ \A t \in Tables : tables[t] = [id \in DOMAIN tables[t] |-> tables[t][id]]
  BY DEF Consistent, TablesOK
<1>13. /\ new = [u \in Tables |-> new[u]]
       /\ \A u \in Tables : u # st.table => new[u] = tables[u]
       /\ DOMAIN new[st.table] = DOMAIN tables[st.table] \cup {st.id}
       /\ new[st.table] = [id \in DOMAIN new[st.table] |-> new[st.table][id]]
       /\ new[st.table][st.id] = st.row
       /\ \A id \in DOMAIN tables[st.table] : id # st.id => new[st.table][id] = tables[st.table][id]
  BY <1>4, <1>12, ExecuteFacts
<1> HIDE DEF new
<1>14. \A t \in Tables : DOMAIN new[t] = DOMAIN tables[t]
  <2>1. DOMAIN new[T] = DOMAIN tables[T]
    BY <1>4, <1>6, <1>7, <1>13
  <2> QED
    BY <1>13, <2>1
<1>15. ASSUME NEW t \in CATables PROVE new[t] = tables[t]
  <2>1. t \in Tables
    BY DEF CATables, Tables
  <2>2. CASE t # T
    BY <1>13, <2>1, <2>2
  <2>3. CASE t = T
    <3>1. \A id \in DOMAIN tables[T] : new[T][id] = tables[T][id]
      BY <1>6, <1>8, <1>13, <2>3
    <3>2. DOMAIN new[T] = DOMAIN tables[T] /\ new[T] = [id \in DOMAIN new[T] |-> new[T][id]]
          /\ tables[T] = [id \in DOMAIN tables[T] |-> tables[T][id]]
      BY <1>4, <1>12, <1>13, <1>14
    <3>3. new[T] = tables[T]
      BY <3>1, <3>2
    <3> QED
      BY <2>3, <3>3
  <2> QED
    BY <2>2, <2>3
<1>16. ASSUME NEW t \in Tables, NEW id \in DOMAIN new[t],
              \A k \in 1 .. m : ~(S[k].table = t /\ S[k].id = id)
       PROVE  new[t][id] = last[t][id]
  <2>1. ~(T = t /\ st.id = id)
    BY <1>2, <1>16 DEF st
  <2>2. id \in DOMAIN tables[t] /\ tables[t][id] = last[t][id]
    BY <1>6, <1>14, <1>16
  <2>3. new[t][id] = tables[t][id]
    BY <1>13, <2>1, <2>2
  <2> QED
    BY <2>2, <2>3
<1>17. Reached(new, start, S, m)
  <2>1. \A t \in Tables : DOMAIN new[t] = DOMAIN last[t]
    BY <1>6, <1>14
  <2>2. \A t \in CATables : new[t] = last[t]
    BY <1>6, <1>15
  <2> QED
    BY <1>6, <1>16, <2>1, <2>2 DEF Reached, last, o
<1> QED
  BY <1>11, <1>17 DEF new, st

\* When all of them have been executed again the tables are the same.
LEMMA ReachedEqual ==
    ASSUME NEW S, Fitting(S), NEW start, Consistent(start),
           NEW m \in 0 .. Len(S), NEW tables, Consistent(tables), Reached(tables, start, S, m),
           Executed(tables, S, m)
    PROVE  tables = Outcomes(start, S)[m].db
<1> DEFINE last == Outcomes(start, S)[m].db
<1>1. S \in Seq(Statement) /\ Len(S) \in Nat /\ m \in Nat
  BY DEF Fitting
<1>2. Through(start, S, m)
  BY <1>1, OutcomeThrough DEF Reached
<1>3. Consistent(last) /\ Executed(last, S, m)
  BY <1>2 DEF Through
<1>4. /\ \A t \in Tables : DOMAIN tables[t] = DOMAIN last[t]
      /\ \A t \in Tables : \A id \in DOMAIN tables[t] :
            (\A k \in 1 .. m : ~(S[k].table = t /\ S[k].id = id)) => tables[t][id] = last[t][id]
  BY DEF Reached
<1> HIDE DEF last
<1>5. ASSUME NEW t \in Tables, NEW id \in DOMAIN tables[t] PROVE tables[t][id] = last[t][id]
  <2> DEFINE W == {k \in 1 .. m : S[k].table = t /\ S[k].id = id}
  <2>1. CASE W = {}
    <3>1. \A k \in 1 .. m : ~(S[k].table = t /\ S[k].id = id)
      BY <2>1
    <3> QED
      BY <1>4, <3>1
  <2>2. CASE W # {}
    <3>1. W \subseteq 1 .. m
      OBVIOUS
    <3>2. PICK k \in W : \A l \in W : l <= k
      <4> HIDE DEF W
      <4> QED
        BY <1>1, <2>2, <3>1, Greatest
    <3>3. k \in 1 .. m /\ S[k].table = t /\ S[k].id = id
      BY <3>2
    <3>4. \A l \in (k + 1) .. m : ~SameRow(S[l], S[k])
      BY <1>1, <3>2, <3>3 DEF SameRow
    <3>5. tables[t][id] = S[k].row
      BY <3>3, <3>4 DEF Executed
    <3>6. last[t][id] = S[k].row
      BY <1>3, <3>3, <3>4 DEF Executed
    <3> QED
      BY <3>5, <3>6
  <2> QED
    BY <2>1, <2>2
<1>6. ASSUME NEW t \in Tables PROVE tables[t] = last[t]
  <2>1. /\ tables[t] = [id \in DOMAIN tables[t] |-> tables[t][id]]
        /\ last[t] = [id \in DOMAIN last[t] |-> last[t][id]]
    BY <1>3 DEF Consistent, TablesOK
  <2> QED
    BY <1>4, <1>5, <2>1
<1>7. tables = [t \in Tables |-> tables[t]] /\ last = [t \in Tables |-> last[t]]
  BY <1>3 DEF Consistent, TablesOK
<1>8. tables = last
  BY <1>6, <1>7
<1> QED
  BY <1>8 DEF last


\* The next statement after those reached makes of the same tables the next outcome.
LEMMA ReachedFurther ==
    ASSUME NEW S, Fitting(S), NEW start, NEW m \in Nat, m < Len(S),
           Outcomes(start, S)[m].ok, Accepted(Outcomes(start, S)[m].db, S[m + 1])
    PROVE  Reached(Execute(Outcomes(start, S)[m].db, S[m + 1]), start, S, m + 1)
<1> DEFINE o == Outcomes(start, S)
<1>1. /\ o[0] = [ok |-> TRUE, db |-> start]
      /\ o[m + 1].ok <=> o[m].ok /\ Accepted(o[m].db, S[m + 1])
      /\ o[m + 1].ok => o[m + 1] = [ok |-> TRUE, db |-> Execute(o[m].db, S[m + 1])]
      /\ ~o[m + 1].ok => o[m + 1] = [ok |-> FALSE, db |-> o[m].db]
  BY OutcomeNext DEF Fitting
<1>2. o[m].ok /\ Accepted(o[m].db, S[m + 1])
  OBVIOUS
<1> HIDE DEF o
<1>3. o[m + 1].ok /\ o[m + 1].db = Execute(o[m].db, S[m + 1])
  BY <1>1, <1>2
<1>4. Reached(o[m + 1].db, start, S, m + 1)
  BY <1>3 DEF Reached, o
<1> QED
  BY <1>3, <1>4 DEF o

LEMMA ReachedFirst ==
    ASSUME NEW S, Fitting(S), NEW start
    PROVE  Reached(start, start, S, 0)
<1>1. Outcomes(start, S)[0] = [ok |-> TRUE, db |-> start]
  BY OutcomeFirst DEF Fitting
<1>2. Outcomes(start, S)[0].ok /\ Outcomes(start, S)[0].db = start
  BY <1>1
<1> QED
  BY <1>2 DEF Reached

\* From tables that were reached a load ends where one from the start does.
LEMMA ReachedConverges ==
    ASSUME NEW S, Fitting(S), WrittenOnce(S), NEW start, Consistent(start),
           NEW m \in 0 .. Len(S), NEW tables, Consistent(tables), Reached(tables, start, S, m)
    PROVE  Outcome(tables, S) = Outcome(start, S)
<1> DEFINE d == Outcomes(tables, S)
           o == Outcomes(start, S)
           P(k) == k <= m => /\ d[k] = [ok |-> TRUE, db |-> d[k].db] /\ Consistent(d[k].db)
                             /\ Executed(d[k].db, S, k) /\ Reached(d[k].db, start, S, m)
           Q == {k \in Nat : P(k)}
<1>1. S \in Seq(Statement) /\ Len(S) \in Nat /\ m \in Nat /\ \A k \in 1 .. Len(S) : StatementOK(S[k])
  BY DEF Fitting
<1>2. ASSUME NEW k \in Nat, k < Len(S)
      PROVE  /\ d[k + 1].ok <=> d[k].ok /\ Accepted(d[k].db, S[k + 1])
             /\ d[k + 1].ok => d[k + 1] = [ok |-> TRUE, db |-> Execute(d[k].db, S[k + 1])]
             /\ ~d[k + 1].ok => d[k + 1] = [ok |-> FALSE, db |-> d[k].db]
  <2>1. /\ d[0] = [ok |-> TRUE, db |-> tables]
        /\ d[k + 1].ok <=> d[k].ok /\ Accepted(d[k].db, S[k + 1])
        /\ d[k + 1].ok => d[k + 1] = [ok |-> TRUE, db |-> Execute(d[k].db, S[k + 1])]
        /\ ~d[k + 1].ok => d[k + 1] = [ok |-> FALSE, db |-> d[k].db]
    BY <1>1, <1>2, OutcomeNext
  <2> QED
    BY <2>1
<1>3. ASSUME NEW k \in Nat, k < Len(S)
      PROVE  /\ o[k + 1].ok <=> o[k].ok /\ Accepted(o[k].db, S[k + 1])
             /\ o[k + 1].ok => o[k + 1] = [ok |-> TRUE, db |-> Execute(o[k].db, S[k + 1])]
             /\ ~o[k + 1].ok => o[k + 1] = [ok |-> FALSE, db |-> o[k].db]
  <2>1. /\ o[0] = [ok |-> TRUE, db |-> start]
        /\ o[k + 1].ok <=> o[k].ok /\ Accepted(o[k].db, S[k + 1])
        /\ o[k + 1].ok => o[k + 1] = [ok |-> TRUE, db |-> Execute(o[k].db, S[k + 1])]
        /\ ~o[k + 1].ok => o[k + 1] = [ok |-> FALSE, db |-> o[k].db]
    BY <1>1, <1>3, OutcomeNext
  <2> QED
    BY <2>1
<1>4. 0 \in Q
  <2>1. d[0] = [ok |-> TRUE, db |-> tables]
    BY <1>1, OutcomeFirst
  <2> HIDE DEF d
  <2>2. d[0].db = tables
    BY <2>1
  <2>3. Executed(tables, S, 0)
    BY DEF Executed
  <2>4. P(0)
    BY <2>1, <2>2, <2>3
  <2> HIDE DEF P
  <2> QED
    BY <2>4
<1>5. ASSUME NEW k \in Nat, k \in Q PROVE k + 1 \in Q
  <2>1. ASSUME k + 1 <= m
        PROVE  /\ d[k + 1] = [ok |-> TRUE, db |-> d[k + 1].db] /\ Consistent(d[k + 1].db)
               /\ Executed(d[k + 1].db, S, k + 1) /\ Reached(d[k + 1].db, start, S, m)
    <3>1. k < m /\ k < Len(S) /\ k <= m /\ k + 1 \in 1 .. Len(S)
      BY <1>1, <2>1
    <3>2. /\ d[k] = [ok |-> TRUE, db |-> d[k].db] /\ Consistent(d[k].db)
          /\ Executed(d[k].db, S, k) /\ Reached(d[k].db, start, S, m)
      BY <1>5, <3>1
    <3> HIDE DEF d
    <3>3. d[k].ok
      BY <3>2
    <3>4. /\ Accepted(d[k].db, S[k + 1])
          /\ Reached(Execute(d[k].db, S[k + 1]), start, S, m)
      BY <3>1, <3>2, ReachedAgain
    <3>5. /\ d[k + 1].db = Execute(d[k].db, S[k + 1])
          /\ d[k + 1] = [ok |-> TRUE, db |-> d[k + 1].db]
      <4>1. d[k + 1].ok <=> d[k].ok /\ Accepted(d[k].db, S[k + 1])
        BY <1>2, <3>1
      <4>2. d[k + 1].ok => d[k + 1] = [ok |-> TRUE, db |-> Execute(d[k].db, S[k + 1])]
        BY <1>2, <3>1
      <4>3. d[k + 1] = [ok |-> TRUE, db |-> Execute(d[k].db, S[k + 1])]
        BY <3>3, <3>4, <4>1, <4>2
      <4> QED
        BY <4>3
    <3>6. StatementOK(S[k + 1]) /\ S[k + 1].legal /\ DOMAIN d[k].db = Tables
          /\ \A j \in 1 .. Len(S) : S[j].table \in Tables
      BY <1>1, <3>1, <3>2, <3>4 DEF Accepted, Consistent, TablesOK, StatementOK
    <3>7. Consistent(d[k + 1].db)
      BY <3>2, <3>4, <3>5, <3>6, ExecuteConsistent
    <3>8. Executed(d[k + 1].db, S, k + 1)
      BY <1>1, <3>1, <3>2, <3>5, <3>6, ExecuteNext
    <3> QED
      BY <3>4, <3>5, <3>7, <3>8
  <2>2. P(k + 1)
    <3> HIDE DEF d
    <3> QED
      BY <2>1
  <2> HIDE DEF P
  <2> QED
    BY <2>2
<1>6. d[m] = o[m]
  <2>1. m \in Q
    <3> HIDE DEF Q
    <3> QED
      BY <1>1, <1>4, <1>5, Induction
  <2>2. P(m)
    <3> HIDE DEF P
    <3> QED
      BY <2>1
  <2>3. /\ d[m] = [ok |-> TRUE, db |-> d[m].db] /\ Consistent(d[m].db)
        /\ Executed(d[m].db, S, m) /\ Reached(d[m].db, start, S, m)
    <3> HIDE DEF d
    <3> QED
      BY <1>1, <2>2
  <2>4. d[m].db = o[m].db
    BY <2>3, ReachedEqual
  <2>5. Through(start, S, m)
    BY OutcomeThrough DEF Reached
  <2>6. o[m] = [ok |-> TRUE, db |-> o[m].db]
    BY <2>5 DEF Through
  <2> HIDE DEF d, o
  <2> QED
    BY <2>3, <2>4, <2>6
<1> DEFINE R == {k \in Nat : m + k <= Len(S) => d[m + k] = o[m + k]}
<1>7. 0 \in R
  <2> HIDE DEF d, o
  <2> QED
    BY <1>1, <1>6
<1>8. ASSUME NEW k \in Nat, k \in R PROVE k + 1 \in R
  <2>1. ASSUME m + (k + 1) <= Len(S) PROVE d[m + (k + 1)] = o[m + (k + 1)]
    <3> DEFINE n == m + k
    <3>1. n \in Nat /\ n < Len(S) /\ n <= Len(S) /\ m + (k + 1) = n + 1
      BY <1>1, <2>1
    <3> HIDE DEF d, o
    <3>2. d[n] = o[n]
      BY <1>8, <3>1
    <3> HIDE DEF n
    <3>3. d[n + 1].ok <=> o[n + 1].ok
      BY <1>2, <1>3, <3>1, <3>2
    <3>4. d[n + 1] = o[n + 1]
      <4>1. CASE d[n + 1].ok
        <5>1. d[n + 1] = [ok |-> TRUE, db |-> Execute(d[n].db, S[n + 1])]
          BY <1>2, <3>1, <4>1
        <5>2. o[n + 1] = [ok |-> TRUE, db |-> Execute(o[n].db, S[n + 1])]
          BY <1>3, <3>1, <3>3, <4>1
        <5> QED
          BY <3>2, <5>1, <5>2
      <4>2. CASE ~d[n + 1].ok
        <5>1. d[n + 1] = [ok |-> FALSE, db |-> d[n].db]
          BY <1>2, <3>1, <4>2
        <5>2. o[n + 1] = [ok |-> FALSE, db |-> o[n].db]
          BY <1>3, <3>1, <3>3, <4>2
        <5> QED
          BY <3>2, <5>1, <5>2
      <4> QED
        BY <4>1, <4>2
    <3> QED
      BY <3>1, <3>4
  <2> HIDE DEF d, o
  <2> QED
    BY <2>1
<1>9. Len(S) - m \in R
  <2>1. Len(S) - m \in Nat
    BY <1>1
  <2> HIDE DEF R
  <2> QED
    BY <1>7, <1>8, <2>1, Induction
<1>10. d[Len(S)] = o[Len(S)]
  <2>1. m + (Len(S) - m) = Len(S)
    BY <1>1
  <2> HIDE DEF d, o
  <2> QED
    BY <1>1, <1>9, <2>1
<1> QED
  BY <1>10 DEF Outcome

\* How far the starts with these documents have come, and that a refused one
\* has done nothing.
ConvergeInv ==
    /\ ~AllComplete(manifests) => db = base
    /\ (AllComplete(manifests) /\ DistinctCAs(manifests)) =>
          \E m \in 0 .. Len(Statements(manifests)) :
             /\ Reached(db, base, Statements(manifests), m)
             /\ server = "loading" => \E e \in 0 .. m : Remaining(e)

LEMMA DocumentsFit ==
    ASSUME NEW ms \in Seq(Document), AllComplete(ms)
    PROVE  Fitting(Statements(ms))
BY StatementTables, StatementsOK DEF Fitting

LEMMA InitConverges == Init => ConvergeInv
<1> SUFFICES ASSUME Init PROVE ConvergeInv
  OBVIOUS
<1>1. manifests \in Seq(Document) /\ server = "down" /\ db = base
  BY DEF Init
<1>2. AllComplete(manifests) => Reached(db, base, Statements(manifests), 0)
  BY <1>1, DocumentsFit, ReachedFirst
<1>3. 0 \in 0 .. Len(Statements(manifests))
  BY <1>1, StatementTables
<1> QED
  BY <1>1, <1>2, <1>3 DEF ConvergeInv

LEMMA NextConverges == Shape /\ LoadInv /\ ConvergeInv /\ [Next]_vars => ConvergeInv'
<1> SUFFICES ASSUME Shape, LoadInv, ConvergeInv, [Next]_vars PROVE ConvergeInv'
  OBVIOUS
<1>1. CASE Deploy
  BY <1>1 DEF Deploy, ConvergeInv, Remaining
<1>2. CASE Start
  <2> DEFINE S == Statements(manifests')
  <2>1. manifests' \in Seq(Document) /\ db' = db
    BY <1>2, ReadTyped DEF Start, Shape
  <2>2. ASSUME ~AllComplete(manifests') PROVE db' = base'
    BY <1>2, <2>2 DEF Start, ConvergeInv
  <2>3. ASSUME AllComplete(manifests'), DistinctCAs(manifests')
        PROVE  \E m \in 0 .. Len(S) : /\ Reached(db', base', S, m)
                                      /\ server' = "loading" => \E e \in 0 .. m : Remaining(e)'
    <3>1. Fitting(S) /\ Len(S) \in Nat
      BY <2>1, <2>3, DocumentsFit, StatementTables
    <3>2. PICK m \in 0 .. Len(S) : Reached(db', base', S, m)
      <4>1. CASE manifests' = manifests
        BY <1>2, <2>3, <4>1 DEF Start, ConvergeInv
      <4>2. CASE manifests' # manifests
        <5>1. base' = db'
          BY <1>2, <4>2 DEF Start
        <5>2. Reached(db', base', S, 0) /\ 0 \in 0 .. Len(S)
          BY <3>1, <5>1, ReachedFirst
        <5> QED
          BY <5>2
      <4> QED
        BY <4>1, <4>2
    <3>3. pending' = S
      BY <1>2, <2>3 DEF Start
    <3>4. SubSeq(S, 0 + 1, Len(S)) = S
      BY <3>1 DEF Fitting
    <3>5. Executed(db', S, 0)
      BY DEF Executed
    <3>6. Remaining(0)' /\ 0 \in 0 .. m
      BY <3>1, <3>3, <3>4, <3>5 DEF Remaining
    <3>7. \E e \in 0 .. m : Remaining(e)'
      BY <3>6
    <3> QED
      BY <3>2, <3>7
  <2> QED
    BY <2>2, <2>3 DEF ConvergeInv
<1>3. CASE Apply
  <2> DEFINE S == Statements(manifests)
  <2>1. AllComplete(manifests) /\ manifests' = manifests /\ base' = base /\ server = "loading"
    BY <1>3 DEF Apply, LoadInv
  <2>2. ASSUME DistinctCAs(manifests)
        PROVE  \E m \in 0 .. Len(S) : /\ Reached(db', base, S, m)
                                      /\ \E e \in 0 .. m : Remaining(e)'
    <3>1. PICK m \in 0 .. Len(S) : Reached(db, base, S, m) /\ \E e \in 0 .. m : Remaining(e)
      BY <2>1, <2>2 DEF ConvergeInv
    <3>2. PICK e \in 0 .. m : Remaining(e)
      BY <3>1
    <3>3. Fitting(S) /\ WrittenOnce(S) /\ Len(S) \in Nat
      BY <2>1, <2>2, DocumentsFit, DistinctWrittenOnce, StatementTables DEF Shape
    <3>4. e \in 0 .. Len(S) /\ m \in Nat /\ e \in Nat
      BY <3>3
    <3>5. /\ e \in Nat /\ e < Len(S) /\ e + 1 \in 1 .. Len(S)
          /\ Accepted(db, S[e + 1]) /\ db' = Execute(db, S[e + 1])
          /\ pending' = SubSeq(S, (e + 1) + 1, Len(S))
          /\ Executed(db', S, e + 1)
      BY <1>3, <3>2, <3>4, ApplyNext
    <3>6. Remaining(e + 1)'
      BY <2>1, <3>5 DEF Remaining
    <3>7. Consistent(db) /\ Consistent(base) /\ Executed(db, S, e)
      BY <3>2 DEF Shape, Remaining
    <3> HIDE DEF S
    <3>8. CASE e < m
      <4>1. Reached(db', base, S, m)
        BY <3>1, <3>3, <3>4, <3>5, <3>7, <3>8, ReachedAgain
      <4>2. e + 1 \in 0 .. m
        BY <3>4, <3>8
      <4> QED
        BY <3>6, <4>1, <4>2
    <3>9. CASE e = m
      <4>1. db = Outcomes(base, S)[m].db
        BY <3>1, <3>3, <3>7, <3>9, ReachedEqual
      <4>2. Outcomes(base, S)[m].ok
        BY <3>1 DEF Reached
      <4>3. Reached(db', base, S, m + 1)
        BY <3>3, <3>4, <3>5, <3>9, <4>1, <4>2, ReachedFurther
      <4>4. m + 1 \in 0 .. Len(S) /\ e + 1 \in 0 .. (m + 1)
        BY <3>4, <3>5, <3>9
      <4> QED
        BY <3>6, <4>3, <4>4
    <3> QED
      BY <3>4, <3>8, <3>9
  <2> QED
    BY <2>1, <2>2 DEF ConvergeInv
<1>4. CASE ApplyError
  BY <1>4 DEF ApplyError, ConvergeInv
<1>5. CASE Listen
  BY <1>5 DEF Listen, ConvergeInv
<1>6. CASE Stop
  BY <1>6 DEF Stop, ConvergeInv
<1>7. CASE UNCHANGED vars
  BY <1>7 DEF vars, ConvergeInv, Remaining
<1> QED
  BY <1>1, <1>2, <1>3, <1>4, <1>5, <1>6, <1>7 DEF Next

\* However often a load of the same documents is cut short and begun again, it
\* ends as the first one would have, and documents that are refused leave nothing:
\* LoadAndApply, whose upserts may be repeated.
THEOREM RestartsConverge == Spec => []RestartConverges
<1>1. Shape /\ LoadInv /\ ConvergeInv => RestartConverges
  <2> SUFFICES ASSUME Shape, LoadInv, ConvergeInv PROVE RestartConverges
    OBVIOUS
  <2>1. IncompleteAppliesNothing
    BY DEF IncompleteAppliesNothing, ConvergeInv, AllComplete
  <2>2. ASSUME AllComplete(manifests), DistinctCAs(manifests)
        PROVE  Outcome(db, Statements(manifests)) = Outcome(base, Statements(manifests))
    <3>1. PICK m \in 0 .. Len(Statements(manifests)) : Reached(db, base, Statements(manifests), m)
      BY <2>2 DEF ConvergeInv
    <3>2. Fitting(Statements(manifests)) /\ WrittenOnce(Statements(manifests))
      BY <2>2, DocumentsFit, DistinctWrittenOnce DEF Shape
    <3>3. Consistent(db) /\ Consistent(base)
      BY DEF Shape
    <3> QED
      BY <3>1, <3>2, <3>3, ReachedConverges
  <2> QED
    BY <2>1, <2>2 DEF RestartConverges
<1>2. Init => ConvergeInv
  BY InitConverges
<1>3. Shape /\ LoadInv /\ ConvergeInv /\ [Next]_vars => ConvergeInv'
  BY NextConverges
<1> QED
  BY <1>1, <1>2, <1>3, LoadsAlways, PTL DEF Spec
=============================================================================
