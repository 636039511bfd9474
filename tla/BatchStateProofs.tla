--------------------------- MODULE BatchStateProofs ---------------------------
(* Proofs about BatchState, for any holders, keys, amounts and versions, and *)
(* batches of any size below the number of versions.                        *)
EXTENDS BatchState, FiniteSetTheorems, WellFoundedInduction, TLAPS

-----------------------------------------------------------------------------
(* Sums over a finite set of holders.                                      *)

LEMMA NatSet ==
    ASSUME NEW S, 0 \in S, \A n \in Nat : n \in S => n + 1 \in S
    PROVE  Nat \subseteq S
<1> SUFFICES ASSUME Nat \ S # {} PROVE FALSE
    OBVIOUS
<1> DEFINE R == OpToRel(<, Nat)
<1>1. PICK n \in Nat \ S : \A m \in Nat \ S : ~(<<m, n>> \in R)
  <2> HIDE DEF R
  <2>1. IsWellFoundedOn(R, Nat)
    BY NatLessThanWellFounded DEF R
  <2> QED BY <2>1, WFMin
<1>2. \A m \in Nat : m < n => m \in S
  BY <1>1 DEF OpToRel
<1>3. n # 0 /\ n - 1 \in Nat /\ n - 1 < n /\ (n - 1) + 1 = n
  OBVIOUS
<1> QED BY <1>2, <1>3

Pick(s) == CHOOSE x \in s : TRUE

LEMMA FamilyInduction ==
    ASSUME NEW U, IsFiniteSet(U), NEW F, {} \in F,
           \A T \in SUBSET U : T # {} /\ T \ {Pick(T)} \in F => T \in F
    PROVE  SUBSET U \subseteq F
<1> SUFFICES ASSUME NEW V \in SUBSET U, V \notin F PROVE FALSE
    OBVIOUS
<1> DEFINE C == {n \in Nat : \A T \in SUBSET U : Cardinality(T) = n => T \in F}
<1>1. 0 \in C
  BY FS_EmptySet, FS_Subset
<1>2. ASSUME NEW n \in Nat, n \in C PROVE n + 1 \in C
  <2> SUFFICES ASSUME NEW T \in SUBSET U, Cardinality(T) = n + 1 PROVE T \in F
      OBVIOUS
  <2>1. IsFiniteSet(T) /\ T # {}
    BY FS_EmptySet, FS_Subset
  <2>2. Pick(T) \in T
    BY <2>1 DEF Pick
  <2>3. Cardinality(T \ {Pick(T)}) = Cardinality(T) - 1
    BY <2>1, <2>2, FS_RemoveElement
  <2>4. Cardinality(T \ {Pick(T)}) = n
    BY <2>3
  <2> QED BY <1>2, <2>1, <2>4
<1>3. Nat \subseteq C
  <2> HIDE DEF C
  <2> QED BY <1>1, <1>2, NatSet
<1>4. Cardinality(V) \in Nat
  BY FS_Subset, FS_CardinalityType
<1> QED BY <1>3, <1>4

Step(f, g, s) == IF s = {} THEN 0 ELSE f[Pick(s)] + g[s \ {Pick(s)}]
Iter(f, U) == CHOOSE g : g = [s \in SUBSET U |-> Step(f, g, s)]

LEMMA SumIter == ASSUME NEW f PROVE SumFunction(f) = Iter(f, DOMAIN f)[DOMAIN f]
BY DEF SumFunction, SumFunctionOnSet, FoldFunctionOnSet, MapThenFoldSet, Pick, Iter, Step

LEMMA IterDefined ==
    ASSUME NEW U, IsFiniteSet(U), NEW f \in [U -> Nat]
    PROVE  /\ Iter(f, U) \in [SUBSET U -> Nat]
           /\ \A s \in SUBSET U : Iter(f, U)[s] = Step(f, Iter(f, U), s)
<1> DEFINE Small(n) == {s \in SUBSET U : Cardinality(s) <= n}
           Solves(g, n) == g \in [Small(n) -> Nat] /\ \A s \in Small(n) : g[s] = Step(f, g, s)
           C == {n \in Nat : \E g : Solves(g, n)}
<1>0. ASSUME NEW s \in SUBSET U
      PROVE  /\ IsFiniteSet(s) /\ Cardinality(s) \in Nat /\ (Cardinality(s) = 0 <=> s = {})
             /\ s # {} => /\ Pick(s) \in s /\ s \ {Pick(s)} \in SUBSET U
                          /\ Cardinality(s \ {Pick(s)}) = Cardinality(s) - 1
  <2>1. IsFiniteSet(s)
    BY FS_Subset
  <2>2. s # {} => Pick(s) \in s
    BY DEF Pick
  <2> QED BY <2>1, <2>2, FS_CardinalityType, FS_EmptySet, FS_RemoveElement
<1>1. 0 \in C
  <2> DEFINE g == [s \in Small(0) |-> 0]
  <2>1. ASSUME NEW s \in Small(0) PROVE s = {}
    <3>1. s \in SUBSET U /\ Cardinality(s) <= 0
      OBVIOUS
    <3>2. Cardinality(s) \in Nat /\ (Cardinality(s) = 0 <=> s = {})
      BY <1>0, <3>1
    <3> QED BY <3>1, <3>2
  <2>2. Solves(g, 0)
    BY <2>1 DEF Step
  <2> QED BY <2>2
<1>2. ASSUME NEW n \in Nat, n \in C PROVE n + 1 \in C
  <2>1. PICK g : Solves(g, n)
    BY <1>2
  <2> DEFINE h == [s \in Small(n + 1) |-> Step(f, g, s)]
  <2>2. ASSUME NEW s \in Small(n + 1), s # {}
        PROVE  s \ {Pick(s)} \in Small(n) /\ f[Pick(s)] \in Nat
    BY <1>0, <2>2
  <2>3. h \in [Small(n + 1) -> Nat]
    BY <2>1, <2>2 DEF Step
  <2>4. ASSUME NEW s \in Small(n) PROVE s \in Small(n + 1) /\ h[s] = g[s]
    <3>1. s \in SUBSET U /\ Cardinality(s) <= n
      OBVIOUS
    <3>2. Cardinality(s) \in Nat
      BY <1>0, <3>1
    <3>3. Cardinality(s) <= n + 1
      BY <3>1, <3>2
    <3> QED BY <2>1, <3>1, <3>3
  <2>5. ASSUME NEW s \in Small(n + 1) PROVE h[s] = Step(f, h, s)
    <3>1. CASE s = {}
      BY <3>1 DEF Step
    <3>2. CASE s # {}
      BY <2>2, <2>4, <3>2 DEF Step
    <3> QED BY <3>1, <3>2
  <2>6. Solves(h, n + 1)
    BY <2>3, <2>5
  <2> HIDE DEF Solves
  <2> QED BY <2>6
<1>3. Cardinality(U) \in C
  <2> HIDE DEF C
  <2> QED BY <1>0, <1>1, <1>2, NatSet
<1>4. PICK g : Solves(g, Cardinality(U))
  BY <1>3
<1>5. Small(Cardinality(U)) = SUBSET U
  BY FS_Subset
<1>6. g = [s \in SUBSET U |-> Step(f, g, s)]
  BY <1>4, <1>5
<1> HIDE DEF Small
<1>7. Iter(f, U) = [s \in SUBSET U |-> Step(f, Iter(f, U), s)]
  BY <1>6 DEF Iter
<1>8. \A s \in SUBSET U : Iter(f, U)[s] = Step(f, Iter(f, U), s)
  BY <1>7
<1> DEFINE F == {s \in SUBSET U : Iter(f, U)[s] \in Nat}
<1>9. {} \in F
  BY <1>8 DEF Step
<1>10. ASSUME NEW T \in SUBSET U, T # {}, T \ {Pick(T)} \in F PROVE T \in F
  <2>1. f[Pick(T)] \in Nat
    BY <1>0, <1>10
  <2> QED BY <1>8, <1>10, <2>1 DEF Step
<1>11. SUBSET U \subseteq F
  <2> HIDE DEF F
  <2> QED BY <1>9, <1>10, FamilyInduction
<1>12. Iter(f, U) \in [SUBSET U -> Nat]
  BY <1>7, <1>11
<1> QED BY <1>8, <1>12

LEMMA IterBound ==
    ASSUME NEW U, IsFiniteSet(U), NEW f \in [U -> Nat], NEW u \in U
    PROVE  f[u] <= Iter(f, U)[U]
<1> DEFINE I == Iter(f, U)
           F == {s \in SUBSET U : u \in s => f[u] <= I[s]}
<1> HIDE DEF I
<1>0. I \in [SUBSET U -> Nat] /\ \A s \in SUBSET U : I[s] = Step(f, I, s)
  BY IterDefined DEF I
<1>1. {} \in F
  OBVIOUS
<1>2. ASSUME NEW T \in SUBSET U, T # {}, T \ {Pick(T)} \in F PROVE T \in F
  <2>1. Pick(T) \in T
    BY <1>2 DEF Pick
  <2>2. I[T] = f[Pick(T)] + I[T \ {Pick(T)}] /\ I[T \ {Pick(T)}] \in Nat
    BY <1>0, <1>2 DEF Step
  <2> QED BY <1>2, <2>1, <2>2
<1>3. SUBSET U \subseteq F
  <2> HIDE DEF F
  <2> QED BY <1>1, <1>2, FamilyInduction
<1> QED BY <1>3 DEF I

LEMMA IterChange ==
    ASSUME NEW U, IsFiniteSet(U), NEW f \in [U -> Nat], NEW g \in [U -> Nat], NEW u \in U,
           \A v \in U : v # u => g[v] = f[v]
    PROVE  Iter(g, U)[U] = Iter(f, U)[U] - f[u] + g[u]
<1> DEFINE I == Iter(f, U)
           J == Iter(g, U)
           F == {s \in SUBSET U : J[s] = IF u \in s THEN I[s] - f[u] + g[u] ELSE I[s]}
<1> HIDE DEF I, J
<1>0. /\ I \in [SUBSET U -> Nat] /\ \A s \in SUBSET U : I[s] = Step(f, I, s)
      /\ J \in [SUBSET U -> Nat] /\ \A s \in SUBSET U : J[s] = Step(g, J, s)
  BY IterDefined DEF I, J
<1>1. {} \in F
  BY <1>0 DEF Step
<1>2. ASSUME NEW T \in SUBSET U, T # {}, T \ {Pick(T)} \in F PROVE T \in F
  <2>1. Pick(T) \in T
    BY <1>2 DEF Pick
  <2>2. /\ I[T] = f[Pick(T)] + I[T \ {Pick(T)}] /\ I[T \ {Pick(T)}] \in Nat
        /\ J[T] = g[Pick(T)] + J[T \ {Pick(T)}] /\ J[T \ {Pick(T)}] \in Nat
    BY <1>0, <1>2 DEF Step
  <2>3. f[u] \in Nat /\ g[u] \in Nat /\ f[Pick(T)] \in Nat
    BY <2>1
  <2> QED BY <1>2, <2>1, <2>2, <2>3
<1>3. SUBSET U \subseteq F
  <2> HIDE DEF F
  <2> QED BY <1>1, <1>2, FamilyInduction
<1> QED BY <1>3 DEF I, J

LEMMA SumType ==
    ASSUME NEW U, IsFiniteSet(U), NEW f \in [U -> Nat]
    PROVE  SumFunction(f) \in Nat
<1>1. SumFunction(f) = Iter(f, U)[U] /\ U \in SUBSET U
  BY SumIter
<1>2. Iter(f, U) \in [SUBSET U -> Nat]
  BY IterDefined
<1> QED BY <1>1, <1>2

LEMMA SumBound ==
    ASSUME NEW U, IsFiniteSet(U), NEW f \in [U -> Nat], NEW u \in U
    PROVE  f[u] <= SumFunction(f)
BY SumIter, IterBound

LEMMA SumChange ==
    ASSUME NEW U, IsFiniteSet(U), NEW f \in [U -> Nat], NEW g \in [U -> Nat], NEW u \in U,
           \A v \in U : v # u => g[v] = f[v]
    PROVE  SumFunction(g) = SumFunction(f) - f[u] + g[u]
BY SumIter, IterChange

-----------------------------------------------------------------------------
(* Tokens that are well encrypted: what loadBatchState accepts, but for the  *)
(* bounds on amounts and versions.                                         *)
Version == 0..(VersionLimit - 1)
Plain ==
    {Loaded(k, s, i, p, v) : k \in HolderKeys \cup {Absent}, s \in Nat, i \in Nat,
                             p \in Nat, v \in Version}

LEMMA PlainFields ==
    ASSUME NEW t \in Plain
    PROVE  /\ t.key \in HolderKeys \cup {Absent} /\ t.version \in Version /\ t.public \in Nat
           /\ Amount(t.spending) \in Nat /\ Amount(t.inbox) \in Nat
           /\ Held(t) = Amount(t.spending) + Amount(t.inbox)
           /\ t = Loaded(t.key, Amount(t.spending), Amount(t.inbox), t.public, t.version)
           /\ t.key = Absent => Unused(t) /\ t.version = 0
           /\ t.key # Absent => ~Unused(t)
<1>1. PICK k \in HolderKeys \cup {Absent}, s \in Nat, i \in Nat, p \in Nat, v \in Version :
           t = Loaded(k, s, i, p, v)
  BY DEF Plain
<1>2. \A a \in Nat, c \in HolderKeys \cup {IssuerKey, AuditorKey} :
         Encrypt(a, c) # Absent /\ Encrypt(a, c).amount = a /\ Encrypt(a, c).key = c
  BY BatchAssumption DEF Encrypt, Ciphertext, Keys
<1>3. VersionLimit \in Nat /\ 0 \in Version
  BY BatchAssumption DEF Version
<1>4. CASE k = Absent
  BY <1>1, <1>3, <1>4 DEF Loaded, Amount, Held, Unused
<1>5. CASE k # Absent
  <2>1. /\ t.spending = Encrypt(s, k) /\ t.inbox = Encrypt(i, k) /\ t.issuer = Encrypt(s + i, IssuerKey)
        /\ t.key = k /\ t.public = p /\ t.version = v
    BY <1>1, <1>5 DEF Loaded
  <2>2. Amount(t.spending) = s /\ Amount(t.inbox) = i /\ Held(t) = s + i /\ t.spending # Absent
    BY <1>2, <1>5, <2>1 DEF Amount, Held
  <2> QED BY <1>1, <1>5, <2>1, <2>2 DEF Unused
<1> QED BY <1>4, <1>5

LEMMA NextVersionIs ==
    ASSUME NEW v \in Version
    PROVE  /\ NextVersion(v) \in Version
           /\ NextVersion(v) = v + 1 \/ (NextVersion(v) = 0 /\ v + 1 = VersionLimit)
BY BatchAssumption DEF NextVersion, Version

LEMMA Ciphertexts ==
    ASSUME NEW a \in Int, NEW b \in Int, NEW k \in Keys
    PROVE  /\ Encrypt(a, k) # Absent
           /\ AddCiphertext(Encrypt(a, k), Encrypt(b, k)) = Encrypt(a + b, k)
           /\ SubtractCiphertext(Encrypt(a, k), Encrypt(b, k)) = Encrypt(a - b, k)
<1>1. Encrypt(a, k) # Absent
  BY BatchAssumption DEF Encrypt, Ciphertext
<1> QED BY <1>1 DEF AddCiphertext, SubtractCiphertext, CommonKey, Encrypt

(* Records by their fields: what the EXCEPT of each operation writes.       *)
Fields(S) == [key : S, spending : S, inbox : S, issuer : S, auditor : S, version : S, public : S]
Values(t) == {t.key, t.spending, t.inbox, t.issuer, t.auditor, t.version, t.public}
IsToken(t) == t \in Fields(Values(t))

LEMMA HasFields == ASSUME NEW t, IsToken(t), NEW S PROVE t \in Fields(Values(t) \cup S)
<1>1. ASSUME NEW T, NEW U, T \subseteq U PROVE Fields(T) \subseteq Fields(U)
  BY <1>1 DEF Fields
<1> QED BY <1>1, Zenon DEF IsToken

LEMMA SameFields ==
    ASSUME NEW S, NEW x \in Fields(S), NEW y \in Fields(S),
           x.key = y.key, x.spending = y.spending, x.inbox = y.inbox, x.issuer = y.issuer,
           x.auditor = y.auditor, x.version = y.version, x.public = y.public
    PROVE  x = y
BY DEF Fields

WriteSpend(t, s, u, a, v) ==
    [t EXCEPT !.spending = s, !.issuer = u, !.auditor = a, !.version = v]

LEMMA WriteSpendIs ==
    ASSUME NEW t, IsToken(t), NEW s, NEW u, NEW a, NEW v
    PROVE  WriteSpend(t, s, u, a, v)
             = [key |-> t.key, spending |-> s, inbox |-> t.inbox, issuer |-> u, auditor |-> a,
                version |-> v, public |-> t.public]
<1> DEFINE S == Values(t) \cup {s, u, a, v}
           x == [t EXCEPT !.spending = s, !.issuer = u, !.auditor = a, !.version = v]
           y == [key |-> t.key, spending |-> s, inbox |-> t.inbox, issuer |-> u, auditor |-> a,
                  version |-> v, public |-> t.public]
<1>1a. s \in S /\ u \in S /\ a \in S /\ v \in S
  OBVIOUS
<1>1. t \in Fields(S)
  BY Zenon, HasFields
<1>2. /\ x \in Fields(S) /\ x.key = t.key /\ x.spending = s /\ x.inbox = t.inbox
      /\ x.issuer = u /\ x.auditor = a /\ x.version = v /\ x.public = t.public
  <2> HIDE DEF S
  <2> QED BY <1>1, <1>1a DEF Fields
<1>3. /\ y \in Fields(S) /\ y.key = t.key /\ y.spending = s /\ y.inbox = t.inbox
      /\ y.issuer = u /\ y.auditor = a /\ y.version = v /\ y.public = t.public
  <2> HIDE DEF S
  <2> QED BY <1>1, <1>1a DEF Fields
<1> HIDE DEF x, y
<1>4. x = y
  BY <1>2, <1>3, SameFields
<1> QED BY <1>4, Zenon DEF WriteSpend, x, y

WriteCredit(t, i, u, a) ==
    [t EXCEPT !.inbox = i, !.issuer = u, !.auditor = a]

LEMMA WriteCreditIs ==
    ASSUME NEW t, IsToken(t), NEW i, NEW u, NEW a
    PROVE  WriteCredit(t, i, u, a)
             = [key |-> t.key, spending |-> t.spending, inbox |-> i, issuer |-> u, auditor |-> a,
                version |-> t.version, public |-> t.public]
<1> DEFINE S == Values(t) \cup {i, u, a}
           x == [t EXCEPT !.inbox = i, !.issuer = u, !.auditor = a]
           y == [key |-> t.key, spending |-> t.spending, inbox |-> i, issuer |-> u, auditor |-> a,
                  version |-> t.version, public |-> t.public]
<1>1a. i \in S /\ u \in S /\ a \in S
  OBVIOUS
<1>1. t \in Fields(S)
  BY Zenon, HasFields
<1>2. /\ x \in Fields(S) /\ x.key = t.key /\ x.spending = t.spending /\ x.inbox = i
      /\ x.issuer = u /\ x.auditor = a /\ x.version = t.version /\ x.public = t.public
  <2> HIDE DEF S
  <2> QED BY <1>1, <1>1a DEF Fields
<1>3. /\ y \in Fields(S) /\ y.key = t.key /\ y.spending = t.spending /\ y.inbox = i
      /\ y.issuer = u /\ y.auditor = a /\ y.version = t.version /\ y.public = t.public
  <2> HIDE DEF S
  <2> QED BY <1>1, <1>1a DEF Fields
<1> HIDE DEF x, y
<1>4. x = y
  BY <1>2, <1>3, SameFields
<1> QED BY <1>4, Zenon DEF WriteCredit, x, y

WriteMerge(t, s, i, v) ==
    [t EXCEPT !.spending = s, !.inbox = i, !.version = v]

LEMMA WriteMergeIs ==
    ASSUME NEW t, IsToken(t), NEW s, NEW i, NEW v
    PROVE  WriteMerge(t, s, i, v)
             = [key |-> t.key, spending |-> s, inbox |-> i, issuer |-> t.issuer, auditor |-> t.auditor,
                version |-> v, public |-> t.public]
<1> DEFINE S == Values(t) \cup {s, i, v}
           x == [t EXCEPT !.spending = s, !.inbox = i, !.version = v]
           y == [key |-> t.key, spending |-> s, inbox |-> i, issuer |-> t.issuer, auditor |-> t.auditor,
                  version |-> v, public |-> t.public]
<1>1a. s \in S /\ i \in S /\ v \in S
  OBVIOUS
<1>1. t \in Fields(S)
  BY Zenon, HasFields
<1>2. /\ x \in Fields(S) /\ x.key = t.key /\ x.spending = s /\ x.inbox = i
      /\ x.issuer = t.issuer /\ x.auditor = t.auditor /\ x.version = v /\ x.public = t.public
  <2> HIDE DEF S
  <2> QED BY <1>1, <1>1a DEF Fields
<1>3. /\ y \in Fields(S) /\ y.key = t.key /\ y.spending = s /\ y.inbox = i
      /\ y.issuer = t.issuer /\ y.auditor = t.auditor /\ y.version = v /\ y.public = t.public
  <2> HIDE DEF S
  <2> QED BY <1>1, <1>1a DEF Fields
<1> HIDE DEF x, y
<1>4. x = y
  BY <1>2, <1>3, SameFields
<1> QED BY <1>4, Zenon DEF WriteMerge, x, y

WriteKey(t, s) ==
    [t EXCEPT !.key = s]

LEMMA WriteKeyIs ==
    ASSUME NEW t, IsToken(t), NEW s
    PROVE  WriteKey(t, s)
             = [key |-> s, spending |-> t.spending, inbox |-> t.inbox, issuer |-> t.issuer, auditor |-> t.auditor,
                version |-> t.version, public |-> t.public]
<1> DEFINE S == Values(t) \cup {s}
           x == [t EXCEPT !.key = s]
           y == [key |-> s, spending |-> t.spending, inbox |-> t.inbox, issuer |-> t.issuer, auditor |-> t.auditor,
                  version |-> t.version, public |-> t.public]
<1>1a. s \in S
  OBVIOUS
<1>1. t \in Fields(S)
  BY Zenon, HasFields
<1>2. /\ x \in Fields(S) /\ x.key = s /\ x.spending = t.spending /\ x.inbox = t.inbox
      /\ x.issuer = t.issuer /\ x.auditor = t.auditor /\ x.version = t.version /\ x.public = t.public
  <2> HIDE DEF S
  <2> QED BY <1>1, <1>1a DEF Fields
<1>3. /\ y \in Fields(S) /\ y.key = s /\ y.spending = t.spending /\ y.inbox = t.inbox
      /\ y.issuer = t.issuer /\ y.auditor = t.auditor /\ y.version = t.version /\ y.public = t.public
  <2> HIDE DEF S
  <2> QED BY <1>1, <1>1a DEF Fields
<1> HIDE DEF x, y
<1>4. x = y
  BY <1>2, <1>3, SameFields
<1> QED BY <1>4, Zenon DEF WriteKey, x, y

WritePublic(t, s) ==
    [t EXCEPT !.public = s]

LEMMA WritePublicIs ==
    ASSUME NEW t, IsToken(t), NEW s
    PROVE  WritePublic(t, s)
             = [key |-> t.key, spending |-> t.spending, inbox |-> t.inbox, issuer |-> t.issuer, auditor |-> t.auditor,
                version |-> t.version, public |-> s]
<1> DEFINE S == Values(t) \cup {s}
           x == [t EXCEPT !.public = s]
           y == [key |-> t.key, spending |-> t.spending, inbox |-> t.inbox, issuer |-> t.issuer, auditor |-> t.auditor,
                  version |-> t.version, public |-> s]
<1>1a. s \in S
  OBVIOUS
<1>1. t \in Fields(S)
  BY Zenon, HasFields
<1>2. /\ x \in Fields(S) /\ x.key = t.key /\ x.spending = t.spending /\ x.inbox = t.inbox
      /\ x.issuer = t.issuer /\ x.auditor = t.auditor /\ x.version = t.version /\ x.public = s
  <2> HIDE DEF S
  <2> QED BY <1>1, <1>1a DEF Fields
<1>3. /\ y \in Fields(S) /\ y.key = t.key /\ y.spending = t.spending /\ y.inbox = t.inbox
      /\ y.issuer = t.issuer /\ y.auditor = t.auditor /\ y.version = t.version /\ y.public = s
  <2> HIDE DEF S
  <2> QED BY <1>1, <1>1a DEF Fields
<1> HIDE DEF x, y
<1>4. x = y
  BY <1>2, <1>3, SameFields
<1> QED BY <1>4, Zenon DEF WritePublic, x, y

WriteAll(t, s, i, u, a, v) ==
    [t EXCEPT !.spending = s, !.inbox = i, !.issuer = u, !.auditor = a, !.version = v]

LEMMA WriteAllIs ==
    ASSUME NEW t, IsToken(t), NEW s, NEW i, NEW u, NEW a, NEW v
    PROVE  WriteAll(t, s, i, u, a, v)
             = [key |-> t.key, spending |-> s, inbox |-> i, issuer |-> u, auditor |-> a,
                version |-> v, public |-> t.public]
<1> DEFINE S == Values(t) \cup {s, i, u, a, v}
           x == [t EXCEPT !.spending = s, !.inbox = i, !.issuer = u, !.auditor = a, !.version = v]
           y == [key |-> t.key, spending |-> s, inbox |-> i, issuer |-> u, auditor |-> a,
                  version |-> v, public |-> t.public]
<1>1a. s \in S /\ i \in S /\ u \in S /\ a \in S /\ v \in S
  OBVIOUS
<1>1. t \in Fields(S)
  BY Zenon, HasFields
<1>2. /\ x \in Fields(S) /\ x.key = t.key /\ x.spending = s /\ x.inbox = i
      /\ x.issuer = u /\ x.auditor = a /\ x.version = v /\ x.public = t.public
  <2> HIDE DEF S
  <2> QED BY <1>1, <1>1a DEF Fields
<1>3. /\ y \in Fields(S) /\ y.key = t.key /\ y.spending = s /\ y.inbox = i
      /\ y.issuer = u /\ y.auditor = a /\ y.version = v /\ y.public = t.public
  <2> HIDE DEF S
  <2> QED BY <1>1, <1>1a DEF Fields
<1> HIDE DEF x, y
<1>4. x = y
  BY <1>2, <1>3, SameFields
<1> QED BY <1>4, Zenon DEF WriteAll, x, y

LEMMA LoadedIsToken ==
    ASSUME NEW k, NEW s, NEW i, NEW p, NEW v
    PROVE  IsToken(Loaded(k, s, i, p, v))
BY DEF Loaded, Fields, IsToken, Values

LEMMA LoadedFields ==
    ASSUME NEW k, NEW s, NEW i, NEW p, NEW v, k # Absent
    PROVE  LET t == Loaded(k, s, i, p, v)
           IN  /\ t.key = k /\ t.spending = Encrypt(s, k) /\ t.inbox = Encrypt(i, k)
               /\ t.issuer = Encrypt(s + i, IssuerKey) /\ t.version = v /\ t.public = p
               /\ t.auditor = IF policy.audited THEN Encrypt(s + i, AuditorKey) ELSE Absent
BY DEF Loaded

(* What each operation makes of a well encrypted token: the amounts move,   *)
(* the token stays well encrypted.                                         *)
LEMMA PlainSpend ==
    ASSUME NEW k \in HolderKeys, NEW s \in Nat, NEW i \in Nat, NEW p, NEW v,
           NEW b \in 0..s
    PROVE  ApplySpend(Loaded(k, s, i, p, v), Encrypt(b, k), Mirrors(b))
             = Loaded(k, s - b, i, p, NextVersion(v))
<1> DEFINE t == Loaded(k, s, i, p, v)
           c == SubtractCiphertext(t.spending, Encrypt(b, k))
           u == SubtractCiphertext(t.issuer, Mirrors(b).issuer)
           a == IF policy.audited THEN SubtractCiphertext(t.auditor, Mirrors(b).auditor) ELSE t.auditor
           w == NextVersion(t.version)
<1>0. k # Absent
  BY BatchAssumption DEF Keys
<1>1. \A d \in {k, IssuerKey, AuditorKey}, n \in Nat :
         SubtractCiphertext(Encrypt(n, d), Encrypt(b, d)) = Encrypt(n - b, d)
  BY Ciphertexts DEF Keys
<1>2. (s + i) - b = (s - b) + i
  OBVIOUS
<1>3. /\ SubtractCiphertext(Encrypt(s, k), Encrypt(b, k)) = Encrypt(s - b, k)
      /\ SubtractCiphertext(Encrypt(s + i, IssuerKey), Encrypt(b, IssuerKey))
            = Encrypt((s - b) + i, IssuerKey)
      /\ SubtractCiphertext(Encrypt(s + i, AuditorKey), Encrypt(b, AuditorKey))
            = Encrypt((s - b) + i, AuditorKey)
  BY <1>1, <1>2
<1>4. /\ c = Encrypt(s - b, k) /\ u = Encrypt((s - b) + i, IssuerKey) /\ w = NextVersion(v)
      /\ a = IF policy.audited THEN Encrypt((s - b) + i, AuditorKey) ELSE Absent
      /\ t.key = k /\ t.inbox = Encrypt(i, k) /\ t.public = p
  BY <1>0, <1>3, LoadedFields DEF Mirrors
<1>5. ApplySpend(t, Encrypt(b, k), Mirrors(b)) = WriteSpend(t, c, u, a, w)
  BY Zenon DEF ApplySpend, WriteSpend
<1>6. IsToken(t)
  BY LoadedIsToken
<1> HIDE DEF t, c, u, a, w
<1>7. ApplySpend(t, Encrypt(b, k), Mirrors(b))
        = [key |-> t.key, spending |-> c, inbox |-> t.inbox, issuer |-> u, auditor |-> a,
           version |-> w, public |-> t.public]
  BY <1>5, <1>6, WriteSpendIs
<1> QED BY <1>0, <1>4, <1>7 DEF t, Loaded

LEMMA PlainCredit ==
    ASSUME NEW k \in HolderKeys, NEW s \in Nat, NEW i \in Nat, NEW p, NEW v, NEW b \in Nat
    PROVE  Credit(Loaded(k, s, i, p, v), Encrypt(b, k), Mirrors(b)) = Loaded(k, s, i + b, p, v)
<1> DEFINE t == Loaded(k, s, i, p, v)
           c == AddCiphertext(t.inbox, Encrypt(b, k))
           u == AddCiphertext(t.issuer, Mirrors(b).issuer)
           a == IF policy.audited THEN AddCiphertext(t.auditor, Mirrors(b).auditor) ELSE t.auditor
<1>0. k # Absent
  BY BatchAssumption DEF Keys
<1>1. \A d \in {k, IssuerKey, AuditorKey}, n \in Nat :
         AddCiphertext(Encrypt(n, d), Encrypt(b, d)) = Encrypt(n + b, d)
  BY Ciphertexts DEF Keys
<1>2. (s + i) + b = s + (i + b)
  OBVIOUS
<1>3. /\ AddCiphertext(Encrypt(i, k), Encrypt(b, k)) = Encrypt(i + b, k)
      /\ AddCiphertext(Encrypt(s + i, IssuerKey), Encrypt(b, IssuerKey))
            = Encrypt(s + (i + b), IssuerKey)
      /\ AddCiphertext(Encrypt(s + i, AuditorKey), Encrypt(b, AuditorKey))
            = Encrypt(s + (i + b), AuditorKey)
  BY <1>1, <1>2
<1>4. /\ c = Encrypt(i + b, k) /\ u = Encrypt(s + (i + b), IssuerKey)
      /\ a = IF policy.audited THEN Encrypt(s + (i + b), AuditorKey) ELSE Absent
      /\ t.key = k /\ t.spending = Encrypt(s, k) /\ t.version = v /\ t.public = p
  BY <1>0, <1>3, LoadedFields DEF Mirrors
<1>5. Credit(t, Encrypt(b, k), Mirrors(b)) = WriteCredit(t, c, u, a)
  BY Zenon DEF Credit, WriteCredit
<1>6. IsToken(t)
  BY LoadedIsToken
<1> HIDE DEF t, c, u, a
<1>7. Credit(t, Encrypt(b, k), Mirrors(b))
        = [key |-> t.key, spending |-> t.spending, inbox |-> c, issuer |-> u, auditor |-> a,
           version |-> t.version, public |-> t.public]
  BY <1>5, <1>6, WriteCreditIs
<1> QED BY <1>0, <1>4, <1>7 DEF t, Loaded

LEMMA PlainInboxCredit ==
    ASSUME NEW k \in HolderKeys, NEW s \in Nat, NEW i \in Nat, NEW p, NEW v, NEW b \in Nat
    PROVE  ApplyInboxCredit(Loaded(k, s, i, p, v), Encrypt(b, k), Mirrors(b))
             = Loaded(k, s, i + b, p, v)
<1>1. b + 0 = b
  OBVIOUS
<1>2. \A d \in {k, IssuerKey, AuditorKey} : Rerandomize(Encrypt(b, d), d) = Encrypt(b, d)
  BY <1>1, Ciphertexts DEF Keys, Rerandomize
<1>3. Loaded(k, s, i, p, v).key = k
  BY BatchAssumption DEF Loaded, Keys
<1> DEFINE t == Loaded(k, s, i, p, v)
           c == Rerandomize(Encrypt(b, k), t.key)
           m == [issuer |-> Rerandomize(Mirrors(b).issuer, IssuerKey),
                 auditor |-> IF policy.audited
                             THEN Rerandomize(Mirrors(b).auditor, AuditorKey) ELSE Absent]
<1>4. c = Encrypt(b, k) /\ m = Mirrors(b)
  BY <1>2, <1>3 DEF Mirrors
<1>5. ApplyInboxCredit(t, Encrypt(b, k), Mirrors(b)) = Credit(t, c, m)
  BY Zenon DEF ApplyInboxCredit
<1> HIDE DEF c, m
<1> QED BY <1>4, <1>5, PlainCredit

LEMMA PlainMerge ==
    ASSUME NEW k \in HolderKeys, NEW s \in Nat, NEW i \in Nat, NEW p, NEW v
    PROVE  ApplyMerge(Loaded(k, s, i, p, v)) = Loaded(k, s + i, 0, p, NextVersion(v))
<1> DEFINE t == Loaded(k, s, i, p, v)
           c == AddCiphertext(t.spending, t.inbox)
           z == Encrypt(0, t.key)
           w == NextVersion(t.version)
<1>0. k # Absent
  BY BatchAssumption DEF Keys
<1>1. AddCiphertext(Encrypt(s, k), Encrypt(i, k)) = Encrypt(s + i, k)
  BY Ciphertexts DEF Keys
<1>2. (s + i) + 0 = s + i
  OBVIOUS
<1>4. /\ c = Encrypt(s + i, k) /\ z = Encrypt(0, k) /\ w = NextVersion(v)
      /\ t.issuer = Encrypt((s + i) + 0, IssuerKey)
      /\ t.auditor = IF policy.audited THEN Encrypt((s + i) + 0, AuditorKey) ELSE Absent
      /\ t.key = k /\ t.public = p
  BY <1>0, <1>1, <1>2, LoadedFields
<1>5. ApplyMerge(t) = WriteMerge(t, c, z, w)
  BY Zenon DEF ApplyMerge, WriteMerge
<1>6. IsToken(t)
  BY LoadedIsToken
<1> HIDE DEF t, c, z, w
<1>7. ApplyMerge(t)
        = [key |-> t.key, spending |-> c, inbox |-> z, issuer |-> t.issuer, auditor |-> t.auditor,
           version |-> w, public |-> t.public]
  BY <1>5, <1>6, WriteMergeIs
<1> QED BY <1>0, <1>4, <1>7 DEF t, Loaded

LEMMA PlainClawback ==
    ASSUME NEW k \in HolderKeys, NEW s \in Nat, NEW i \in Nat, NEW p, NEW v
    PROVE  ApplyClawback(Loaded(k, s, i, p, v)) = Loaded(k, 0, 0, p, NextVersion(v))
<1> DEFINE t == Loaded(k, s, i, p, v)
           z == Encrypt(0, t.key)
           u == Encrypt(0, IssuerKey)
           a == IF t.auditor = Absent THEN t.auditor ELSE Encrypt(0, AuditorKey)
           w == NextVersion(t.version)
<1>0. k # Absent
  BY BatchAssumption DEF Keys
<1>1. Encrypt(s + i, AuditorKey) # Absent
  BY Ciphertexts DEF Keys
<1>4. /\ z = Encrypt(0, k) /\ u = Encrypt(0 + 0, IssuerKey) /\ w = NextVersion(v)
      /\ a = IF policy.audited THEN Encrypt(0 + 0, AuditorKey) ELSE Absent
      /\ t.key = k /\ t.public = p
  BY <1>0, <1>1, LoadedFields
<1>5. ApplyClawback(t) = WriteAll(t, z, z, u, a, w)
  BY Zenon DEF ApplyClawback, WriteAll
<1>6. IsToken(t)
  BY LoadedIsToken
<1> HIDE DEF t, z, u, a, w
<1>7. ApplyClawback(t)
        = [key |-> t.key, spending |-> z, inbox |-> z, issuer |-> u, auditor |-> a,
           version |-> w, public |-> t.public]
  BY <1>5, <1>6, WriteAllIs
<1> QED BY <1>0, <1>4, <1>7 DEF t, Loaded

(* A convert registers a holder that has no confidential balance yet.      *)
LEMMA PlainConvert ==
    ASSUME NEW c \in HolderKeys \cup {Absent}, NEW k \in HolderKeys, c \in {Absent, k},
           NEW s \in Nat, NEW i \in Nat, NEW p, NEW v, NEW b \in Nat
    PROVE  ApplyConvert(WriteKey(Loaded(c, s, i, p, v), k), Encrypt(b, k), Mirrors(b))
             = IF c = Absent THEN Loaded(k, 0, b, p, 0) ELSE Loaded(k, s, i + b, p, v)
<1>0. k # Absent
  BY BatchAssumption DEF Keys
<1>1. CASE c # Absent
  <2>1. WriteKey(Loaded(k, s, i, p, v), k) = Loaded(k, s, i, p, v)
    <3> DEFINE t == Loaded(k, s, i, p, v)
    <3>1. IsToken(t) /\ t.key = k
      BY <1>0, LoadedIsToken, LoadedFields
    <3>2. t = [key |-> t.key, spending |-> t.spending, inbox |-> t.inbox, issuer |-> t.issuer,
               auditor |-> t.auditor, version |-> t.version, public |-> t.public]
      BY DEF Loaded
    <3> HIDE DEF t
    <3>3. WriteKey(t, k) = t
      BY <3>1, <3>2, WriteKeyIs
    <3> QED BY <3>3 DEF t
  <2>2. ~Unused(Loaded(k, s, i, p, v))
    <3>1. Encrypt(s, k) # Absent
      BY Ciphertexts DEF Keys
    <3>2. Loaded(k, s, i, p, v).spending = Encrypt(s, k)
      BY <1>0, LoadedFields
    <3> QED BY <3>1, <3>2 DEF Unused
  <2> QED BY <1>1, <2>1, <2>2, PlainCredit DEF ApplyConvert
<1>2. CASE c = Absent
  <2> DEFINE t == WriteKey(Loaded(c, s, i, p, v), k)
             z == Encrypt(0, t.key)
             m == Mirrors(b)
             e == Encrypt(b, k)
  <2>1. t = [key |-> k, spending |-> Absent, inbox |-> Absent, issuer |-> Absent,
             auditor |-> Absent, version |-> 0, public |-> p]
    <3> DEFINE r == Loaded(c, s, i, p, v)
    <3>1. /\ IsToken(r) /\ {r.spending, r.inbox, r.issuer, r.auditor} = {Absent}
          /\ r.version = 0 /\ r.public = p
      BY <1>2, LoadedIsToken DEF Loaded
    <3> HIDE DEF r
    <3>2. WriteKey(r, k)
            = [key |-> k, spending |-> r.spending, inbox |-> r.inbox, issuer |-> r.issuer,
               auditor |-> r.auditor, version |-> r.version, public |-> r.public]
      BY <3>1, WriteKeyIs
    <3>3. /\ r.spending = Absent /\ r.inbox = Absent /\ r.issuer = Absent
          /\ r.auditor = Absent
      BY <3>1
    <3> QED BY <3>1, <3>2, <3>3 DEF r
  <2>2. Unused(t) /\ IsToken(t) /\ t.key = k /\ t.public = p /\ z = Encrypt(0, k)
    BY <2>1 DEF Unused, IsToken, Fields, Values
  <2>3. m.issuer = Encrypt(0 + b, IssuerKey)
        /\ m.auditor = IF policy.audited THEN Encrypt(0 + b, AuditorKey) ELSE Absent
    BY DEF Mirrors
  <2> HIDE DEF t, z, m, e
  <2>4. ApplyConvert(t, e, m) = WriteAll(t, z, e, m.issuer, m.auditor, 0)
    BY <2>2, Zenon DEF ApplyConvert, WriteAll, z
  <2>5. ApplyConvert(t, e, m)
          = [key |-> t.key, spending |-> z, inbox |-> e, issuer |-> m.issuer,
             auditor |-> m.auditor, version |-> 0, public |-> t.public]
    BY <2>2, <2>4, WriteAllIs
  <2>6. ApplyConvert(t, e, m) = Loaded(k, 0, b, p, 0)
    BY <1>0, <2>2, <2>3, <2>5 DEF Loaded, e
  <2> QED BY <1>2, <2>6 DEF t, m, e
<1> QED BY <1>1, <1>2

LEMMA PlainPublic ==
    ASSUME NEW k, NEW s, NEW i, NEW p, NEW v, NEW q
    PROVE  WritePublic(Loaded(k, s, i, p, v), q) = Loaded(k, s, i, q, v)
BY LoadedIsToken, WritePublicIs DEF Loaded

Is(t, k, s, i, p, v) ==
    /\ t \in Plain /\ t.key = k /\ t.key # Absent /\ t.public = p /\ t.version = v
    /\ Amount(t.spending) = s /\ Amount(t.inbox) = i /\ Held(t) = s + i

LEMMA LoadedPlain ==
    ASSUME NEW k \in HolderKeys, NEW s \in Nat, NEW i \in Nat, NEW p \in Nat, NEW v \in Version
    PROVE  Is(Loaded(k, s, i, p, v), k, s, i, p, v)
<1>0. \A a \in Nat, c \in Keys : Encrypt(a, c) # Absent
  BY Ciphertexts
<1>1. k # Absent /\ \A a \in Nat, c \in Keys : Encrypt(a, c) # Absent /\ Encrypt(a, c).amount = a
  BY <1>0, BatchAssumption DEF Keys, Encrypt
<1>2. k \in Keys /\ IssuerKey \in Keys /\ s + i \in Nat
  BY DEF Keys
<1>3. Loaded(k, s, i, p, v) \in Plain
  BY DEF Plain
<1> QED BY <1>1, <1>2, <1>3, LoadedFields DEF Amount, Held, Is

-----------------------------------------------------------------------------
(* The sums of the holders' balances.                                      *)
HeldSum(x) == SumFunction([g \in Holders |-> Held(x[g])])
PublicSum(x) == SumFunction([g \in Holders |-> x[g].public])

LEMMA Sums ==
    ASSUME NEW x \in [Holders -> Plain]
    PROVE  /\ HeldSum(x) \in Nat /\ PublicSum(x) \in Nat
           /\ \A h \in Holders : /\ Held(x[h]) \in Nat /\ Held(x[h]) <= HeldSum(x)
                                 /\ x[h].public \in Nat /\ x[h].public <= PublicSum(x)
<1> DEFINE f == [g \in Holders |-> Held(x[g])]
           p == [g \in Holders |-> x[g].public]
<1>1. \A g \in Holders : Held(x[g]) \in Nat /\ x[g].public \in Nat
  BY PlainFields
<1>2. f \in [Holders -> Nat] /\ p \in [Holders -> Nat]
  BY <1>1
<1>3. \A h \in Holders : f[h] = Held(x[h]) /\ p[h] = x[h].public
  OBVIOUS
<1> HIDE DEF f, p
<1>4. SumFunction(f) \in Nat /\ SumFunction(p) \in Nat
  BY <1>2, SumType, BatchAssumption
<1>5. \A h \in Holders : f[h] <= SumFunction(f) /\ p[h] <= SumFunction(p)
  BY <1>2, SumBound, BatchAssumption
<1> QED BY <1>1, <1>3, <1>4, <1>5 DEF HeldSum, PublicSum, f, p

Put(x, h, t) == [x EXCEPT ![h] = t]

LEMMA SumsChange ==
    ASSUME NEW x \in [Holders -> Plain], NEW h \in Holders, NEW t \in Plain
    PROVE  /\ Put(x, h, t) \in [Holders -> Plain]
           /\ HeldSum(Put(x, h, t)) = HeldSum(x) - Held(x[h]) + Held(t)
           /\ PublicSum(Put(x, h, t)) = PublicSum(x) - x[h].public + t.public
<1> DEFINE y == Put(x, h, t)
           f == [g \in Holders |-> Held(x[g])]
           e == [g \in Holders |-> Held(y[g])]
           p == [g \in Holders |-> x[g].public]
           q == [g \in Holders |-> y[g].public]
<1>1. /\ y \in [Holders -> Plain] /\ y[h] = t
      /\ \A g \in Holders : g # h => y[g] = x[g]
  BY DEF Put
<1> HIDE DEF y
<1>2. \A g \in Holders : /\ Held(x[g]) \in Nat /\ x[g].public \in Nat
                         /\ Held(y[g]) \in Nat /\ y[g].public \in Nat
  BY <1>1, PlainFields
<1>3. /\ f \in [Holders -> Nat] /\ e \in [Holders -> Nat]
      /\ p \in [Holders -> Nat] /\ q \in [Holders -> Nat]
  BY <1>2
<1>4. /\ f[h] = Held(x[h]) /\ e[h] = Held(t) /\ p[h] = x[h].public /\ q[h] = t.public
      /\ \A g \in Holders : g # h => e[g] = f[g] /\ q[g] = p[g]
  BY <1>1
<1> HIDE DEF f, e, p, q
<1>5. /\ SumFunction(e) = SumFunction(f) - f[h] + e[h]
      /\ SumFunction(q) = SumFunction(p) - p[h] + q[h]
  BY <1>3, <1>4, SumChange, BatchAssumption
<1>6. /\ HeldSum(y) = SumFunction(e) /\ HeldSum(x) = SumFunction(f)
      /\ PublicSum(y) = SumFunction(q) /\ PublicSum(x) = SumFunction(p)
  BY DEF HeldSum, PublicSum, f, e, p, q
<1>7. HeldSum(y) = HeldSum(x) - Held(x[h]) + Held(t)
  BY <1>4, <1>5, <1>6
<1>8. PublicSum(y) = PublicSum(x) - x[h].public + t.public
  BY <1>4, <1>5, <1>6
<1> QED BY <1>1, <1>7, <1>8 DEF y

(* Two tokens replaced.                                                    *)
Replaced(x, z, h, t, d, r) ==
    /\ z \in [Holders -> Plain]
    /\ HeldSum(z) = HeldSum(x) - Held(x[h]) + Held(t) - Held(x[d]) + Held(r)
    /\ PublicSum(z) = PublicSum(x) - x[h].public + t.public - x[d].public + r.public

LEMMA SumsChangeTwice ==
    ASSUME NEW x \in [Holders -> Plain], NEW h \in Holders, NEW t \in Plain,
           NEW d \in Holders, d # h, NEW r \in Plain
    PROVE  Replaced(x, Put(Put(x, h, t), d, r), h, t, d, r)
<1> DEFINE y == Put(x, h, t)
           z == Put(y, d, r)
<1>1. /\ y \in [Holders -> Plain]
      /\ HeldSum(y) = HeldSum(x) - Held(x[h]) + Held(t)
      /\ PublicSum(y) = PublicSum(x) - x[h].public + t.public
  BY SumsChange
<1>2. y[d] = x[d]
  BY DEF Put
<1> HIDE DEF y
<1>3. /\ z \in [Holders -> Plain]
      /\ HeldSum(z) = HeldSum(y) - Held(y[d]) + Held(r)
      /\ PublicSum(z) = PublicSum(y) - y[d].public + r.public
  BY <1>1, SumsChange
<1> HIDE DEF z
<1>4. /\ z \in [Holders -> Plain]
      /\ HeldSum(z) = HeldSum(x) - Held(x[h]) + Held(t) - Held(x[d]) + Held(r)
      /\ PublicSum(z) = PublicSum(x) - x[h].public + t.public - x[d].public + r.public
  <2>1. /\ HeldSum(x) \in Nat /\ PublicSum(x) \in Nat
        /\ Held(x[h]) \in Nat /\ Held(x[d]) \in Nat /\ Held(t) \in Nat /\ Held(r) \in Nat
        /\ x[h].public \in Nat /\ x[d].public \in Nat /\ t.public \in Nat /\ r.public \in Nat
    BY Sums, PlainFields
  <2> QED BY <1>1, <1>2, <1>3, <2>1
<1> QED BY <1>4 DEF Replaced, y, z

-----------------------------------------------------------------------------
(* The inductive invariant: every token is well encrypted, the supply is    *)
(* what the holders hold with what the batch does not touch, and a version  *)
(* some proof bound lies at most one per operation behind the token's.      *)
PlainInv ==
    /\ policy \in [audited : BOOLEAN, transferable : BOOLEAN, clawable : BOOLEAN]
    /\ tokens \in [Holders -> Plain]
    /\ built \in 0..MaxOperations /\ status \in {"building", "done", "failed"}

SupplyInv ==
    /\ elsewhere \in Nat
    /\ outstanding = elsewhere + HeldSum(tokens)
    /\ outstanding + PublicSum(tokens) <= MaxAmount

Behind(w, v, n) == \E d \in 1..n : w + d \in {v, v + VersionLimit}

VersionInv ==
    \A e \in bound : \E g \in Holders, w \in Version :
        /\ e = <<g, w>> /\ Registered(tokens[g])
        /\ Behind(w, tokens[g].version, built)

Inv == PlainInv /\ SupplyInv /\ VersionInv

LEMMA AmountsBounded ==
    ASSUME PlainInv, SupplyInv, NEW h \in Holders
    PROVE  /\ outstanding \in Amounts
           /\ tokens[h].public + Held(tokens[h]) <= MaxAmount
           /\ tokens[h].public + outstanding <= MaxAmount
           /\ Held(tokens[h]) \in 0..outstanding
<1>1. /\ HeldSum(tokens) \in Nat /\ PublicSum(tokens) \in Nat
      /\ Held(tokens[h]) \in Nat /\ Held(tokens[h]) <= HeldSum(tokens)
      /\ tokens[h].public \in Nat /\ tokens[h].public <= PublicSum(tokens)
  BY Sums DEF PlainInv
<1> QED BY <1>1, BatchAssumption DEF SupplyInv, Amounts

LEMMA InitInv == Init => Inv
<1> SUFFICES ASSUME Init PROVE Inv
    OBVIOUS
<1>1. LoadedTokens \subseteq Plain
  BY BatchAssumption DEF LoadedTokens, Plain, Amounts, Version
<1>2. PlainInv
  BY <1>1, BatchAssumption DEF Init, PlainInv
<1>3. TotalHeld = HeldSum(tokens) /\ TotalPublic = PublicSum(tokens)
  BY DEF TotalHeld, TotalPublic, HeldSum, PublicSum
<1>4. SupplyInv
  BY <1>3 DEF Init, SupplyInv, Amounts
<1> QED BY <1>2, <1>4 DEF Init, Inv, VersionInv

LEMMA BehindStep ==
    ASSUME NEW w \in Version, NEW v \in Version, NEW n \in Nat, n < VersionLimit
    PROVE  /\ Behind(w, v, n) => Behind(w, v, n + 1) /\ Behind(w, NextVersion(v), n + 1)
           /\ Behind(v, NextVersion(v), n + 1)
           /\ ~Behind(v, v, n)
<1>1. VersionLimit \in Nat /\ w \in Nat /\ v \in Nat /\ w < VersionLimit /\ v < VersionLimit
  BY BatchAssumption DEF Version
<1>2. NextVersion(v) = v + 1 \/ (NextVersion(v) = 0 /\ v + 1 = VersionLimit)
  BY NextVersionIs
<1>3. ASSUME NEW d \in 1..n, w + d \in {v, v + VersionLimit}
      PROVE  /\ d \in 1..(n + 1) /\ d + 1 \in 1..(n + 1)
             /\ w + (d + 1) \in {NextVersion(v), NextVersion(v) + VersionLimit}
  BY <1>1, <1>2, <1>3
<1>4. 1 \in 1..(n + 1) /\ v + 1 \in {NextVersion(v), NextVersion(v) + VersionLimit}
  BY <1>1, <1>2
<1>5. ~Behind(v, v, n)
  BY <1>1 DEF Behind
<1> QED BY <1>3, <1>4, <1>5 DEF Behind

-----------------------------------------------------------------------------
(* What each operation does, in plain amounts, where it is not refused.     *)
Paid(h) == Amount(tokens[h].spending)
Received(h) == Amount(tokens[h].inbox)

LEMMA ConvertEffect ==
    ASSUME PlainInv, SupplyInv, NEW o \in Operation, BuildConvert(o), CanConvert(o),
           NEW h, h = o.account
    PROVE  /\ h \in Holders /\ o.key \in HolderKeys /\ o.amount \in 0..tokens[h].public
           /\ tokens' = [tokens EXCEPT ![h] =
                 Loaded(o.key, Paid(h), Received(h) + o.amount,
                        tokens[h].public - o.amount, tokens[h].version)]
           /\ outstanding' = outstanding + o.amount /\ UNCHANGED bound
<1>1. o \in [kind : {"convert"}, account : Holders, key : HolderKeys, amount : Amounts]
  BY DEF BuildConvert, Building, Operation
<1>2. h \in Holders /\ o.key \in HolderKeys /\ o.amount \in Nat
  BY <1>1 DEF Amounts
<1> DEFINE t == tokens[h]
           b == o.amount
           k == o.key
           r == WriteKey(t, k)
           x == ApplyConvert(r, Encrypt(b, k), Mirrors(b))
<1>3. b <= t.public /\ t.key \in {Absent, k}
  BY DEF CanConvert
<1>4. t \in Plain
  BY <1>2 DEF PlainInv
<1>5. /\ t.key \in HolderKeys \cup {Absent} /\ Paid(h) \in Nat /\ Received(h) \in Nat
      /\ t.public \in Nat /\ t.version \in Version
      /\ t = Loaded(t.key, Paid(h), Received(h), t.public, t.version)
      /\ t.key = Absent => Paid(h) = 0 /\ Received(h) = 0 /\ t.version = 0
  <2>1. Unused(t) => Amount(t.spending) = 0 /\ Amount(t.inbox) = 0
    BY DEF Unused, Amount
  <2> QED BY <1>4, <2>1, PlainFields DEF Paid, Received
<1>6. x = Loaded(k, Paid(h), Received(h) + b, t.public, t.version)
  <2>1. x = IF t.key = Absent THEN Loaded(k, 0, b, t.public, 0)
            ELSE Loaded(k, Paid(h), Received(h) + b, t.public, t.version)
    BY <1>2, <1>3, <1>5, PlainConvert
  <2>2. 0 + b = b
    BY <1>2
  <2> QED BY <1>5, <2>1, <2>2
<1>7. x.public = t.public
  BY <1>2, <1>6, BatchAssumption, LoadedFields DEF Keys
<1>8. WritePublic(x, t.public - b) = Loaded(k, Paid(h), Received(h) + b, t.public - b, t.version)
  BY <1>6, PlainPublic
<1>9. tokens' = [tokens EXCEPT ![h] = WritePublic(x, x.public - b)]
  BY Zenon DEF BuildConvert, WritePublic, WriteKey, Fail
<1>10. outstanding' = Credited(outstanding, b) /\ UNCHANGED bound
  BY DEF BuildConvert
<1>11. outstanding' = outstanding + b
  BY <1>2, <1>3, <1>5, <1>10, AmountsBounded, BatchAssumption DEF Credited, Amounts
<1> HIDE DEF x
<1>12. tokens' = [tokens EXCEPT ![h] =
          Loaded(k, Paid(h), Received(h) + b, t.public - b, t.version)]
  BY <1>7, <1>8, <1>9
<1> QED BY <1>2, <1>3, <1>5, <1>10, <1>11, <1>12

LEMMA SpendIs ==
    ASSUME PlainInv, SupplyInv, NEW o \in Operation, CanSpend(o), o.kind \in {"convertBack", "send"},
           NEW h, h = o.account
    PROVE  /\ h \in Holders /\ o.key \in HolderKeys /\ o.amount \in 0..Paid(h)
           /\ tokens[h].key = o.key /\ Received(h) \in Nat /\ Paid(h) \in Nat
           /\ Paid(h) + Received(h) <= outstanding
           /\ ApplySpend(tokens[h], Encrypt(o.amount, o.key), Mirrors(o.amount))
                = Loaded(o.key, Paid(h) - o.amount, Received(h), tokens[h].public,
                         NextVersion(tokens[h].version))
<1>1. h \in Holders /\ o.key \in HolderKeys /\ o.amount \in Nat
  BY DEF Operation, Amounts
<1> DEFINE t == tokens[h]
<1>2. t \in Plain
  BY <1>1 DEF PlainInv
<1>3. /\ t.key = o.key /\ t.spending # Absent /\ o.amount <= t.spending.amount
  BY DEF CanSpend, Spendable
<1>4. o.amount \in 0..Paid(h)
  BY <1>1, <1>2, <1>3, PlainFields DEF Paid, Amount
<1>5. /\ Paid(h) \in Nat /\ Received(h) \in Nat /\ Held(t) = Paid(h) + Received(h)
      /\ t = Loaded(t.key, Paid(h), Received(h), t.public, t.version)
  BY <1>2, PlainFields DEF Paid, Received
<1>6. Held(t) <= outstanding
  BY <1>1, AmountsBounded DEF Amounts
<1>7. ApplySpend(t, Encrypt(o.amount, o.key), Mirrors(o.amount))
        = Loaded(o.key, Paid(h) - o.amount, Received(h), t.public, NextVersion(t.version))
  BY <1>1, <1>3, <1>4, <1>5, PlainSpend
<1> QED BY <1>1, <1>3, <1>4, <1>5, <1>6, <1>7

LEMMA ConvertBackEffect ==
    ASSUME PlainInv, SupplyInv, NEW o \in Operation, BuildConvertBack(o), CanConvertBack(o),
           NEW h, h = o.account
    PROVE  /\ h \in Holders /\ o.key = tokens[h].key /\ o.key \in HolderKeys
           /\ o.amount \in 0..Paid(h) /\ o.amount <= outstanding
           /\ tokens' = [tokens EXCEPT ![h] =
                 Loaded(o.key, Paid(h) - o.amount, Received(h),
                        tokens[h].public + o.amount, NextVersion(tokens[h].version))]
           /\ outstanding' = outstanding - o.amount
           /\ bound' = bound \cup {<<h, tokens[h].version>>}
<1> DEFINE t == tokens[h]
           b == o.amount
           k == o.key
           x == ApplySpend(t, Encrypt(b, k), Mirrors(b))
<1>1. o.kind = "convertBack" /\ CanSpend(o) /\ b <= outstanding
  BY DEF BuildConvertBack, Building, CanConvertBack
<1>2. /\ h \in Holders /\ k \in HolderKeys /\ b \in 0..Paid(h) /\ t.key = k
      /\ Received(h) \in Nat /\ Paid(h) \in Nat /\ Paid(h) + Received(h) <= outstanding
      /\ x = Loaded(k, Paid(h) - b, Received(h), t.public, NextVersion(t.version))
  BY <1>1, SpendIs
<1>3. t.public \in Nat /\ t.public + outstanding <= MaxAmount /\ outstanding \in Nat
  BY <1>2, AmountsBounded, PlainFields DEF Amounts, PlainInv
<1>4. x.public = t.public
  BY <1>2, BatchAssumption, LoadedFields DEF Keys
<1>5. Credited(t.public, b) = t.public + b /\ Debited(outstanding, b) = outstanding - b
  BY <1>1, <1>2, <1>3, BatchAssumption DEF Credited, Debited
<1>6. WritePublic(x, t.public + b)
        = Loaded(k, Paid(h) - b, Received(h), t.public + b, NextVersion(t.version))
  BY <1>2, PlainPublic
<1>7. tokens' = [tokens EXCEPT ![h] = WritePublic(x, Credited(x.public, b))]
  <2> DEFINE z == ApplySpend(tokens[o.account], Encrypt(b, k), Mirrors(b))
  <2>1. tokens' = [tokens EXCEPT ![o.account] = WritePublic(z, Credited(z.public, b))]
    BY Zenon DEF BuildConvertBack, WritePublic
  <2>2. z = x
    OBVIOUS
  <2> HIDE DEF x, z
  <2> QED BY <2>1, <2>2
<1>8. outstanding' = Debited(outstanding, b) /\ bound' = bound \cup {<<h, t.version>>}
  BY DEF BuildConvertBack, BindVersion
<1> QED BY <1>1, <1>2, <1>4, <1>5, <1>6, <1>7, <1>8

LEMMA SendEffect ==
    ASSUME PlainInv, SupplyInv, NEW o \in Operation, BuildSend(o), CanSend(o),
           NEW h, h = o.account, NEW d, d = o.destination
    PROVE  /\ h \in Holders /\ d \in Holders /\ d # h
           /\ o.key = tokens[h].key /\ o.key \in HolderKeys /\ tokens[d].key \in HolderKeys
           /\ o.amount \in 0..Paid(h)
           /\ tokens' = [[tokens EXCEPT ![h] =
                 Loaded(o.key, Paid(h) - o.amount, Received(h), tokens[h].public,
                        NextVersion(tokens[h].version))] EXCEPT ![d] =
                 Loaded(tokens[d].key, Paid(d), Received(d) + o.amount, tokens[d].public,
                        tokens[d].version)]
           /\ UNCHANGED outstanding
           /\ bound' = bound \cup {<<h, tokens[h].version>>}
<1> DEFINE t == tokens[h]
           r == tokens[d]
           b == o.amount
           k == o.key
           x == ApplySpend(t, Encrypt(b, k), Mirrors(b))
           y == ApplyInboxCredit(r, Encrypt(b, r.key), Mirrors(b))
<1>1. o.kind = "send" /\ CanSpend(o) /\ r.key # Absent
  BY DEF BuildSend, Building, CanSend, Receivable
<1>2. /\ h \in Holders /\ k \in HolderKeys /\ b \in 0..Paid(h) /\ t.key = k
      /\ Paid(h) \in Nat
      /\ x = Loaded(k, Paid(h) - b, Received(h), t.public, NextVersion(t.version))
  BY <1>1, SpendIs
<1>3. d \in Holders /\ d # h
  BY <1>1 DEF Operation
<1>4. r \in Plain
  BY <1>3 DEF PlainInv
<1>5. /\ r.key \in HolderKeys /\ Paid(d) \in Nat /\ Received(d) \in Nat
      /\ r = Loaded(r.key, Paid(d), Received(d), r.public, r.version)
  BY <1>1, <1>4, PlainFields DEF Paid, Received
<1>6. y = Loaded(r.key, Paid(d), Received(d) + b, r.public, r.version)
  BY <1>2, <1>5, PlainInboxCredit
<1> DEFINE s == o.account
           e == o.destination
           z == ApplySpend(tokens[s], Encrypt(b, k), Mirrors(b))
           m == Mirrors(b)
<1>7. tokens' = [tokens EXCEPT ![s] = z, ![e] =
                    ApplyInboxCredit(tokens[e], Encrypt(b, tokens[e].key), m)]
  BY Zenon DEF BuildSend
<1>8. s = h /\ e = d /\ z = x
  OBVIOUS
<1>9. UNCHANGED outstanding /\ bound' = bound \cup {<<h, t.version>>}
  BY DEF BuildSend, BindVersion
<1>10. tokens' = [[tokens EXCEPT ![h] = x] EXCEPT ![d] = y]
  <2> HIDE DEF x, z, m, s, e
  <2> QED BY <1>7, <1>8 DEF m
<1> QED BY <1>2, <1>3, <1>5, <1>6, <1>9, <1>10

LEMMA MergeEffect ==
    ASSUME PlainInv, NEW o \in Operation, BuildMergeInbox(o), CanMerge(o), NEW h, h = o.account
    PROVE  /\ h \in Holders /\ tokens[h].key \in HolderKeys
           /\ tokens' = [tokens EXCEPT ![h] =
                 Loaded(tokens[h].key, Paid(h) + Received(h), 0, tokens[h].public,
                        NextVersion(tokens[h].version))]
           /\ UNCHANGED <<outstanding, bound>>
<1> DEFINE t == tokens[h]
<1>1. h \in Holders /\ t.key # Absent
  BY DEF BuildMergeInbox, Building, Operation, CanMerge
<1>2. t \in Plain
  BY <1>1 DEF PlainInv
<1>3. /\ t.key \in HolderKeys /\ Paid(h) \in Nat /\ Received(h) \in Nat
      /\ t = Loaded(t.key, Paid(h), Received(h), t.public, t.version)
  BY <1>1, <1>2, PlainFields DEF Paid, Received
<1>4. ApplyMerge(t) = Loaded(t.key, Paid(h) + Received(h), 0, t.public, NextVersion(t.version))
  BY <1>3, PlainMerge
<1>5. tokens' = [tokens EXCEPT ![h] = ApplyMerge(t)] /\ UNCHANGED <<outstanding, bound>>
  BY DEF BuildMergeInbox
<1> QED BY <1>1, <1>3, <1>4, <1>5

LEMMA ClawbackEffect ==
    ASSUME PlainInv, SupplyInv, NEW o \in Operation, BuildClawback(o), CanClawback(o),
           NEW h, h = o.holder
    PROVE  /\ h \in Holders /\ tokens[h].key \in HolderKeys
           /\ Paid(h) + Received(h) \in 0..outstanding
           /\ tokens' = [tokens EXCEPT ![h] =
                 Loaded(tokens[h].key, 0, 0, tokens[h].public, NextVersion(tokens[h].version))]
           /\ outstanding' = outstanding - (Paid(h) + Received(h)) /\ UNCHANGED bound
<1> DEFINE t == tokens[h]
<1>1. h \in Holders /\ t.key # Absent /\ t.issuer # Absent
  BY DEF BuildClawback, Building, Operation, CanClawback
<1>2. t \in Plain
  BY <1>1 DEF PlainInv
<1>3. /\ t.key \in HolderKeys /\ Paid(h) \in Nat /\ Received(h) \in Nat
      /\ Held(t) = Paid(h) + Received(h)
      /\ t = Loaded(t.key, Paid(h), Received(h), t.public, t.version)
  BY <1>1, <1>2, PlainFields DEF Paid, Received
<1>4. Held(t) \in 0..outstanding /\ t.issuer.amount = Held(t)
  BY <1>1, AmountsBounded DEF Held
<1>5. ApplyClawback(t) = Loaded(t.key, 0, 0, t.public, NextVersion(t.version))
  BY <1>3, PlainClawback
<1>6. /\ tokens' = [tokens EXCEPT ![h] = ApplyClawback(t)] /\ UNCHANGED bound
      /\ outstanding' = Debited(outstanding, t.issuer.amount)
  BY DEF BuildClawback
<1>7. outstanding' = outstanding - Held(t)
  BY <1>1, <1>4, <1>6, AmountsBounded DEF Debited, Amounts
<1> QED BY <1>1, <1>3, <1>4, <1>5, <1>6, <1>7

-----------------------------------------------------------------------------
(* The amounts behind the tokens, which ConfidentialToken sees.             *)
LEMMA PlainView ==
    ASSUME PlainInv
    PROVE  Publics \in [Holders -> Nat] /\ Inboxes \in [Holders -> Nat] /\ Spendings \in [Holders -> Nat]
BY PlainFields DEF PlainInv, Publics, Inboxes, Spendings

(* What replacing one token does to the three functions.                    *)
LEMMA OneView ==
    ASSUME PlainInv, NEW h \in Holders, NEW k, NEW s, NEW i, NEW p, NEW v,
           NEW t, Is(t, k, s, i, p, v), tokens' = [tokens EXCEPT ![h] = t]
    PROVE  /\ Publics' = Put(Publics, h, p)
           /\ Inboxes' = Put(Inboxes, h, i)
           /\ Spendings' = Put(Spendings, h, s)
<1>1. \A g \in Holders : tokens'[g] = IF g = h THEN t ELSE tokens[g]
  BY DEF PlainInv
<1>2. t.public = p /\ Amount(t.inbox) = i /\ Amount(t.spending) = s
  BY DEF Is
<1>3. \A g \in Holders :
         /\ tokens'[g].public = IF g = h THEN p ELSE tokens[g].public
         /\ Amount(tokens'[g].inbox) = IF g = h THEN i ELSE Amount(tokens[g].inbox)
         /\ Amount(tokens'[g].spending) = IF g = h THEN s ELSE Amount(tokens[g].spending)
  BY <1>1, <1>2
<1>4. /\ Publics' = [g \in Holders |-> tokens'[g].public]
      /\ Inboxes' = [g \in Holders |-> Amount(tokens'[g].inbox)]
      /\ Spendings' = [g \in Holders |-> Amount(tokens'[g].spending)]
  BY DEF Publics, Inboxes, Spendings
<1>5. Publics' = Put(Publics, h, p)
  BY <1>3, <1>4 DEF Publics, Put
<1>6. Inboxes' = Put(Inboxes, h, i)
  BY <1>3, <1>4 DEF Inboxes, Put
<1>7. Spendings' = Put(Spendings, h, s)
  BY <1>3, <1>4 DEF Spendings, Put
<1> QED BY <1>5, <1>6, <1>7

LEMMA TwoViews ==
    ASSUME PlainInv, NEW h \in Holders, NEW d \in Holders, d # h,
           NEW k, NEW s, NEW v, NEW t, Is(t, k, s, Received(h), tokens[h].public, v),
           NEW l, NEW j, NEW w, NEW r, Is(r, l, Paid(d), j, tokens[d].public, w),
           tokens' = Put(Put(tokens, h, t), d, r)
    PROVE  /\ Publics' = Publics
           /\ Inboxes' = Put(Inboxes, d, j)
           /\ Spendings' = Put(Spendings, h, s)
<1>1. \A g \in Holders : tokens'[g] = IF g = d THEN r ELSE IF g = h THEN t ELSE tokens[g]
  BY DEF PlainInv, Put
<1>2. /\ t.public = tokens[h].public /\ Amount(t.spending) = s
      /\ Amount(t.inbox) = Amount(tokens[h].inbox)
      /\ r.public = tokens[d].public /\ Amount(r.inbox) = j
      /\ Amount(r.spending) = Amount(tokens[d].spending)
  BY DEF Is, Paid, Received
<1>3. \A g \in Holders :
         /\ tokens'[g].public = tokens[g].public
         /\ Amount(tokens'[g].inbox) = IF g = d THEN j ELSE Amount(tokens[g].inbox)
         /\ Amount(tokens'[g].spending) = IF g = h THEN s ELSE Amount(tokens[g].spending)
  <2> TAKE g \in Holders
  <2>1. CASE g = d
    <3>1. tokens'[g] = r
      BY <1>1, <2>1
    <3> QED BY <1>2, <2>1, <3>1
  <2>2. CASE g = h
    <3>1. tokens'[g] = t
      BY <1>1, <2>2
    <3> QED BY <1>2, <2>2, <3>1
  <2>3. CASE g # d /\ g # h
    <3>1. tokens'[g] = tokens[g]
      BY <1>1, <2>3
    <3> QED BY <2>3, <3>1
  <2> QED BY <2>1, <2>2, <2>3
<1>4. /\ Publics' = [g \in Holders |-> tokens'[g].public]
      /\ Inboxes' = [g \in Holders |-> Amount(tokens'[g].inbox)]
      /\ Spendings' = [g \in Holders |-> Amount(tokens'[g].spending)]
  BY DEF Publics, Inboxes, Spendings
<1>5. Publics' = Publics
  BY <1>3, <1>4 DEF Publics, Put
<1>6. Inboxes' = Put(Inboxes, d, j)
  BY <1>3, <1>4 DEF Inboxes, Put
<1>7. Spendings' = Put(Spendings, h, s)
  BY <1>3, <1>4 DEF Spendings, Put
<1> QED BY <1>5, <1>6, <1>7

LEMMA ViewAt ==
    ASSUME PlainInv, NEW h \in Holders
    PROVE  /\ Publics[h] = tokens[h].public /\ Publics[h] \in Nat
           /\ Inboxes[h] = Received(h) /\ Inboxes[h] \in Nat
           /\ Spendings[h] = Paid(h) /\ Spendings[h] \in Nat
           /\ Publics = Put(Publics, h, tokens[h].public)
           /\ Inboxes = Put(Inboxes, h, Received(h))
           /\ Spendings = Put(Spendings, h, Paid(h))
BY PlainView DEF Publics, Inboxes, Spendings, Paid, Received, Put

-----------------------------------------------------------------------------
(* Each operation keeps the invariant.                                     *)
Advances ==
    /\ built < MaxOperations /\ built' = built + 1
    /\ policy' = policy /\ elsewhere' = elsewhere /\ status' = status

LEMMA VersionStep ==
    ASSUME PlainInv, VersionInv, Advances,
           \A g \in Holders :
               /\ Registered(tokens[g]) => Registered(tokens'[g])
               /\ tokens'[g].version \in {tokens[g].version, NextVersion(tokens[g].version)},
           \A e \in bound' :
               \/ e \in bound
               \/ \E g \in Holders : /\ e = <<g, tokens[g].version>> /\ Registered(tokens'[g])
                                     /\ tokens'[g].version = NextVersion(tokens[g].version)
    PROVE  VersionInv'
<1>0. built \in Nat /\ built < VersionLimit /\ built' = built + 1
  BY BatchAssumption DEF PlainInv, Advances
<1>1. \A g \in Holders : tokens[g].version \in Version
  BY PlainFields DEF PlainInv
<1> SUFFICES ASSUME NEW e \in bound'
             PROVE  \E g \in Holders, w \in Version :
                       /\ e = <<g, w>> /\ Registered(tokens'[g])
                       /\ Behind(w, tokens'[g].version, built + 1)
    BY <1>0 DEF VersionInv, Behind
<1>2. CASE e \in bound
  <2>1. PICK g \in Holders, w \in Version :
             /\ e = <<g, w>> /\ Registered(tokens[g])
             /\ Behind(w, tokens[g].version, built)
    BY <1>2 DEF VersionInv
  <2>2. /\ Behind(w, tokens[g].version, built + 1)
        /\ Behind(w, NextVersion(tokens[g].version), built + 1)
    BY <1>0, <1>1, <2>1, BehindStep
  <2>3. Registered(tokens'[g]) /\ Behind(w, tokens'[g].version, built + 1)
    BY <2>1, <2>2
  <2> QED BY <2>1, <2>3
<1>3. ASSUME NEW g \in Holders, e = <<g, tokens[g].version>>, Registered(tokens'[g]),
             tokens'[g].version = NextVersion(tokens[g].version)
      PROVE  \E f \in Holders, w \in Version :
                /\ e = <<f, w>> /\ Registered(tokens'[f])
                /\ Behind(w, tokens'[f].version, built + 1)
  <2>1. Behind(tokens[g].version, NextVersion(tokens[g].version), built + 1)
    BY <1>0, <1>1, BehindStep
  <2> QED BY <1>1, <1>3, <2>1
<1> QED BY <1>2, <1>3

(* One token is replaced: what the invariant needs of the new one.          *)
LEMMA OneToken ==
    ASSUME Inv, Advances, NEW h \in Holders, NEW t \in Plain,
           tokens' = [tokens EXCEPT ![h] = t],
           outstanding' = outstanding + Held(t) - Held(tokens[h]),
           Held(t) + t.public <= Held(tokens[h]) + tokens[h].public,
           outstanding' + t.public <= outstanding + tokens[h].public,
           t.key # Absent,
           t.version \in {tokens[h].version, NextVersion(tokens[h].version)},
           \/ UNCHANGED bound
           \/ /\ bound' = bound \cup {<<h, tokens[h].version>>}
              /\ t.version = NextVersion(tokens[h].version)
    PROVE  Inv'
<1> USE DEF Inv
<1>0. tokens' = Put(tokens, h, t)
  BY DEF Put
<1>1. Plain' = Plain
  BY DEF Advances, Plain, Loaded
<1>2. /\ tokens' \in [Holders -> Plain]
      /\ HeldSum(tokens') = HeldSum(tokens) - Held(tokens[h]) + Held(t)
      /\ PublicSum(tokens') = PublicSum(tokens) - tokens[h].public + t.public
  <2>1. tokens \in [Holders -> Plain]
    BY DEF PlainInv
  <2>2. /\ Put(tokens, h, t) \in [Holders -> Plain]
        /\ HeldSum(Put(tokens, h, t)) = HeldSum(tokens) - Held(tokens[h]) + Held(t)
        /\ PublicSum(Put(tokens, h, t)) = PublicSum(tokens) - tokens[h].public + t.public
    BY <2>1, SumsChange
  <2> QED BY <1>0, <2>2
<1>3. PlainInv'
  BY <1>1, <1>2, BatchAssumption DEF PlainInv, Advances
<1>4. SupplyInv'
  <2>1. /\ Held(t) \in Nat /\ t.public \in Nat /\ Held(tokens[h]) \in Nat
        /\ tokens[h].public \in Nat /\ HeldSum(tokens) \in Nat /\ PublicSum(tokens) \in Nat
    BY Sums, PlainFields DEF PlainInv
  <2>2. outstanding' = elsewhere + HeldSum(tokens')
    BY <1>2, <2>1 DEF SupplyInv
  <2>3. outstanding' + PublicSum(tokens') <= MaxAmount
    BY <1>2, <2>1, <2>2, BatchAssumption DEF SupplyInv
  <2> QED BY <2>2, <2>3 DEF SupplyInv, Advances, HeldSum, PublicSum
<1>5. \A g \in Holders : IF g = h THEN tokens'[g] = t ELSE tokens'[g] = tokens[g]
  BY DEF PlainInv
<1>6. VersionInv'
  BY <1>5, VersionStep DEF Registered
<1> QED BY <1>3, <1>4, <1>6

LEMMA HeldIs ==
    ASSUME PlainInv, NEW h \in Holders
    PROVE  /\ Paid(h) \in Nat /\ Received(h) \in Nat /\ Held(tokens[h]) = Paid(h) + Received(h)
           /\ tokens[h].public \in Nat /\ tokens[h].version \in Version
           /\ NextVersion(tokens[h].version) \in Version
BY PlainFields, NextVersionIs DEF PlainInv, Paid, Received

LEMMA ConvertStep ==
    ASSUME Inv, NEW o \in Operation, BuildConvert(o), CanConvert(o)
    PROVE  Inv' /\ View!TokenNext
<1> DEFINE h == o.account
           t == Loaded(o.key, Paid(h), Received(h) + o.amount,
                       tokens[h].public - o.amount, tokens[h].version)
<1>0. PlainInv /\ SupplyInv /\ Advances
  BY DEF Inv, Advances, BuildConvert, Building, Advance, Fail
<1>1. /\ h \in Holders /\ o.key \in HolderKeys /\ o.amount \in 0..tokens[h].public
      /\ tokens' = [tokens EXCEPT ![h] = t]
      /\ outstanding' = outstanding + o.amount /\ UNCHANGED bound
  BY <1>0, ConvertEffect
<1>2. /\ Paid(h) \in Nat /\ Received(h) \in Nat /\ Held(tokens[h]) = Paid(h) + Received(h)
      /\ tokens[h].public \in Nat /\ tokens[h].version \in Version
  BY <1>0, <1>1, HeldIs
<1>t. Is(t, o.key, Paid(h), Received(h) + o.amount, tokens[h].public - o.amount,
          tokens[h].version)
  <2>1. /\ o.key \in HolderKeys /\ Paid(h) \in Nat /\ Received(h) + o.amount \in Nat
        /\ tokens[h].public - o.amount \in Nat /\ tokens[h].version \in Version
    BY <1>1, <1>2
  <2> QED BY <2>1, LoadedPlain
<1>3. /\ t \in Plain /\ t.key # Absent /\ t.public = tokens[h].public - o.amount
      /\ t.version = tokens[h].version /\ Held(t) = Paid(h) + (Received(h) + o.amount)
  BY <1>t DEF Is
<1>4. outstanding \in Nat
  BY <1>0, <1>1, AmountsBounded DEF Amounts
<1>5. /\ outstanding' = outstanding + Held(t) - Held(tokens[h])
      /\ Held(t) + t.public <= Held(tokens[h]) + tokens[h].public
      /\ outstanding' + t.public <= outstanding + tokens[h].public
  BY <1>1, <1>2, <1>3, <1>4
<1>6. Inv'
  <2> HIDE DEF h, t
  <2> QED BY <1>0, <1>1, <1>3, <1>5, OneToken
<1> DEFINE a == o.amount
<1>7. /\ Publics' = Put(Publics, h, Publics[h] - a)
      /\ Inboxes' = Put(Inboxes, h, Inboxes[h] + a)
      /\ Spendings' = Spendings
  <2>1. /\ Publics' = Put(Publics, h, tokens[h].public - a)
        /\ Inboxes' = Put(Inboxes, h, Received(h) + a)
        /\ Spendings' = Put(Spendings, h, Paid(h))
    <3>1. h \in Holders /\ tokens' = [tokens EXCEPT ![h] = t]
      BY <1>1
    <3> HIDE DEF h, t
    <3> QED BY <1>0, <3>1, <1>t, OneView, Zenon
  <2> HIDE DEF h, t, a
  <2> QED BY <1>0, <1>1, <2>1, ViewAt
<1>8. a \in 0..Publics[h]
  BY <1>0, <1>1, ViewAt
<1> HIDE DEF h, t, a
<1>9. View!Deposit(h, a)
  BY <1>1, <1>7 DEF View!Deposit, Put, a
<1> QED BY <1>1, <1>6, <1>8, <1>9 DEF View!TokenNext

LEMMA ConvertBackStep ==
    ASSUME Inv, NEW o \in Operation, BuildConvertBack(o), CanConvertBack(o)
    PROVE  Inv' /\ View!TokenNext
<1> DEFINE h == o.account
           t == Loaded(o.key, Paid(h) - o.amount, Received(h), tokens[h].public + o.amount,
                       NextVersion(tokens[h].version))
<1>0. PlainInv /\ SupplyInv /\ Advances
  BY DEF Inv, Advances, BuildConvertBack, Building, Advance, Fail
<1>1. /\ h \in Holders /\ o.key \in HolderKeys /\ o.amount \in 0..Paid(h)
      /\ o.amount <= outstanding
      /\ tokens' = [tokens EXCEPT ![h] = t]
      /\ outstanding' = outstanding - o.amount
      /\ bound' = bound \cup {<<h, tokens[h].version>>}
  BY <1>0, ConvertBackEffect
<1>2. /\ Paid(h) \in Nat /\ Received(h) \in Nat /\ Held(tokens[h]) = Paid(h) + Received(h)
      /\ tokens[h].public \in Nat /\ NextVersion(tokens[h].version) \in Version
  BY <1>0, <1>1, HeldIs
<1>t. Is(t, o.key, Paid(h) - o.amount, Received(h), tokens[h].public + o.amount,
          NextVersion(tokens[h].version))
  <2>1. /\ o.key \in HolderKeys /\ Paid(h) - o.amount \in Nat /\ Received(h) \in Nat
        /\ tokens[h].public + o.amount \in Nat /\ NextVersion(tokens[h].version) \in Version
    BY <1>1, <1>2
  <2> QED BY <2>1, LoadedPlain
<1>3. /\ t \in Plain /\ t.key # Absent /\ t.public = tokens[h].public + o.amount
      /\ t.version = NextVersion(tokens[h].version)
      /\ Held(t) = (Paid(h) - o.amount) + Received(h)
  BY <1>t DEF Is
<1>4. outstanding \in Nat
  BY <1>0, <1>1, AmountsBounded DEF Amounts
<1>5. /\ outstanding' = outstanding + Held(t) - Held(tokens[h])
      /\ Held(t) + t.public <= Held(tokens[h]) + tokens[h].public
      /\ outstanding' + t.public <= outstanding + tokens[h].public
  BY <1>1, <1>2, <1>3, <1>4
<1>6. Inv'
  <2> HIDE DEF h, t
  <2> QED BY <1>0, <1>1, <1>3, <1>5, OneToken
<1> DEFINE a == o.amount
<1>7. /\ Publics' = Put(Publics, h, Publics[h] + a)
      /\ Inboxes' = Inboxes
      /\ Spendings' = Put(Spendings, h, Spendings[h] - a)
  <2>1. /\ Publics' = Put(Publics, h, tokens[h].public + a)
        /\ Inboxes' = Put(Inboxes, h, Received(h))
        /\ Spendings' = Put(Spendings, h, Paid(h) - a)
    <3>1. h \in Holders /\ tokens' = [tokens EXCEPT ![h] = t]
      BY <1>1
    <3> HIDE DEF h, t
    <3> QED BY <1>0, <3>1, <1>t, OneView, Zenon
  <2> HIDE DEF h, t, a
  <2> QED BY <1>0, <1>1, <2>1, ViewAt
<1>8. a \in 0..Spendings[h] /\ a <= outstanding
  BY <1>0, <1>1, ViewAt
<1> HIDE DEF h, t, a
<1>9. View!Withdraw(h, a)
  BY <1>1, <1>7, <1>8 DEF View!Withdraw, Put, a
<1> QED BY <1>1, <1>6, <1>8, <1>9 DEF View!TokenNext

LEMMA MergeStep ==
    ASSUME Inv, NEW o \in Operation, BuildMergeInbox(o), CanMerge(o)
    PROVE  Inv' /\ View!TokenNext
<1> DEFINE h == o.account
           t == Loaded(tokens[h].key, Paid(h) + Received(h), 0, tokens[h].public,
                       NextVersion(tokens[h].version))
<1>0. PlainInv /\ SupplyInv /\ Advances
  BY DEF Inv, Advances, BuildMergeInbox, Building, Advance, Fail
<1>1. /\ h \in Holders /\ tokens[h].key \in HolderKeys
      /\ tokens' = [tokens EXCEPT ![h] = t]
      /\ UNCHANGED <<outstanding, bound>>
  BY <1>0, MergeEffect
<1>2. /\ Paid(h) \in Nat /\ Received(h) \in Nat /\ Held(tokens[h]) = Paid(h) + Received(h)
      /\ tokens[h].public \in Nat /\ NextVersion(tokens[h].version) \in Version
  BY <1>0, <1>1, HeldIs
<1>t. Is(t, tokens[h].key, Paid(h) + Received(h), 0, tokens[h].public,
          NextVersion(tokens[h].version))
  <2>1. /\ tokens[h].key \in HolderKeys /\ Paid(h) + Received(h) \in Nat
        /\ tokens[h].public \in Nat /\ NextVersion(tokens[h].version) \in Version
    BY <1>1, <1>2
  <2> QED BY <2>1, LoadedPlain
<1>3. /\ t \in Plain /\ t.key # Absent /\ t.public = tokens[h].public
      /\ t.version = NextVersion(tokens[h].version)
      /\ Held(t) = (Paid(h) + Received(h)) + 0
  BY <1>t DEF Is
<1>4. outstanding \in Nat
  BY <1>0, <1>1, AmountsBounded DEF Amounts
<1>5. /\ outstanding' = outstanding + Held(t) - Held(tokens[h])
      /\ Held(t) + t.public <= Held(tokens[h]) + tokens[h].public
      /\ outstanding' + t.public <= outstanding + tokens[h].public
  BY <1>1, <1>2, <1>3, <1>4
<1>6. Inv'
  <2> HIDE DEF h, t
  <2> QED BY <1>0, <1>1, <1>3, <1>5, OneToken
<1>7. /\ Publics' = Publics
      /\ Inboxes' = Put(Inboxes, h, 0)
      /\ Spendings' = Put(Spendings, h, Spendings[h] + Inboxes[h])
  <2>1. /\ Publics' = Put(Publics, h, tokens[h].public)
        /\ Inboxes' = Put(Inboxes, h, 0)
        /\ Spendings' = Put(Spendings, h, Paid(h) + Received(h))
    <3>1. h \in Holders /\ tokens' = [tokens EXCEPT ![h] = t]
      BY <1>1
    <3> HIDE DEF h, t
    <3> QED BY <1>0, <3>1, <1>t, OneView, Zenon
  <2> HIDE DEF h, t
  <2> QED BY <1>0, <1>1, <2>1, ViewAt
<1> HIDE DEF h, t
<1>8. View!Merge(h)
  BY <1>1, <1>7 DEF View!Merge, Put
<1> QED BY <1>1, <1>6, <1>8 DEF View!TokenNext

LEMMA ClawbackStep ==
    ASSUME Inv, NEW o \in Operation, BuildClawback(o), CanClawback(o)
    PROVE  Inv' /\ View!TokenNext
<1> DEFINE h == o.holder
           t == Loaded(tokens[h].key, 0, 0, tokens[h].public, NextVersion(tokens[h].version))
<1>0. PlainInv /\ SupplyInv /\ Advances
  BY DEF Inv, Advances, BuildClawback, Building, Advance, Fail
<1>1. /\ h \in Holders /\ tokens[h].key \in HolderKeys
      /\ Paid(h) + Received(h) <= outstanding
      /\ tokens' = [tokens EXCEPT ![h] = t]
      /\ outstanding' = outstanding - (Paid(h) + Received(h)) /\ UNCHANGED bound
  BY <1>0, ClawbackEffect
<1>2. /\ Paid(h) \in Nat /\ Received(h) \in Nat /\ Held(tokens[h]) = Paid(h) + Received(h)
      /\ tokens[h].public \in Nat /\ NextVersion(tokens[h].version) \in Version
  BY <1>0, <1>1, HeldIs
<1>t. Is(t, tokens[h].key, 0, 0, tokens[h].public, NextVersion(tokens[h].version))
  <2>1. /\ tokens[h].key \in HolderKeys /\ tokens[h].public \in Nat
        /\ NextVersion(tokens[h].version) \in Version
    BY <1>1, <1>2
  <2> QED BY <2>1, LoadedPlain
<1>3. /\ t \in Plain /\ t.key # Absent /\ t.public = tokens[h].public
      /\ t.version = NextVersion(tokens[h].version) /\ Held(t) = 0 + 0
  BY <1>t DEF Is
<1>4. outstanding \in Nat
  BY <1>0, <1>1, AmountsBounded DEF Amounts
<1>5. /\ outstanding' = outstanding + Held(t) - Held(tokens[h])
      /\ Held(t) + t.public <= Held(tokens[h]) + tokens[h].public
      /\ outstanding' + t.public <= outstanding + tokens[h].public
  BY <1>1, <1>2, <1>3, <1>4
<1>6. Inv'
  <2> HIDE DEF h, t
  <2> QED BY <1>0, <1>1, <1>3, <1>5, OneToken
<1>7. /\ Publics' = Publics
      /\ Inboxes' = Put(Inboxes, h, 0)
      /\ Spendings' = Put(Spendings, h, 0)
  <2>1. /\ Publics' = Put(Publics, h, tokens[h].public)
        /\ Inboxes' = Put(Inboxes, h, 0)
        /\ Spendings' = Put(Spendings, h, 0)
    <3>1. h \in Holders /\ tokens' = [tokens EXCEPT ![h] = t]
      BY <1>1
    <3> HIDE DEF h, t
    <3> QED BY <1>0, <3>1, <1>t, OneView, Zenon
  <2> HIDE DEF h, t
  <2> QED BY <1>0, <1>1, <2>1, ViewAt
<1>8. /\ Spendings[h] + Inboxes[h] <= outstanding
      /\ outstanding' = outstanding - (Spendings[h] + Inboxes[h])
  BY <1>0, <1>1, ViewAt
<1> HIDE DEF h, t
<1>9. View!Burn(h)
  BY <1>7, <1>8 DEF View!Burn, Put
<1> QED BY <1>1, <1>6, <1>9 DEF View!TokenNext

(* A send replaces two tokens; what one loses the other gains.              *)
LEMMA SendStep ==
    ASSUME Inv, NEW o \in Operation, BuildSend(o), CanSend(o)
    PROVE  Inv' /\ View!TokenNext
<1> DEFINE h == o.account
           d == o.destination
           b == o.amount
           t == Loaded(o.key, Paid(h) - b, Received(h), tokens[h].public,
                       NextVersion(tokens[h].version))
           r == Loaded(tokens[d].key, Paid(d), Received(d) + b, tokens[d].public,
                       tokens[d].version)
<1>0. PlainInv /\ SupplyInv /\ VersionInv /\ Advances
  BY DEF Inv, Advances, BuildSend, Building, Advance, Fail
<1>1. /\ h \in Holders /\ d \in Holders /\ d # h
      /\ o.key \in HolderKeys /\ tokens[d].key \in HolderKeys /\ b \in 0..Paid(h)
      /\ tokens' = [[tokens EXCEPT ![h] = t] EXCEPT ![d] = r] /\ UNCHANGED outstanding
      /\ bound' = bound \cup {<<h, tokens[h].version>>}
  BY <1>0, SendEffect
<1>2. /\ Paid(h) \in Nat /\ Received(h) \in Nat /\ Held(tokens[h]) = Paid(h) + Received(h)
      /\ tokens[h].public \in Nat /\ NextVersion(tokens[h].version) \in Version
      /\ Paid(d) \in Nat /\ Received(d) \in Nat /\ Held(tokens[d]) = Paid(d) + Received(d)
      /\ tokens[d].public \in Nat /\ tokens[d].version \in Version
  BY <1>0, <1>1, HeldIs
<1>t. Is(t, o.key, Paid(h) - b, Received(h), tokens[h].public,
          NextVersion(tokens[h].version))
  <2>1. /\ o.key \in HolderKeys /\ Paid(h) - b \in Nat /\ Received(h) \in Nat
        /\ tokens[h].public \in Nat /\ NextVersion(tokens[h].version) \in Version
    BY <1>1, <1>2
  <2> QED BY <2>1, LoadedPlain
<1>3. /\ t \in Plain /\ t.key # Absent /\ t.public = tokens[h].public
      /\ t.version = NextVersion(tokens[h].version) /\ Held(t) = (Paid(h) - b) + Received(h)
  BY <1>t DEF Is
<1>r. Is(r, tokens[d].key, Paid(d), Received(d) + b, tokens[d].public,
          tokens[d].version)
  <2>1. /\ tokens[d].key \in HolderKeys /\ Paid(d) \in Nat /\ Received(d) + b \in Nat
        /\ tokens[d].public \in Nat /\ tokens[d].version \in Version
    BY <1>1, <1>2
  <2> QED BY <2>1, LoadedPlain
<1>4. /\ r \in Plain /\ r.key # Absent /\ r.public = tokens[d].public
      /\ r.version = tokens[d].version /\ Held(r) = Paid(d) + (Received(d) + b)
  BY <1>r DEF Is
<1> HIDE DEF h, d, b, t, r
<1>5. tokens \in [Holders -> Plain]
  BY <1>0 DEF PlainInv
<1>6. \A g \in Holders : tokens'[g] = IF g = d THEN r ELSE IF g = h THEN t ELSE tokens[g]
  BY <1>1, <1>5
<1>7. /\ tokens' \in [Holders -> Plain]
      /\ HeldSum(tokens')
            = HeldSum(tokens) - Held(tokens[h]) + Held(t) - Held(tokens[d]) + Held(r)
      /\ PublicSum(tokens')
            = PublicSum(tokens) - tokens[h].public + t.public - tokens[d].public + r.public
  <2>1. tokens' = Put(Put(tokens, h, t), d, r)
    BY <1>1 DEF Put
  <2>2. h \in Holders /\ d \in Holders /\ d # h /\ t \in Plain /\ r \in Plain
    BY <1>1, <1>3, <1>4
  <2>3. Replaced(tokens, Put(Put(tokens, h, t), d, r), h, t, d, r)
    BY <1>5, <2>2, SumsChangeTwice
  <2> QED BY <2>1, <2>3 DEF Replaced
<1>8. HeldSum(tokens) \in Nat /\ PublicSum(tokens) \in Nat
  BY <1>0, Sums DEF PlainInv
<1>9. HeldSum(tokens') = HeldSum(tokens) /\ PublicSum(tokens') = PublicSum(tokens)
  <2>1. b \in Nat
    BY <1>1, <1>2
  <2> QED BY <1>2, <1>3, <1>4, <1>7, <1>8, <2>1
<1>10. PlainInv'
  <2>1. Plain' = Plain
    BY <1>0 DEF Advances, Plain, Loaded
  <2> QED BY <1>0, <1>7, <2>1, BatchAssumption DEF PlainInv, Advances
<1>11. SupplyInv'
  BY <1>0, <1>1, <1>9 DEF SupplyInv, Advances, HeldSum, PublicSum
<1>12. VersionInv'
  BY <1>0, <1>1, <1>3, <1>4, <1>6, VersionStep DEF Registered
<1>13. /\ Publics' = Publics
       /\ Inboxes' = Put(Inboxes, d, Inboxes[d] + b)
       /\ Spendings' = Put(Spendings, h, Spendings[h] - b)
  <2>1. /\ Publics' = Publics
        /\ Inboxes' = Put(Inboxes, d, Received(d) + b)
        /\ Spendings' = Put(Spendings, h, Paid(h) - b)
    <3>1. /\ h \in Holders /\ d \in Holders /\ d # h
          /\ tokens' = Put(Put(tokens, h, t), d, r)
      BY <1>1 DEF Put
    <3> QED BY <1>0, <1>t, <1>r, <3>1, TwoViews, Zenon
  <2> QED BY <1>0, <1>1, <2>1, ViewAt
<1>14. b \in 0..Spendings[h]
  BY <1>0, <1>1, ViewAt
<1>15. View!Transfer(h, d, b)
  BY <1>1, <1>13 DEF View!Transfer, Put
<1>16. View!TokenNext
  BY <1>1, <1>14, <1>15 DEF View!TokenNext
<1> QED BY <1>10, <1>11, <1>12, <1>16 DEF Inv

LEMMA NextInv == Inv /\ [Next]_vars => Inv'
<1> SUFFICES ASSUME Inv, [Next]_vars PROVE Inv'
    OBVIOUS
<1>0. PlainInv /\ SupplyInv /\ VersionInv
  BY DEF Inv
<1>1. ASSUME policy' = policy, tokens' = tokens, outstanding' = outstanding,
             elsewhere' = elsewhere, built' = built, bound' = bound,
             status' \in {status, "failed", "done"}
      PROVE  Inv'
  <2>1. PlainInv'
    BY <1>0, <1>1 DEF PlainInv, Plain, Loaded
  <2>2. SupplyInv' /\ VersionInv'
    BY <1>0, <1>1 DEF SupplyInv, HeldSum, PublicSum, VersionInv
  <2> QED BY <2>1, <2>2 DEF Inv
<1>2. ASSUME Fail PROVE Inv'
  BY <1>1, <1>2 DEF Fail
<1>3. ASSUME NEW o \in Operation, BuildConvert(o) PROVE Inv'
  BY <1>2, <1>3, ConvertStep DEF BuildConvert
<1>4. ASSUME NEW o \in Operation, BuildConvertBack(o) PROVE Inv'
  BY <1>2, <1>4, ConvertBackStep DEF BuildConvertBack
<1>5. ASSUME NEW o \in Operation, BuildSend(o) PROVE Inv'
  BY <1>2, <1>5, SendStep DEF BuildSend
<1>6. ASSUME NEW o \in Operation, BuildMergeInbox(o) PROVE Inv'
  BY <1>2, <1>6, MergeStep DEF BuildMergeInbox
<1>7. ASSUME NEW o \in Operation, BuildClawback(o) PROVE Inv'
  BY <1>2, <1>7, ClawbackStep DEF BuildClawback
<1>8. ASSUME BuildTransaction PROVE Inv'
  <2>1. Advances /\ UNCHANGED <<tokens, outstanding, bound>>
    BY <1>8 DEF BuildTransaction, Advance, Advances
  <2>2. PlainInv'
    BY <1>0, <2>1, BatchAssumption DEF PlainInv, Plain, Loaded, Advances
  <2>3. SupplyInv'
    BY <1>0, <2>1 DEF SupplyInv, HeldSum, PublicSum, Advances
  <2>4. VersionInv'
    BY <1>0, <2>1, VersionStep
  <2> QED BY <2>2, <2>3, <2>4 DEF Inv
<1>9. ASSUME Finish PROVE Inv'
  BY <1>1, <1>9 DEF Finish
<1>10. ASSUME UNCHANGED vars PROVE Inv'
  BY <1>1, <1>10 DEF vars
<1> QED BY <1>3, <1>4, <1>5, <1>6, <1>7, <1>8, <1>9, <1>10 DEF Next

-----------------------------------------------------------------------------
(* What the invariant says of one token.                                   *)
LEMMA TokenIs ==
    ASSUME Inv, NEW h \in Holders
    PROVE  LET t == tokens[h]
           IN  /\ t \in Plain /\ Paid(h) \in Nat /\ Received(h) \in Nat
               /\ Paid(h) + Received(h) <= outstanding /\ outstanding \in Amounts
               /\ t.public \in Amounts /\ t.version \in Version
               /\ Held(t) = Paid(h) + Received(h)
               /\ t.key = Absent => /\ t.spending = Absent /\ t.inbox = Absent
                                    /\ t.issuer = Absent /\ t.auditor = Absent
               /\ t.key # Absent =>
                     /\ t.key \in HolderKeys
                     /\ t.spending = Encrypt(Paid(h), t.key) /\ t.inbox = Encrypt(Received(h), t.key)
                     /\ t.issuer = Encrypt(Paid(h) + Received(h), IssuerKey)
                     /\ t.auditor = IF policy.audited
                                    THEN Encrypt(Paid(h) + Received(h), AuditorKey) ELSE Absent
<1> DEFINE t == tokens[h]
<1>1. PlainInv /\ SupplyInv /\ t \in Plain
  BY DEF Inv, PlainInv
<1>2. /\ Paid(h) \in Nat /\ Received(h) \in Nat /\ t.public \in Nat /\ t.version \in Version
      /\ Held(t) = Paid(h) + Received(h) /\ t.key \in HolderKeys \cup {Absent}
      /\ t = Loaded(t.key, Paid(h), Received(h), t.public, t.version)
      /\ t.key = Absent => Unused(t)
  BY <1>1, PlainFields DEF Paid, Received
<1>3. /\ Held(t) <= outstanding /\ outstanding \in Amounts
      /\ t.public + outstanding <= MaxAmount
  BY <1>1, AmountsBounded DEF Amounts
<1>4. t.public \in Amounts
  BY <1>2, <1>3, BatchAssumption DEF Amounts
<1>5. t.key = Absent => /\ t.spending = Absent /\ t.inbox = Absent
                        /\ t.issuer = Absent /\ t.auditor = Absent
  BY <1>2 DEF Unused
<1>6. t.key # Absent =>
         /\ t.key \in HolderKeys
         /\ t.spending = Encrypt(Paid(h), t.key) /\ t.inbox = Encrypt(Received(h), t.key)
         /\ t.issuer = Encrypt(Paid(h) + Received(h), IssuerKey)
         /\ t.auditor = IF policy.audited
                        THEN Encrypt(Paid(h) + Received(h), AuditorKey) ELSE Absent
  BY <1>2, LoadedFields
<1> QED BY <1>1, <1>2, <1>3, <1>4, <1>5, <1>6

-----------------------------------------------------------------------------
(* The variables keep their types: no amount leaves 0..MaxAmount, no        *)
(* version 0..VersionLimit - 1 (AmountsBounded, applyConvert and its like). *)
LEMMA InvType == Inv => TypeOK
<1> SUFFICES ASSUME Inv PROVE TypeOK
    OBVIOUS
<1>1. \A a \in Nat, k \in HolderKeys \cup {IssuerKey, AuditorKey} : Encrypt(a, k) \in Ciphertext
  BY DEF Encrypt, Ciphertext, Keys
<1>2. ASSUME NEW h \in Holders PROVE tokens[h] \in Token
  <2> DEFINE t == tokens[h]
             n == Paid(h) + Received(h)
  <2>1. /\ t \in Plain /\ Paid(h) \in Nat /\ Received(h) \in Nat /\ n \in Nat
        /\ t.public \in Amounts /\ t.version \in Version
    BY <1>2, TokenIs
  <2>2. /\ t.key \in HolderKeys \cup {Absent} /\ t.spending \in Ciphertext \cup {Absent}
        /\ t.inbox \in Ciphertext \cup {Absent} /\ t.issuer \in Ciphertext \cup {Absent}
        /\ t.auditor \in Ciphertext \cup {Absent}
    <3>1. CASE t.key = Absent
      BY <1>2, <3>1, TokenIs
    <3>2. CASE t.key # Absent
      <4>1. /\ t.key \in HolderKeys
            /\ t.spending = Encrypt(Paid(h), t.key) /\ t.inbox = Encrypt(Received(h), t.key)
            /\ t.issuer = Encrypt(n, IssuerKey)
            /\ t.auditor = IF policy.audited THEN Encrypt(n, AuditorKey) ELSE Absent
        BY <1>2, <3>2, TokenIs
      <4> HIDE DEF t, n
      <4> QED BY <1>1, <2>1, <4>1
    <3> QED BY <3>1, <3>2
  <2>3. t = [key |-> t.key, spending |-> t.spending, inbox |-> t.inbox, issuer |-> t.issuer,
             auditor |-> t.auditor, version |-> t.version, public |-> t.public]
    BY <2>1 DEF Plain, Loaded
  <2> HIDE DEF t
  <2>4. t \in Token
    BY <2>1, <2>2, <2>3 DEF Token, Version
  <2> QED BY <2>4 DEF t
<1>3. tokens \in [Holders -> Token]
  BY <1>2 DEF Inv, PlainInv
<1>4. elsewhere \in Amounts /\ outstanding \in Amounts
  <2>1. HeldSum(tokens) \in Nat /\ PublicSum(tokens) \in Nat
    BY Sums DEF Inv, PlainInv
  <2> QED BY <2>1, BatchAssumption DEF Inv, SupplyInv, Amounts
<1>5. bound \subseteq Holders \X (0..(VersionLimit - 1))
  BY DEF Inv, VersionInv, Version
<1> QED BY <1>3, <1>4, <1>5 DEF TypeOK, Inv, PlainInv

LEMMA InvMirrors == Inv => MirrorsAgree
<1> SUFFICES ASSUME Inv, NEW h \in Holders
             PROVE  LET t == tokens[h]
                    IN  IF ~Registered(t) THEN Unused(t)
                        ELSE \E s, i \in Amounts :
                                /\ t.spending = Encrypt(s, t.key)
                                /\ t.inbox = Encrypt(i, t.key)
                                /\ t.issuer = Encrypt(s + i, IssuerKey)
                                /\ t.auditor = IF policy.audited
                                               THEN Encrypt(s + i, AuditorKey) ELSE Absent
    BY DEF MirrorsAgree
<1>1. CASE tokens[h].key = Absent
  BY <1>1, TokenIs DEF Registered, Unused
<1>2. CASE tokens[h].key # Absent
  <2>1. Paid(h) \in Amounts /\ Received(h) \in Amounts
    BY TokenIs, BatchAssumption DEF Amounts
  <2> QED BY <1>2, <2>1, TokenIs DEF Registered
<1> QED BY <1>1, <1>2

LEMMA InvFresh == Inv => FreshVersions
<1> SUFFICES ASSUME Inv, NEW h \in Holders, <<h, tokens[h].version>> \in bound PROVE FALSE
    BY DEF FreshVersions
<1>1. PICK g \in Holders, w \in Version :
           /\ <<h, tokens[h].version>> = <<g, w>>
           /\ Behind(w, tokens[g].version, built)
  BY DEF Inv, VersionInv
<1>2. built \in Nat /\ built < VersionLimit
  BY BatchAssumption DEF Inv, PlainInv
<1>3. w = tokens[h].version /\ g = h
  BY <1>1
<1> QED BY <1>1, <1>2, <1>3, BehindStep

(* A valid spend finds its fields, its key and its balance.                *)
LEMMA ValidSpend ==
    ASSUME Inv, NEW o \in Operation, Valid(o), o.kind \in {"convertBack", "send"}
    PROVE  CanSpend(o) /\ o.amount <= outstanding
<1> DEFINE h == o.account
           t == tokens[h]
<1>1. /\ h \in Holders /\ o.key \in HolderKeys /\ o.amount \in Nat
      /\ o.range.low \in Nat /\ o.range.high \in Nat
  BY DEF Operation, Amounts, SearchRange
<1>2. /\ t.key = o.key /\ o.amount <= Paid(h) /\ Paid(h) \in o.range.low..o.range.high
  BY DEF Valid, Paid
<1>3. t.key # Absent /\ o.key \in Keys
  BY <1>1, <1>2, BatchAssumption DEF Keys
<1>4. /\ Paid(h) \in Nat /\ Received(h) \in Nat /\ Paid(h) + Received(h) <= outstanding
      /\ outstanding \in Amounts
  BY <1>1, TokenIs
<1>5. Paid(h) <= outstanding /\ outstanding \in Nat
  BY <1>4 DEF Amounts
<1>6. /\ t.spending = Encrypt(Paid(h), o.key)
      /\ t.issuer = Encrypt(Paid(h) + Received(h), IssuerKey)
      /\ t.auditor = IF policy.audited THEN Encrypt(Paid(h) + Received(h), AuditorKey) ELSE Absent
  BY <1>1, <1>2, <1>3, TokenIs
<1>7. t.spending # Absent /\ t.issuer # Absent /\ (policy.audited => t.auditor # Absent)
  <2>1. /\ Paid(h) + Received(h) \in Int /\ Paid(h) \in Int
        /\ IssuerKey \in Keys /\ AuditorKey \in Keys
    BY <1>4 DEF Keys
  <2>2. /\ Encrypt(Paid(h), o.key) # Absent
        /\ Encrypt(Paid(h) + Received(h), IssuerKey) # Absent
        /\ Encrypt(Paid(h) + Received(h), AuditorKey) # Absent
    BY <1>3, <2>1, Ciphertexts
  <2> HIDE DEF t, h
  <2> QED BY <1>6, <2>2
<1>8. Spendable(t, o.key)
  BY <1>2, <1>7 DEF Spendable
<1>9. t.spending.key = o.key /\ t.spending.amount = Paid(h)
  BY <1>6 DEF Encrypt
<1>10. Decrypts(t.spending, o.key, o.range)
  <2> HIDE DEF t, h
  <2> QED BY <1>1, <1>2, <1>4, <1>5, <1>9 DEF Decrypts
<1> QED BY <1>1, <1>2, <1>4, <1>5, <1>8, <1>9, <1>10 DEF CanSpend

LEMMA InvRejects == Inv => RejectsOnlyInvalid
<1> SUFFICES ASSUME Inv, NEW o \in Operation, Valid(o) PROVE Buildable(o)
    BY DEF RejectsOnlyInvalid
<1>0. \A a \in Nat, k \in Keys : Encrypt(a, k) # Absent
  BY Ciphertexts
<1>1. CASE o.kind = "convert"
  BY <1>1 DEF Valid, Buildable
<1>2. CASE o.kind = "merge"
  <2>1. o.account \in Holders /\ Registered(tokens[o.account])
    BY <1>2 DEF Valid, Operation
  <2>2. /\ tokens[o.account].key \in HolderKeys /\ Paid(o.account) \in Nat
        /\ Received(o.account) \in Nat
        /\ tokens[o.account].spending = Encrypt(Paid(o.account), tokens[o.account].key)
        /\ tokens[o.account].inbox = Encrypt(Received(o.account), tokens[o.account].key)
    BY <2>1, TokenIs DEF Registered
  <2>3. CanMerge(o)
    BY <1>0, <2>1, <2>2 DEF CanMerge, Registered, Keys
  <2> QED BY <1>2, <2>3 DEF Buildable
<1>3. CASE o.kind = "convertBack"
  BY <1>3, ValidSpend DEF Buildable, CanConvertBack
<1>4. CASE o.kind = "send"
  <2> DEFINE d == o.destination
             n == Paid(d) + Received(d)
  <2>1. d \in Holders /\ policy.transferable /\ Registered(tokens[d])
    BY <1>4 DEF Valid, Operation
  <2>2. /\ tokens[d].key \in HolderKeys /\ n \in Nat /\ Received(d) \in Nat
        /\ tokens[d].inbox = Encrypt(Received(d), tokens[d].key)
        /\ tokens[d].issuer = Encrypt(n, IssuerKey)
        /\ tokens[d].auditor = IF policy.audited THEN Encrypt(n, AuditorKey) ELSE Absent
    BY <2>1, TokenIs DEF Registered
  <2> HIDE DEF n
  <2>3. Receivable(tokens[d])
    BY <1>0, <2>1, <2>2 DEF Receivable, Registered, Keys
  <2> QED BY <1>4, <2>1, <2>3, ValidSpend DEF Buildable, CanSend
<1>5. CASE o.kind = "clawback"
  <2> DEFINE h == o.holder
             n == Paid(h) + Received(h)
             t == tokens[h]
  <2>1. /\ h \in Holders /\ policy.clawable
        /\ o.range.low \in Nat /\ o.range.high \in Nat
        /\ Held(t) \in o.range.low..o.range.high /\ Held(t) # 0
    BY <1>5 DEF Valid, Operation, Amounts, SearchRange
  <2>2. n \in Nat /\ Held(t) = n /\ n <= outstanding /\ outstanding \in Nat
    BY <2>1, TokenIs DEF Amounts
  <2>3. t.issuer # Absent
    BY <2>1 DEF Held
  <2>4. t.key # Absent /\ t.issuer = Encrypt(n, IssuerKey)
    BY <2>1, <2>3, TokenIs
  <2>5. t.issuer.key = IssuerKey /\ t.issuer.amount = n
    BY <2>4 DEF Encrypt
  <2> HIDE DEF n, t
  <2>6. Decrypts(t.issuer, IssuerKey, o.range) /\ t.issuer.amount > 0
    BY <2>1, <2>2, <2>5 DEF Decrypts
  <2>7. CanClawback(o)
    BY <2>1, <2>3, <2>4, <2>6 DEF CanClawback, t
  <2> QED BY <1>5, <2>7 DEF Buildable
<1> QED BY <1>1, <1>2, <1>3, <1>4, <1>5 DEF Valid

-----------------------------------------------------------------------------
LEMMA Invariant == Spec => []Inv
BY InitInv, NextInv, PTL DEF Spec

(* The state of a batch keeps its types: however the operations follow one   *)
(* another, no amount leaves 0..MaxAmount and no version wraps past its      *)
(* width (creditPublic, creditOutstanding and nextVersion of batch_state.go). *)
THEOREM TypeCorrect == Spec => []TypeOK
BY Invariant, InvType, PTL

(* After any operations, every token's balances are encrypted under its own   *)
(* key, none is negative, and both mirrors hold their sum (applySpend,        *)
(* applyCredit, applyMerge and applyClawback).                               *)
THEOREM MirrorsAlwaysAgree == Spec => []MirrorsAgree
BY Invariant, InvMirrors, PTL

(* BuildBatch refuses no operation that is valid where it stands: every field  *)
(* it needs is in the predicted state, and narrowing the search range to the *)
(* confidential supply hides no balance (decryptPredictedBalance).           *)
THEOREM OnlyInvalidRejected == Spec => []RejectsOnlyInvalid
BY Invariant, InvRejects, PTL

(* No version a proof of the batch has bound comes back, even where versions  *)
(* wrap at their width (nextVersion).                                        *)
THEOREM VersionsFresh == Spec => []FreshVersions
BY Invariant, InvFresh, PTL

(* In plain amounts, whatever a batch does is a run of deposits, withdrawals, *)
(* transfers, merges and burns: no other amount moves, none is created, and  *)
(* none is lost to the caps of creditPublic and creditOutstanding.           *)
THEOREM BatchImplementsToken == Spec => ImplementsToken
<1>1. Init => View!TokenInit
  <2> SUFFICES ASSUME Init PROVE View!TokenInit
      OBVIOUS
  <2>1. PlainInv /\ SupplyInv
    BY InitInv DEF Inv
  <2>2. HeldSum(tokens) \in Nat
    BY <2>1, Sums DEF PlainInv
  <2>3. outstanding \in Nat
    BY <2>1, <2>2 DEF SupplyInv
  <2> QED BY <2>1, <2>3, PlainView DEF View!TokenInit, View!Balances
<1>2. Inv /\ [Next]_vars => [View!TokenNext]_(View!tokenVars)
  <2> SUFFICES ASSUME Inv, [Next]_vars PROVE [View!TokenNext]_(View!tokenVars)
      OBVIOUS
  <2>1. ASSUME tokens' = tokens, outstanding' = outstanding PROVE UNCHANGED View!tokenVars
    BY <2>1 DEF View!tokenVars, Publics, Inboxes, Spendings
  <2>2. ASSUME Fail PROVE UNCHANGED View!tokenVars
    BY <2>1, <2>2 DEF Fail
  <2>3. ASSUME NEW o \in Operation, BuildConvert(o) PROVE [View!TokenNext]_(View!tokenVars)
    BY <2>2, <2>3, ConvertStep DEF BuildConvert
  <2>4. ASSUME NEW o \in Operation, BuildConvertBack(o) PROVE [View!TokenNext]_(View!tokenVars)
    BY <2>2, <2>4, ConvertBackStep DEF BuildConvertBack
  <2>5. ASSUME NEW o \in Operation, BuildSend(o) PROVE [View!TokenNext]_(View!tokenVars)
    BY <2>2, <2>5, SendStep DEF BuildSend
  <2>6. ASSUME NEW o \in Operation, BuildMergeInbox(o) PROVE [View!TokenNext]_(View!tokenVars)
    BY <2>2, <2>6, MergeStep DEF BuildMergeInbox
  <2>7. ASSUME NEW o \in Operation, BuildClawback(o) PROVE [View!TokenNext]_(View!tokenVars)
    BY <2>2, <2>7, ClawbackStep DEF BuildClawback
  <2>8. ASSUME BuildTransaction \/ Finish \/ UNCHANGED vars
        PROVE  UNCHANGED View!tokenVars
    BY <2>1, <2>8 DEF BuildTransaction, Finish, vars
  <2> QED BY <2>3, <2>4, <2>5, <2>6, <2>7, <2>8 DEF Next
<1> QED BY <1>1, <1>2, Invariant, PTL DEF Spec, ImplementsToken, View!TokenSpec
=============================================================================
