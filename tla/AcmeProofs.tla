----------------------------- MODULE AcmeProofs -----------------------------
(***************************************************************************)
(* What holds of the ACME manager for any lifetimes and any number of      *)
(* certificates and restarts.                                              *)
(***************************************************************************)
EXTENDS Acme, SequenceTheorems, FiniteSetTheorems, TLAPS

-----------------------------------------------------------------------------
(* The challenge store.                                                    *)

\* No value twice under the name.
Distinct(values) == \A i, j \in DOMAIN values : values[i] = values[j] => i = j

\* ChallengeStore.Set adds a value that was not there.
LEMMA SetOnce ==
  ASSUME NEW values \in Seq(Auths), NEW v \in Auths,
         Distinct(values), ~Contains(values, v)
  PROVE  /\ Set(values, v) \in Seq(Auths) /\ Distinct(Set(values, v))
         /\ \A x \in Auths : Contains(Set(values, v), x)
                               <=> x = v \/ Contains(values, x)
<1> DEFINE n == Len(values)
           u == Append(values, v)
<1>1. /\ n \in Nat /\ DOMAIN values = 1..n /\ u \in Seq(Auths)
      /\ Len(u) = n + 1 /\ DOMAIN u = 1..(n + 1) /\ u[n + 1] = v
      /\ \A i \in 1..n : u[i] = values[i]
  OBVIOUS
<1>2. \A i \in 1..n : values[i] # v
  BY DEF Contains
<1> HIDE DEF u
<1>3. Distinct(u)
  <2> SUFFICES ASSUME NEW i \in 1..(n + 1), NEW j \in 1..(n + 1), u[i] = u[j]
               PROVE  i = j
    BY <1>1 DEF Distinct
  <2>1. CASE i \in 1..n /\ j \in 1..n
    <3>1. values[i] = values[j]
      BY <1>1, <2>1
    <3>. QED  BY <1>1, <2>1, <3>1 DEF Distinct
  <2>2. CASE i = n + 1 /\ j \in 1..n
    BY <1>1, <1>2, <2>2
  <2>3. CASE i \in 1..n /\ j = n + 1
    BY <1>1, <1>2, <2>3
  <2>. QED  BY <1>1, <2>1, <2>2, <2>3
<1>4. ASSUME NEW x \in Auths
      PROVE  Contains(u, x) <=> x = v \/ Contains(values, x)
  <2>1. ASSUME Contains(u, x)  PROVE x = v \/ Contains(values, x)
    <3>1. PICK i \in 1..(n + 1) : u[i] = x
      BY <1>1, <2>1 DEF Contains
    <3>2. CASE i \in 1..n
      BY <1>1, <3>1, <3>2 DEF Contains
    <3>3. CASE i = n + 1
      BY <1>1, <3>1, <3>3
    <3>. QED  BY <1>1, <3>2, <3>3
  <2>2. ASSUME x = v  PROVE Contains(u, x)
    <3>1. n + 1 \in 1..Len(u)
      BY <1>1
    <3>. QED  BY <1>1, <2>2, <3>1 DEF Contains
  <2>3. ASSUME Contains(values, x)  PROVE Contains(u, x)
    <3>1. PICK i \in 1..n : values[i] = x
      BY <2>3 DEF Contains
    <3>2. i \in 1..Len(u) /\ u[i] = x
      BY <1>1, <3>1
    <3>. QED  BY <3>2 DEF Contains
  <2>. QED  BY <2>1, <2>2, <2>3
<1>. QED  BY <1>1, <1>3, <1>4 DEF u, Set

\* ChallengeStore.Delete takes a value away that was there once.
LEMMA DeleteOnce ==
  ASSUME NEW values \in Seq(Auths), NEW v \in Auths,
         Distinct(values), Contains(values, v)
  PROVE  /\ Delete(values, v) \in Seq(Auths) /\ Distinct(Delete(values, v))
         /\ \A x \in Auths : Contains(Delete(values, v), x)
                               <=> x # v /\ Contains(values, x)
<1>1. PICK p \in 1..Len(values) : values[p] = v
  BY DEF Contains
<1>2. PICK n \in Nat : n = Len(values) /\ DOMAIN values = 1..n
  OBVIOUS
<1>3. {i \in 1..Len(values) : values[i] = v} = {p}
  BY <1>1, <1>2 DEF Distinct
<1>4. SelectInSeq(values, LAMBDA x : x = v) = p
  <2>1. Min({p}) = p
    BY <1>1 DEF Min
  <2>2. SelectInSeq(values, LAMBDA x : x = v)
          = IF {i \in 1..Len(values) : values[i] = v} # {}
            THEN Min({i \in 1..Len(values) : values[i] = v}) ELSE 0
    BY DEF SelectInSeq
  <2>. QED  BY <1>3, <2>1, <2>2
<1>5. PICK r : r = SubSeq(values, 1, p - 1) \o SubSeq(values, p + 1, n)
  OBVIOUS
<1>6. Delete(values, v) = r
  BY <1>1, <1>2, <1>4, <1>5 DEF Delete, RemoveFirst, RemoveAt
<1>7. /\ r \in Seq(Auths) /\ Len(r) = n - 1 /\ DOMAIN r = 1..(n - 1)
      /\ \A i \in 1..(p - 1) : r[i] = values[i]
      /\ \A i \in p..(n - 1) : r[i] = values[i + 1]
  <2>1. PICK a : a = SubSeq(values, 1, p - 1)
    OBVIOUS
  <2>2. PICK b : b = SubSeq(values, p + 1, n)
    OBVIOUS
  <2>3. a \in Seq(Auths) /\ Len(a) = p - 1 /\ \A i \in 1..(p - 1) : a[i] = values[i]
    BY <1>1, <1>2, <2>1
  <2>4. b \in Seq(Auths) /\ Len(b) = n - p /\ \A i \in 1..(n - p) : b[i] = values[p + i]
    BY <1>1, <1>2, <2>2
  <2>5. r = a \o b
    BY <1>5, <2>1, <2>2
  <2>6. r \in Seq(Auths) /\ Len(r) = n - 1 /\ DOMAIN r = 1..(n - 1)
    BY <1>1, <1>2, <2>3, <2>4, <2>5
  <2>7. \A i \in 1..(p - 1) : r[i] = values[i]
    BY <1>1, <1>2, <2>3, <2>4, <2>5
  <2>8. ASSUME NEW i \in p..(n - 1)  PROVE r[i] = values[i + 1]
    <3>1. i - (p - 1) \in 1..(n - p) /\ p + (i - (p - 1)) = i + 1
      BY <1>1, <1>2
    <3>2. r[i] = b[i - (p - 1)]
      BY <1>1, <1>2, <2>3, <2>4, <2>5
    <3>3. b[i - (p - 1)] = values[p + (i - (p - 1))]
      BY <2>4, <3>1
    <3>. QED  BY <3>1, <3>2, <3>3
  <2>. QED  BY <2>6, <2>7, <2>8
<1>8. Distinct(r)
  <2> SUFFICES ASSUME NEW i \in 1..(n - 1), NEW j \in 1..(n - 1), r[i] = r[j]
               PROVE  i = j
    BY <1>7 DEF Distinct
  <2>1. ASSUME NEW x \in 1..(n - 1)
        PROVE  \/ x < p /\ r[x] = values[x] /\ x \in 1..n
               \/ p <= x /\ r[x] = values[x + 1] /\ x + 1 \in 1..n
    <3>1. CASE x < p
      BY <1>1, <1>2, <1>7, <3>1
    <3>2. CASE ~(x < p)
      BY <1>1, <1>2, <1>7, <3>2
    <3>. QED  BY <3>1, <3>2
  <2>2. \A x, y \in 1..n : values[x] = values[y] => x = y
    BY <1>2 DEF Distinct
  <2>3. CASE i < p /\ j < p
    <3>1. i \in 1..n /\ j \in 1..n /\ values[i] = values[j]
      BY <1>1, <2>1, <2>3
    <3>. QED  BY <2>2, <3>1
  <2>4. CASE i < p /\ p <= j
    <3>1. i \in 1..n /\ j + 1 \in 1..n /\ values[i] = values[j + 1]
      BY <1>1, <2>1, <2>4
    <3>2. i = j + 1
      BY <2>2, <3>1
    <3>. QED  BY <1>1, <2>4, <3>2
  <2>5. CASE p <= i /\ j < p
    <3>1. i + 1 \in 1..n /\ j \in 1..n /\ values[i + 1] = values[j]
      BY <1>1, <2>1, <2>5
    <3>2. i + 1 = j
      BY <2>2, <3>1
    <3>. QED  BY <1>1, <2>5, <3>2
  <2>6. CASE p <= i /\ p <= j
    <3>1. i + 1 \in 1..n /\ j + 1 \in 1..n /\ values[i + 1] = values[j + 1]
      BY <1>1, <2>1, <2>6
    <3>2. i + 1 = j + 1
      BY <2>2, <3>1
    <3>. QED  BY <3>2
  <2>. QED  BY <1>1, <2>3, <2>4, <2>5, <2>6
<1>9. ASSUME NEW x \in Auths
      PROVE  Contains(r, x) <=> x # v /\ Contains(values, x)
  <2>1. ASSUME Contains(r, x)  PROVE x # v /\ Contains(values, x)
    <3>1. PICK i \in 1..(n - 1) : r[i] = x
      BY <1>7, <2>1 DEF Contains
    <3>2. PICK j \in 1..n : j # p /\ values[j] = x
      <4>1. CASE i < p
        BY <1>1, <1>2, <1>7, <3>1, <4>1
      <4>2. CASE ~(i < p)
        BY <1>1, <1>2, <1>7, <3>1, <4>2
      <4>. QED  BY <4>1, <4>2
    <3>. QED  BY <1>1, <1>2, <3>2 DEF Distinct, Contains
  <2>2. ASSUME x # v, Contains(values, x)  PROVE Contains(r, x)
    <3>1. PICK j \in 1..n : values[j] = x
      BY <1>2, <2>2 DEF Contains
    <3>2. PICK i \in 1..(n - 1) : r[i] = x
      <4>1. CASE j < p
        BY <1>1, <1>2, <1>7, <3>1, <4>1
      <4>2. CASE j > p
        <5>1. j - 1 \in p..(n - 1) /\ j - 1 \in 1..(n - 1) /\ (j - 1) + 1 = j
          BY <1>1, <1>2, <4>2
        <5>2. r[j - 1] = x
          BY <1>7, <3>1, <5>1
        <5>. QED  BY <5>1, <5>2
      <4>3. j # p
        BY <1>1, <2>2, <3>1
      <4>. QED  BY <1>1, <1>2, <4>1, <4>2, <4>3
    <3>. QED  BY <1>7, <3>2 DEF Contains
  <2>. QED  BY <2>1, <2>2
<1>. QED  BY <1>6, <1>7, <1>8, <1>9
-----------------------------------------------------------------------------
(* Type correctness, and the tokens that the DNS server answers with.      *)

\* The store has each awaited token once and no other.
StoreInvariant ==
  /\ Distinct(txt)
  /\ \A a \in Auths : Contains(txt, a) <=> auth[a] \in Awaiting

LEMMA CertType ==
  ASSUME NEW c \in Cert
  PROVE  /\ c = [serial |-> c.serial, left |-> c.left]
         /\ c.serial \in Serials /\ c.left \in Nat
         /\ Aged(c) \in Cert /\ Aged(c).serial = c.serial
         /\ Aged(c).left = IF c.left > 0 THEN c.left - 1 ELSE 0
<1>1. c.serial \in Serials /\ c.left \in Nat /\ c = [serial |-> c.serial, left |-> c.left]
  BY DEF Cert
<1>2. Aged(c) = [serial |-> c.serial, left |-> IF c.left > 0 THEN c.left - 1 ELSE 0]
  BY <1>1 DEF Aged
<1>3. (IF c.left > 0 THEN c.left - 1 ELSE 0) \in Nat
  BY <1>1
<1>. QED  BY <1>1, <1>2, <1>3 DEF Cert

LEMMA ConstantCerts ==
  /\ NoCert \in Cert /\ SelfSigned \in Cert
  /\ NoCert.serial = 0 /\ SelfSigned.serial = 0
BY AcmeAssumption DEF NoCert, SelfSigned, Cert, Serials

LEMMA FailsType ==
  ASSUME TypeOK, Fails
  PROVE  pc' = "wait" /\ failures' \in 0..RenewBefore
BY AcmeAssumption DEF TypeOK, Fails

\* A step of one authorization.
LEMMA SolveStep ==
  ASSUME TypeOK, StoreInvariant, NEW a \in Auths,
         Present(a) \/ Validate(a) \/ CleanUp(a)
  PROVE  /\ auth' \in [Auths -> AuthState] /\ txt' \in Seq(Auths)
         /\ StoreInvariant'
<1>0. txt \in Seq(Auths) /\ auth \in [Auths -> AuthState]
  BY DEF TypeOK
<1>1. CASE Present(a)
  <2>1. auth[a] = "new" /\ txt' = Set(txt, a)
        /\ auth' = [auth EXCEPT ![a] = "presented"]
    BY <1>1 DEF Present
  <2>2. /\ auth' \in [Auths -> AuthState] /\ auth'[a] = "presented"
        /\ \A b \in Auths \ {a} : auth'[b] = auth[b]
    BY <1>0, <2>1 DEF AuthState, Awaiting
  <2>3. ~Contains(txt, a)
    BY <2>1 DEF StoreInvariant, Awaiting
  <2>4. /\ txt' \in Seq(Auths) /\ Distinct(txt')
        /\ \A x \in Auths : Contains(txt', x) <=> x = a \/ Contains(txt, x)
    BY <1>0, <2>1, <2>3, SetOnce DEF StoreInvariant
  <2>5. \A x \in Auths : Contains(txt', x) <=> auth'[x] \in Awaiting
    BY <2>2, <2>4 DEF StoreInvariant, Awaiting
  <2>. QED  BY <2>2, <2>4, <2>5 DEF StoreInvariant, Awaiting
<1>2. CASE Validate(a)
  <2>1. PICK outcome \in {"valid", "invalid"} :
          auth[a] = "presented" /\ auth' = [auth EXCEPT ![a] = outcome] /\ txt' = txt
    BY <1>2 DEF Validate
  <2>2. /\ auth' \in [Auths -> AuthState] /\ auth'[a] = outcome
        /\ \A b \in Auths \ {a} : auth'[b] = auth[b]
    BY <1>0, <2>1 DEF AuthState, Awaiting
  <2>3. \A x \in Auths : auth'[x] \in Awaiting <=> auth[x] \in Awaiting
    BY <2>1, <2>2 DEF Awaiting
  <2>. QED  BY <1>0, <2>1, <2>2, <2>3 DEF StoreInvariant, Awaiting
<1>3. CASE CleanUp(a)
  <2>1. PICK done \in {"won", "lost"} :
          /\ auth[a] \in {"valid", "invalid"} /\ txt' = Delete(txt, a)
          /\ auth' = [auth EXCEPT ![a] = done]
    BY <1>3 DEF CleanUp
  <2>2. /\ auth' \in [Auths -> AuthState] /\ auth'[a] = done
        /\ \A b \in Auths \ {a} : auth'[b] = auth[b]
    BY <1>0, <2>1 DEF AuthState, Awaiting
  <2>3. Contains(txt, a)
    BY <2>1 DEF StoreInvariant, Awaiting
  <2>4. /\ txt' \in Seq(Auths) /\ Distinct(txt')
        /\ \A x \in Auths : Contains(txt', x) <=> x # a /\ Contains(txt, x)
    BY <1>0, <2>1, <2>3, DeleteOnce DEF StoreInvariant
  <2>5. \A x \in Auths : Contains(txt', x) <=> auth'[x] \in Awaiting
    BY <2>2, <2>4 DEF StoreInvariant, Awaiting
  <2>. QED  BY <2>2, <2>4, <2>5 DEF StoreInvariant, Awaiting
<1>. QED  BY <1>1, <1>2, <1>3

\* The other steps that end or begin an order find no token awaited.
LEMMA StoreStep ==
  ASSUME TypeOK, StoreInvariant, [Next]_vars
  PROVE  /\ auth' \in [Auths -> AuthState] /\ txt' \in Seq(Auths)
         /\ StoreInvariant'
<1>0. txt \in Seq(Auths) /\ auth \in [Auths -> AuthState]
  BY DEF TypeOK
<1>1. ASSUME NEW a \in Auths, Present(a) \/ Validate(a) \/ CleanUp(a)
      PROVE  /\ auth' \in [Auths -> AuthState] /\ txt' \in Seq(Auths)
             /\ StoreInvariant'
  BY <1>1, SolveStep
<1>2. CASE End
  <2>1. auth' = NoAuth /\ txt' = <<>>
    BY <1>2 DEF End
  <2>2. auth' \in [Auths -> AuthState] /\ \A a \in Auths : auth'[a] = "new"
    BY <2>1 DEF NoAuth, AuthState
  <2>3. Distinct(txt') /\ \A a \in Auths : ~Contains(txt', a)
    BY <2>1 DEF Distinct, Contains
  <2>. QED  BY <2>1, <2>2, <2>3 DEF StoreInvariant, Awaiting
<1>3. CASE Issue \/ ObtainFails
  <2>1. auth' = NoAuth /\ txt' = txt /\ \A a \in Auths : auth[a] \notin Awaiting
    BY <1>3 DEF Issue, ObtainFails, Awaiting
  <2>2. auth' \in [Auths -> AuthState] /\ \A a \in Auths : auth'[a] = "new"
    BY <2>1 DEF NoAuth, AuthState
  <2>. QED  BY <1>0, <2>1, <2>2 DEF StoreInvariant, Awaiting
<1>4. CASE UNCHANGED orderVars
  BY <1>0, <1>4 DEF orderVars, StoreInvariant
<1>5. CASE \/ Start \/ Tick \/ DayWhileDown \/ Load \/ LoadUser \/ LoadUserFails
           \/ CreateUser \/ CreateUserWrites \/ Register \/ SaveUser
  <2>1. UNCHANGED orderVars
    BY <1>5 DEF Start, Tick, DayWhileDown, Load, LoadUser, LoadUserFails,
                CreateUser, CreateUserWrites, Register, SaveUser
  <2>. QED  BY <1>4, <2>1
<1>6. CASE \/ CertOpen \/ CertWritten \/ KeyOpen \/ KeyWritten \/ WriteFails
           \/ Install \/ UNCHANGED vars
  <2>1. UNCHANGED orderVars
    BY <1>6 DEF CertOpen, CertWritten, KeyOpen, KeyWritten, WriteFails, Install,
                vars
  <2>. QED  BY <1>4, <2>1
<1>. QED  BY <1>1, <1>2, <1>3, <1>5, <1>6 DEF Next

LEMMA NextTypeOK == TypeOK /\ StoreInvariant /\ [Next]_vars => TypeOK'
<1> SUFFICES ASSUME TypeOK, StoreInvariant, [Next]_vars  PROVE TypeOK'
  OBVIOUS
<1>0. auth' \in [Auths -> AuthState] /\ txt' \in Seq(Auths)
  BY StoreStep
<1> USE DEF processVars, fileVars
<1>1. CASE Start
  <2>1. up' \in BOOLEAN
    BY <1>1, Zenon DEF Start
  <2>. QED  BY <1>0, <1>1, <2>1, ConstantCerts DEF Start, TypeOK, RunPC
<1>2. CASE End
  <2>1. up' \in BOOLEAN
    BY <1>2, Zenon DEF End
  <2>2. ends' \in 0..MaxEnds /\ failures' \in 0..RenewBefore
    BY <1>2, AcmeAssumption DEF End, TypeOK
  <2>. QED  BY <1>0, <1>2, <2>1, <2>2, ConstantCerts DEF End, TypeOK, RunPC
<1>3. CASE Tick
  <2>1. cert' \in Cert /\ certFile' \in Cert /\ pc' \in RunPC
    BY <1>3, CertType DEF Tick, TypeOK, RunPC
  <2>. QED  BY <1>0, <1>3, <2>1 DEF Tick, TypeOK
<1>4. CASE DayWhileDown
  <2>1. certFile' \in Cert
    BY <1>4, CertType DEF DayWhileDown, TypeOK
  <2>. QED  BY <1>0, <1>4, <2>1 DEF DayWhileDown, TypeOK
<1>5. CASE Load \/ LoadUser
  BY <1>0, <1>5 DEF Load, LoadUser, TypeOK, RunPC
<1>6. CASE LoadUserFails \/ ObtainFails
  <2>1. pc' \in RunPC /\ failures' \in 0..RenewBefore
    BY <1>6, FailsType DEF LoadUserFails, ObtainFails, RunPC
  <2>. QED  BY <1>0, <1>6, <2>1 DEF LoadUserFails, ObtainFails, TypeOK
<1>7. CASE CreateUser \/ CreateUserWrites
  BY <1>0, <1>7 DEF CreateUser, CreateUserWrites, TypeOK, RunPC, File
<1>8. CASE Register \/ SaveUser
  BY <1>0, <1>8 DEF Register, SaveUser, TypeOK, RunPC, File
<1>9. ASSUME NEW a \in Auths, Present(a) \/ Validate(a) \/ CleanUp(a)
      PROVE  TypeOK'
  BY <1>0, <1>9 DEF Present, Validate, CleanUp, TypeOK
<1>10. CASE Issue
  <2>1. issued' \in Serials /\ order' \in Cert
    BY <1>10, AcmeAssumption DEF Issue, TypeOK, Serials, Cert
  <2>. QED  BY <1>0, <1>10, <2>1 DEF Issue, TypeOK, RunPC
<1>11. CASE CertOpen \/ CertWritten
  BY <1>0, <1>11, ConstantCerts DEF CertOpen, CertWritten, TypeOK, RunPC
<1>12. CASE KeyOpen \/ KeyWritten
  <2>1. keyFile' \in Serials
    BY <1>12, CertType, AcmeAssumption DEF KeyOpen, KeyWritten, TypeOK, Serials
  <2>. QED  BY <1>0, <1>12, <2>1 DEF KeyOpen, KeyWritten, TypeOK, RunPC
<1>13. CASE WriteFails
  <2>1. pc' \in RunPC /\ failures' \in 0..RenewBefore
    BY <1>13, FailsType DEF WriteFails, RunPC
  <2>. QED  BY <1>0, <1>13, <2>1, ConstantCerts DEF WriteFails, TypeOK
<1>14. CASE Install
  <2>1. failures' \in 0..RenewBefore
    BY <1>14, AcmeAssumption DEF Install
  <2>. QED  BY <1>0, <1>14, <2>1, ConstantCerts DEF Install, TypeOK, RunPC
<1>15. CASE UNCHANGED vars
  BY <1>0, <1>15 DEF vars, TypeOK
<1>. QED
  BY <1>1, <1>2, <1>3, <1>4, <1>5, <1>6, <1>7, <1>8, <1>9, <1>10, <1>11, <1>12,
     <1>13, <1>14, <1>15 DEF Next

LEMMA StoreCorrect == Spec => [](TypeOK /\ StoreInvariant)
<1>1. Init => TypeOK /\ StoreInvariant
  <2> SUFFICES ASSUME Init  PROVE TypeOK /\ StoreInvariant
    OBVIOUS
  <2>1. up \in BOOLEAN
    BY Zenon DEF Init
  <2>2. ends \in 0..MaxEnds /\ issued \in Serials /\ keyFile \in Serials
        /\ failures \in 0..RenewBefore /\ pc \in RunPC
        /\ accountKey \in File /\ accountJSON \in File
    BY AcmeAssumption DEF Init, Serials, RunPC, File
  <2>3. auth \in [Auths -> AuthState] /\ \A a \in Auths : auth[a] = "new"
    BY DEF Init, NoAuth, AuthState
  <2>4. txt = <<>> /\ txt \in Seq(Auths)
    BY DEF Init
  <2>5. TypeOK
    BY <2>1, <2>2, <2>3, <2>4, ConstantCerts DEF Init, TypeOK
  <2>6. Distinct(txt) /\ \A a \in Auths : ~Contains(txt, a)
    BY <2>4 DEF Distinct, Contains
  <2>. QED  BY <2>3, <2>5, <2>6 DEF StoreInvariant, Awaiting
<1>2. TypeOK /\ StoreInvariant /\ [Next]_vars => StoreInvariant'
  BY StoreStep
<1>. QED  BY <1>1, <1>2, NextTypeOK, PTL DEF Spec

\* The manager's state is what its types say, over every failure and restart.
THEOREM TypeCorrect == Spec => []TypeOK
BY StoreCorrect, PTL

\* The DNS server answers with exactly the tokens that the CA may ask about.
THEOREM TokensExact == Spec => []ChallengesExact
<1>1. TypeOK /\ StoreInvariant => ChallengesExact
  <2> SUFFICES ASSUME TypeOK, StoreInvariant, NEW a \in Auths
               PROVE  Cardinality({i \in DOMAIN txt : txt[i] = a})
                        = IF auth[a] \in Awaiting THEN 1 ELSE 0
    BY DEF ChallengesExact
  <2>0. DOMAIN txt = 1..Len(txt)
    BY DEF TypeOK
  <2>1. CASE auth[a] \in Awaiting
    <3>1. PICK p \in DOMAIN txt : txt[p] = a
      BY <2>0, <2>1 DEF StoreInvariant, Contains
    <3>2. {i \in DOMAIN txt : txt[i] = a} = {p}
      BY <3>1 DEF StoreInvariant, Distinct
    <3>3. Cardinality({p}) = 1
      BY FS_Singleton
    <3>. QED  BY <2>1, <3>2, <3>3
  <2>2. CASE auth[a] \notin Awaiting
    <3>1. {i \in DOMAIN txt : txt[i] = a} = {}
      BY <2>0, <2>2 DEF StoreInvariant, Contains
    <3>2. Cardinality({}) = 0
      BY FS_EmptySet
    <3>. QED  BY <2>2, <3>1, <3>2
  <2>. QED  BY <2>1, <2>2
<1>. QED  BY <1>1, StoreCorrect, PTL

\* No step overwrites a whole account key.
THEOREM AccountKeySafe == Spec => AccountKeyKept
<1>1. [Next]_vars => [accountKey = "whole" => accountKey' = "whole"]_vars
  <2> SUFFICES ASSUME Next, accountKey = "whole"  PROVE accountKey' = "whole"
    BY DEF vars
  <2> USE DEF fileVars
  <2>1. CASE \/ Start \/ End \/ Tick \/ DayWhileDown \/ Load \/ LoadUser
             \/ LoadUserFails \/ Register \/ SaveUser \/ Issue \/ ObtainFails
    BY <2>1 DEF Start, End, Tick, DayWhileDown, Load, LoadUser, LoadUserFails,
                Register, SaveUser, Issue, ObtainFails
  <2>2. CASE \/ CertOpen \/ CertWritten \/ KeyOpen \/ KeyWritten \/ WriteFails
             \/ Install
    BY <2>2 DEF CertOpen, CertWritten, KeyOpen, KeyWritten, WriteFails, Install
  <2>3. CASE CreateUser \/ CreateUserWrites
    BY <2>3 DEF CreateUser, CreateUserWrites
  <2>4. ASSUME NEW a \in Auths, Present(a) \/ Validate(a) \/ CleanUp(a)
        PROVE  accountKey' = "whole"
    BY <2>4 DEF Present, Validate, CleanUp
  <2>. QED  BY <2>1, <2>2, <2>3, <2>4 DEF Next
<1>. QED  BY <1>1, PTL DEF Spec, AccountKeyKept
-----------------------------------------------------------------------------
(* Renewal.                                                                *)

\* An order is open from its issue until it is installed or given up.
Ordered == pc \in {"cert", "certOpen", "key", "keyOpen", "install"}

\* Where Run is, what it holds and what it has written of it.
FilesFollow ==
  /\ up <=> pc # "off"
  /\ pc \in {"off", "load"} => cert.serial = 0
  /\ Ordered => order.serial # 0 /\ order.left = Lifetime
  /\ pc \in {"key", "keyOpen", "install"} => certFile = order
  /\ pc = "install" => keyFile = order.serial

\* Each day that takes from the last RenewBefore days of a certificate has had
\* its attempt, which failed; today's may be under way.
DaysAccounted ==
  cert.serial # 0 =>
    IF pc = "wait" THEN failures + cert.left >= RenewBefore
    ELSE cert.left < RenewBefore /\ failures + cert.left + 1 >= RenewBefore

RenewalInvariant == FilesFollow /\ DaysAccounted /\ RestartFindsServed

LEMMA RenewalStep == TypeOK /\ RenewalInvariant /\ [Next]_vars => RenewalInvariant'
<1> SUFFICES ASSUME TypeOK, RenewalInvariant, [Next]_vars  PROVE RenewalInvariant'
  OBVIOUS
<1>0. /\ RenewBefore \in Nat /\ Lifetime \in Nat /\ Lifetime > RenewBefore
      /\ failures \in 0..RenewBefore /\ cert.left \in Nat /\ certFile.left \in Nat
      /\ cert \in Cert /\ certFile \in Cert /\ order \in Cert
  BY AcmeAssumption, CertType DEF TypeOK
<1> USE DEF RenewalInvariant, processVars, fileVars
<1>1. CASE Start
  <2>1. FilesFollow'
    BY <1>1, ConstantCerts DEF Start, FilesFollow, Ordered
  <2>. QED  BY <1>1, <2>1, ConstantCerts
            DEF Start, DaysAccounted, RestartFindsServed, FilesFollow
<1>2. CASE End
  <2>1. FilesFollow'
    BY <1>2, ConstantCerts DEF End, FilesFollow, Ordered
  <2>. QED  BY <1>2, <2>1, ConstantCerts DEF End, DaysAccounted, RestartFindsServed
<1>3. CASE Tick
  <2>1. /\ pc = "wait" /\ cert' = Aged(cert) /\ certFile' = Aged(certFile)
        /\ pc' = IF cert'.left < RenewBefore THEN "user" ELSE "wait"
        /\ UNCHANGED <<up, order, keyFile, failures>>
    BY <1>3 DEF Tick, NeedsRenewal
  <2>2. /\ cert'.serial = cert.serial /\ certFile'.serial = certFile.serial
        /\ cert'.left = IF cert.left > 0 THEN cert.left - 1 ELSE 0
    BY <1>0, <2>1, CertType
  <2>3. FilesFollow'
    BY <2>1 DEF FilesFollow, Ordered
  <2>4. DaysAccounted'
    BY <1>0, <2>1, <2>2 DEF DaysAccounted
  <2>5. RestartFindsServed'
    BY <2>1, <2>2 DEF RestartFindsServed, Loadable
  <2>. QED  BY <2>3, <2>4, <2>5
<1>4. CASE DayWhileDown
  <2>1. pc = "off"
    BY <1>4 DEF DayWhileDown, FilesFollow
  <2>. QED  BY <1>4, <2>1 DEF DayWhileDown, FilesFollow, Ordered, DaysAccounted,
                             RestartFindsServed
<1>5. CASE Load
  <2>1. pc = "load" /\ cert.serial = 0 /\ UNCHANGED <<up, order, certFile, keyFile, failures>>
    BY <1>5 DEF Load, FilesFollow
  <2>2. CASE Loadable /\ certFile.left > RenewBefore
    <3>1. cert' = certFile /\ pc' = "wait"
      BY <1>5, <2>2 DEF Load
    <3>2. FilesFollow'
      BY <2>1, <3>1 DEF FilesFollow, Ordered
    <3>3. DaysAccounted'
      BY <1>0, <2>1, <2>2, <3>1 DEF DaysAccounted
    <3>4. RestartFindsServed'
      BY <2>1, <2>2, <3>1 DEF RestartFindsServed, Loadable
    <3>. QED  BY <3>2, <3>3, <3>4
  <2>3. CASE ~(Loadable /\ certFile.left > RenewBefore)
    <3>1. cert' = cert /\ pc' = "user"
      BY <1>5, <2>3 DEF Load
    <3>. QED  BY <2>1, <3>1 DEF FilesFollow, Ordered, DaysAccounted, RestartFindsServed
  <2>. QED  BY <2>2, <2>3
<1>6. ASSUME pc \notin {"off", "load", "wait"}, up' = up, Fails, cert' = cert
      PROVE  RenewalInvariant'
  <2>1. FilesFollow'
    BY <1>6 DEF FilesFollow, Fails, Ordered
  <2>2. cert.serial # 0 => failures' > 0
    BY <1>0, <1>6 DEF DaysAccounted, Fails
  <2>3. DaysAccounted'
    BY <1>0, <1>6 DEF DaysAccounted, Fails
  <2>4. RestartFindsServed'
    BY <1>0, <1>6, <2>2 DEF RestartFindsServed
  <2>. QED  BY <2>1, <2>3, <2>4
<1>7. CASE LoadUserFails \/ ObtainFails \/ WriteFails
  BY <1>6, <1>7 DEF LoadUserFails, ObtainFails, WriteFails
<1>8. ASSUME pc \notin {"off", "load", "wait"}, pc' \notin {"off", "load", "wait"},
             UNCHANGED <<up, cert, failures>>, FilesFollow'
      PROVE  RenewalInvariant'
  BY <1>8 DEF DaysAccounted, RestartFindsServed
<1>9. CASE LoadUser \/ CreateUser \/ CreateUserWrites \/ Register \/ SaveUser
  <2>1. /\ pc \in {"user", "createUser", "register", "saveUser"}
        /\ pc' \in {"createUser", "register", "saveUser", "solve"}
        /\ UNCHANGED <<up, cert, order, certFile, keyFile, failures>>
    BY <1>9 DEF LoadUser, CreateUser, CreateUserWrites, Register, SaveUser
  <2>2. FilesFollow'
    BY <2>1 DEF FilesFollow, Ordered
  <2>. QED  BY <1>8, <2>1, <2>2
<1>10. ASSUME NEW a \in Auths, Present(a) \/ Validate(a) \/ CleanUp(a)
       PROVE  RenewalInvariant'
  <2>1. pc = "solve" /\ UNCHANGED <<up, pc, cert, order, certFile, keyFile, failures>>
    BY <1>10 DEF Present, Validate, CleanUp
  <2>2. FilesFollow'
    BY <2>1 DEF FilesFollow, Ordered
  <2>. QED  BY <1>8, <2>1, <2>2
<1>11. CASE Issue
  <2>1. /\ pc = "solve" /\ pc' = "cert"
        /\ order' = [serial |-> issued + 1, left |-> Lifetime]
        /\ UNCHANGED <<up, cert, certFile, keyFile, failures>>
    BY <1>11 DEF Issue
  <2>2. order'.serial # 0 /\ order'.left = Lifetime
    BY <2>1, AcmeAssumption DEF TypeOK, Serials
  <2>3. FilesFollow'
    BY <2>1, <2>2 DEF FilesFollow, Ordered
  <2>. QED  BY <1>8, <2>1, <2>3
<1>12. CASE CertOpen \/ CertWritten \/ KeyOpen \/ KeyWritten
  <2>1. /\ pc \notin {"off", "load", "wait"} /\ pc' \notin {"off", "load", "wait"}
        /\ UNCHANGED <<up, cert, order, failures>>
    BY <1>12 DEF CertOpen, CertWritten, KeyOpen, KeyWritten
  <2>2. FilesFollow'
    BY <1>12 DEF CertOpen, CertWritten, KeyOpen, KeyWritten, FilesFollow, Ordered
  <2>. QED  BY <1>8, <2>1, <2>2
<1>13. CASE Install
  <2>1. /\ pc = "install" /\ pc' = "wait" /\ cert' = order /\ failures' = 0
        /\ UNCHANGED <<up, certFile, keyFile>>
        /\ certFile = order /\ keyFile = order.serial
        /\ order.serial # 0 /\ order.left = Lifetime
    BY <1>13 DEF Install, FilesFollow, Ordered
  <2>2. FilesFollow'
    BY <2>1 DEF FilesFollow, Ordered
  <2>3. DaysAccounted'
    BY <1>0, <2>1 DEF DaysAccounted
  <2>4. RestartFindsServed'
    BY <2>1 DEF RestartFindsServed, Loadable
  <2>. QED  BY <2>2, <2>3, <2>4
<1>14. CASE UNCHANGED vars
  BY <1>14 DEF vars, FilesFollow, Ordered, DaysAccounted, RestartFindsServed, Loadable
<1>. QED
  BY <1>1, <1>2, <1>3, <1>4, <1>5, <1>7, <1>9, <1>10, <1>11, <1>12, <1>13, <1>14
     DEF Next

LEMMA RenewalCorrect == Spec => []RenewalInvariant
<1>1. Init => RenewalInvariant
  BY ConstantCerts DEF Init, RenewalInvariant, FilesFollow, Ordered, DaysAccounted,
                       RestartFindsServed
<1>. QED  BY <1>1, RenewalStep, TypeCorrect, PTL DEF Spec

\* After a success a restart loads the certificate that is being served.
THEOREM RestartsLoad == Spec => []RestartFindsServed
<1>1. RenewalInvariant => RestartFindsServed
  BY DEF RenewalInvariant
<1>. QED  BY <1>1, RenewalCorrect, PTL

\* A certificate of the CA runs out only after a failed attempt on each day.
THEOREM ExpiryIsFailure == Spec => []ExpiryTakesFailures
<1>1. TypeOK /\ RenewalInvariant => ExpiryTakesFailures
  <2> SUFFICES ASSUME TypeOK, RenewalInvariant, cert.serial # 0, cert.left = 0
               PROVE  failures >= RenewBefore - 1
    BY DEF ExpiryTakesFailures
  <2>1. failures \in Nat /\ RenewBefore \in Nat
    BY AcmeAssumption DEF TypeOK
  <2>2. failures + 1 >= RenewBefore
    BY <2>1 DEF RenewalInvariant, DaysAccounted
  <2>. QED  BY <2>1, <2>2
<1>. QED  BY <1>1, RenewalCorrect, TypeCorrect, PTL
=============================================================================
