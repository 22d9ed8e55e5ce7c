-------------------------- MODULE Memories_proofs --------------------------
(* Proofs about Memories, for any instances, memories, providers, trust and *)
(* bounds.                                                                  *)
EXTENDS Memories, TLAPS

-----------------------------------------------------------------------------
(* The rows: what is active is wanted.                                     *)

\* The part of MemoriesTypeOK about rows.
RowsTyped ==
  /\ DOMAIN rows = Nodes
  /\ \A n \in Nodes : DOMAIN rows[n] \subseteq Ids /\ rows[n] \in [DOMAIN rows[n] -> Status]
  /\ rev \in [Memories -> Nat]
  /\ wanted \in [Nodes -> SUBSET Ids] /\ refused \in [Nodes -> SUBSET Ids]

\* An own row is where its memory is at home, and has been written.
OwnIsHome ==
  \A n \in Nodes, m \in Memories : Has(n, m) => Home[m] = n /\ rev[m] > 0

\* What was taken back is still there and says so: no candidate, and so
\* nothing that a confirmation or an import would make active.
RefusedIsRetracted ==
  \A n \in Nodes : \A i \in refused[n] : Has(n, i) /\ rows[n][i] = "RETRACTED"

\* What is active was asked for, by somebody in charge.
ActiveIsAsked == \A n \in Nodes : Active(n) \subseteq wanted[n]

RowsInv == RowsTyped /\ OwnIsHome /\ RefusedIsRetracted /\ ActiveIsAsked

\* The rows of one instance are replaced by f, and it wants w and refuses r.
Replaced(n, f, w, r) ==
  /\ rows' = [rows EXCEPT ![n] = f]
  /\ wanted' = [wanted EXCEPT ![n] = w] /\ refused' = [refused EXCEPT ![n] = r]
  /\ DOMAIN f \subseteq Ids /\ f \in [DOMAIN f -> Status] /\ w \subseteq Ids /\ r \subseteq Ids
  /\ \A m \in Memories : m \in DOMAIN f => Home[m] = n /\ rev'[m] > 0
  /\ \A i \in r : i \in DOMAIN f /\ f[i] = "RETRACTED"
  /\ \A i \in DOMAIN f : f[i] = "ACTIVE" => i \in w

LEMMA RowsReplaced ==
  ASSUME RowsInv, NEW n \in Nodes, NEW f, NEW w, NEW r, Replaced(n, f, w, r),
         rev' \in [Memories -> Nat], \A m \in Memories : rev'[m] >= rev[m]
  PROVE  RowsInv'
<1> USE DEF Replaced
<1>1. /\ DOMAIN rows' = Nodes /\ rows'[n] = f /\ \A k \in Nodes \ {n} : rows'[k] = rows[k]
      /\ wanted'[n] = w /\ \A k \in Nodes \ {n} : wanted'[k] = wanted[k]
      /\ refused'[n] = r /\ \A k \in Nodes \ {n} : refused'[k] = refused[k]
  BY DEF RowsInv, RowsTyped
<1>2. RowsTyped'
  <2>1. wanted' \in [Nodes -> SUBSET Ids] /\ refused' \in [Nodes -> SUBSET Ids]
    BY DEF RowsInv, RowsTyped
  <2>2. ASSUME NEW k \in Nodes
        PROVE  DOMAIN rows'[k] \subseteq Ids /\ rows'[k] \in [DOMAIN rows'[k] -> Status]
    <3>1. CASE k = n
      BY <1>1, <3>1
    <3>2. CASE k # n
      BY <1>1, <3>2 DEF RowsInv, RowsTyped
    <3> QED BY <3>1, <3>2
  <2> QED BY <1>1, <2>1, <2>2 DEF RowsTyped
<1>3. OwnIsHome'
  <2>1. ASSUME NEW k \in Nodes, NEW m \in Memories, m \in DOMAIN rows'[k]
        PROVE  Home[m] = k /\ rev'[m] > 0
    <3>1. CASE k = n
      BY <1>1, <2>1, <3>1
    <3>2. CASE k # n
      <4>1. Home[m] = k /\ rev[m] > 0
        BY <1>1, <2>1, <3>2 DEF RowsInv, OwnIsHome, Has
      <4>2. rev'[m] >= rev[m] /\ rev[m] \in Nat /\ rev'[m] \in Nat
        BY DEF RowsInv, RowsTyped
      <4> QED BY <4>1, <4>2
    <3> QED BY <3>1, <3>2
  <2> QED BY <2>1 DEF OwnIsHome, Has
<1>4. RefusedIsRetracted'
  <2>1. ASSUME NEW k \in Nodes, NEW i \in refused'[k]
        PROVE  i \in DOMAIN rows'[k] /\ rows'[k][i] = "RETRACTED"
    <3>1. CASE k = n
      BY <1>1, <2>1, <3>1
    <3>2. CASE k # n
      BY <1>1, <2>1, <3>2 DEF RowsInv, RefusedIsRetracted, Has
    <3> QED BY <3>1, <3>2
  <2> QED BY <2>1 DEF RefusedIsRetracted, Has
<1>5. ActiveIsAsked'
  <2>1. ASSUME NEW k \in Nodes, NEW i \in DOMAIN rows'[k], rows'[k][i] = "ACTIVE"
        PROVE  i \in wanted'[k]
    <3>1. CASE k = n
      BY <1>1, <2>1, <3>1
    <3>2. CASE k # n
      BY <1>1, <2>1, <3>2 DEF RowsInv, ActiveIsAsked, Active
    <3> QED BY <3>1, <3>2
  <2> QED BY <2>1 DEF ActiveIsAsked, Active
<1> QED BY <1>2, <1>3, <1>4, <1>5 DEF RowsInv

\* A write of an own row raises its revision: what is as often written as
\* before is as it was.
Kept(m) ==
  /\ rev'[m] >= rev[m]
  /\ rev'[m] = rev[m] /\ m \in DOMAIN rows'[Home[m]]
       => m \in DOMAIN rows[Home[m]] /\ rows'[Home[m]][m] = rows[Home[m]][m]

\* A row that is touched when it is written.
LEMMA TouchedKept ==
  ASSUME RowsInv, NEW n \in Nodes, NEW f, NEW i \in Ids,
         rows' = [rows EXCEPT ![n] = f], rev' = Touched(i),
         \A j \in DOMAIN f \ {i} : j \in DOMAIN rows[n] /\ f[j] = rows[n][j]
  PROVE  /\ rev' \in [Memories -> Nat] /\ \A m \in Memories : rev'[m] >= rev[m] /\ Kept(m)
<1>1. rev \in [Memories -> Nat] /\ Home \in [Memories -> Nodes] /\ DOMAIN rows = Nodes
  BY MemoriesAssumption DEF RowsInv, RowsTyped
<1>2. /\ rev' \in [Memories -> Nat] 
      /\ \A m \in Memories : rev'[m] = IF m = i THEN rev[m] + 1 ELSE rev[m]
  BY <1>1 DEF Touched
<1>3. ASSUME NEW m \in Memories PROVE rev'[m] >= rev[m] /\ Kept(m)
  <2>1. rev[m] \in Nat /\ rev'[m] >= rev[m]
    BY <1>1, <1>2
  <2>2. CASE m = i
    BY <1>2, <2>1, <2>2 DEF Kept
  <2>3. CASE m # i
    <3>1. CASE Home[m] = n
      BY <1>1, <2>1, <2>3, <3>1 DEF Kept
    <3>2. CASE Home[m] # n
      BY <1>1, <2>1, <3>2 DEF Kept
    <3> QED BY <3>1, <3>2
  <2> QED BY <2>2, <2>3
<1> QED BY <1>2, <1>3

\* A write of an own row leaves it own.
LEMMA TouchedOwn ==
  ASSUME RowsInv, NEW n \in Nodes, NEW i \in DOMAIN rows[n], rev' = Touched(i)
  PROVE  /\ i \in Ids
         /\ \A m \in Memories : m \in DOMAIN rows[n] => Home[m] = n /\ rev'[m] > 0
BY DEF RowsInv, RowsTyped, OwnIsHome, Has, Touched

\* A new memory.
LEMMA RememberMoves ==
  ASSUME RowsInv, NEW m \in Memories, NEW s \in {"ACTIVE", "CANDIDATE"}, Remember(m, s)
  PROVE  RowsInv' /\ \A o \in Memories : Kept(o)
<1> DEFINE n == Home[m]
           f == [j \in DOMAIN rows[n] \cup {m} |-> IF j = m THEN s ELSE rows[n][j]]
           w == IF s = "ACTIVE" THEN wanted[n] \cup {m} ELSE wanted[n]
<1>1. n \in Nodes /\ DOMAIN rows = Nodes /\ m \in Ids
  BY MemoriesAssumption DEF RowsInv, RowsTyped, Ids
<1>2. /\ DOMAIN rows[n] \subseteq Ids /\ rows[n] \in [DOMAIN rows[n] -> Status]
      /\ rev \in [Memories -> Nat] /\ wanted[n] \subseteq Ids /\ refused[n] \subseteq Ids
  BY <1>1 DEF RowsInv, RowsTyped
<1>3. rows' = [rows EXCEPT ![n] = f] /\ rev[m] = 0 /\ rev' = [rev EXCEPT ![m] = 1]
  BY DEF Remember, With
<1>4. m \notin DOMAIN rows[n]
  BY <1>1, <1>3 DEF RowsInv, OwnIsHome, Has
<1>5. wanted' = [wanted EXCEPT ![n] = w] /\ refused' = [refused EXCEPT ![n] = refused[n]]
  BY <1>1 DEF Remember, RowsInv, RowsTyped
<1>6. /\ rev' \in [Memories -> Nat] /\ \A o \in Memories : rev'[o] >= rev[o]
      /\ \A o \in Memories : o \in DOMAIN f => Home[o] = n /\ rev'[o] > 0
  <2>1. \A o \in Memories : o \in DOMAIN rows[n] => Home[o] = n /\ rev[o] > 0
    BY <1>1 DEF RowsInv, OwnIsHome, Has
  <2> QED BY <1>2, <1>3, <2>1
<1>7. /\ DOMAIN f \subseteq Ids /\ f \in [DOMAIN f -> Status]
      /\ \A i \in refused[n] : i \in DOMAIN f /\ f[i] = "RETRACTED"
      /\ \A i \in DOMAIN f : f[i] = "ACTIVE" => i \in w
      /\ w \subseteq Ids
  <2>1. \A i \in refused[n] : i \in DOMAIN rows[n] /\ rows[n][i] = "RETRACTED"
    BY <1>1 DEF RowsInv, RefusedIsRetracted, Has
  <2>2. \A i \in DOMAIN rows[n] : rows[n][i] = "ACTIVE" => i \in wanted[n]
    BY <1>1 DEF RowsInv, ActiveIsAsked, Active
  <2> QED BY <1>1, <1>2, <1>4, <2>1, <2>2 DEF Status
<1>8. ASSUME NEW o \in Memories PROVE Kept(o)
  <2>1. CASE o = m
    BY <1>2, <1>3, <2>1 DEF Kept
  <2>2. CASE o # m
    <3>1. rev'[o] = rev[o] /\ rev[o] \in Nat /\ Home[o] \in Nodes
      BY <1>2, <1>3, <2>2, MemoriesAssumption
    <3>2. CASE Home[o] = n
      BY <1>1, <1>3, <2>2, <3>1, <3>2 DEF Kept
    <3>3. CASE Home[o] # n
      BY <1>1, <1>3, <3>1, <3>3 DEF Kept
    <3> QED BY <3>2, <3>3
  <2> QED BY <2>1, <2>2
<1> HIDE DEF f, w, n
<1>9. Replaced(n, f, w, refused[n])
  BY <1>2, <1>3, <1>5, <1>6, <1>7 DEF Replaced
<1> QED BY <1>1, <1>6, <1>8, <1>9, RowsReplaced

\* A new memory that takes the place of another.
LEMMA RememberInsteadMoves ==
  ASSUME RowsInv, NEW m \in Memories, NEW i \in DOMAIN rows[Home[m]],
         NEW s \in {"ACTIVE", "CANDIDATE"}, RememberInstead(m, i, s)
  PROVE  RowsInv' /\ \A o \in Memories : Kept(o)
<1> DEFINE n == Home[m]
           f == [j \in DOMAIN rows[n] \cup {m} |->
                   IF j = m THEN s ELSE IF j = i THEN "RETRACTED" ELSE rows[n][j]]
           w == (IF s = "ACTIVE" THEN wanted[n] \cup {m} ELSE wanted[n]) \ {i}
           r == refused[n] \cup {i}
<1>1. n \in Nodes /\ DOMAIN rows = Nodes /\ m \in Ids
  BY MemoriesAssumption DEF RowsInv, RowsTyped, Ids
<1>2. /\ DOMAIN rows[n] \subseteq Ids /\ rows[n] \in [DOMAIN rows[n] -> Status]
      /\ rev \in [Memories -> Nat] /\ wanted[n] \subseteq Ids /\ refused[n] \subseteq Ids
  BY <1>1 DEF RowsInv, RowsTyped
<1>3. /\ rows' = [rows EXCEPT ![n] = f] /\ rev[m] = 0 /\ rev' = [Touched(i) EXCEPT ![m] = 1]
      /\ wanted' = [wanted EXCEPT ![n] = w] /\ refused' = [refused EXCEPT ![n] = r]
  BY DEF RememberInstead
<1>4. m \notin DOMAIN rows[n] /\ i \in DOMAIN rows[n] /\ i # m
  BY <1>1, <1>3 DEF RowsInv, OwnIsHome, Has
<1>5. /\ \A o \in Memories : rev'[o] = IF o = m THEN 1 ELSE IF o = i THEN rev[o] + 1 ELSE rev[o]
      /\ rev' \in [Memories -> Nat]
  BY <1>2, <1>3, <1>4 DEF Touched
<1>6. /\ \A o \in Memories : rev'[o] >= rev[o]
      /\ \A o \in Memories : o \in DOMAIN f => Home[o] = n /\ rev'[o] > 0
  <2>1. \A o \in Memories : o \in DOMAIN rows[n] => Home[o] = n /\ rev[o] > 0
    BY <1>1 DEF RowsInv, OwnIsHome, Has
  <2> QED BY <1>2, <1>3, <1>5, <2>1
<1>7. /\ DOMAIN f \subseteq Ids /\ f \in [DOMAIN f -> Status]
      /\ \A j \in r : j \in DOMAIN f /\ f[j] = "RETRACTED"
      /\ \A j \in DOMAIN f : f[j] = "ACTIVE" => j \in w
      /\ w \subseteq Ids /\ r \subseteq Ids
  <2>1. \A j \in refused[n] : j \in DOMAIN rows[n] /\ rows[n][j] = "RETRACTED"
    BY <1>1 DEF RowsInv, RefusedIsRetracted, Has
  <2>2. \A j \in DOMAIN rows[n] : rows[n][j] = "ACTIVE" => j \in wanted[n]
    BY <1>1 DEF RowsInv, ActiveIsAsked, Active
  <2> QED BY <1>1, <1>2, <1>4, <2>1, <2>2 DEF Status
<1>8. ASSUME NEW o \in Memories PROVE Kept(o)
  <2>1. Home[o] \in Nodes /\ rev[o] \in Nat
    BY <1>2, MemoriesAssumption
  <2>2. CASE o \in {m, i}
    BY <1>3, <1>5, <2>1, <2>2 DEF Kept
  <2>3. CASE o \notin {m, i}
    <3>1. CASE Home[o] = n
      BY <1>1, <1>3, <1>5, <2>1, <2>3, <3>1 DEF Kept
    <3>2. CASE Home[o] # n
      BY <1>1, <1>3, <1>5, <2>1, <2>3, <3>2 DEF Kept
    <3> QED BY <3>1, <3>2
  <2> QED BY <2>2, <2>3
<1> HIDE DEF f, w, r, n
<1>9. Replaced(n, f, w, r)
  BY <1>3, <1>6, <1>7 DEF Replaced
<1> QED BY <1>1, <1>5, <1>6, <1>8, <1>9, RowsReplaced

\* A row of one's own or an imported one gets status s.
LEMMA WithMoves ==
  ASSUME RowsInv, NEW n \in Nodes, NEW i \in DOMAIN rows[n], NEW s \in Status,
         NEW w, NEW r, w \subseteq Ids, r \subseteq Ids,
         rows' = With(n, i, s), rev' = Touched(i),
         wanted' = [wanted EXCEPT ![n] = w], refused' = [refused EXCEPT ![n] = r],
         r \subseteq refused[n] \cup {i}, i \in r => s = "RETRACTED",
         wanted[n] \subseteq w \cup {i}, s = "ACTIVE" => i \in w
  PROVE  RowsInv' /\ \A o \in Memories : Kept(o)
<1> DEFINE f == [j \in DOMAIN rows[n] \cup {i} |-> IF j = i THEN s ELSE rows[n][j]]
<1>1. /\ DOMAIN rows[n] \subseteq Ids /\ rows[n] \in [DOMAIN rows[n] -> Status]
      /\ \A j \in refused[n] : j \in DOMAIN rows[n] /\ rows[n][j] = "RETRACTED"
      /\ \A j \in DOMAIN rows[n] : rows[n][j] = "ACTIVE" => j \in wanted[n]
  BY DEF RowsInv, RowsTyped, RefusedIsRetracted, ActiveIsAsked, Active, Has
<1>2. rows' = [rows EXCEPT ![n] = f] /\ i \in Ids
  BY <1>1 DEF With
<1>3. /\ DOMAIN f = DOMAIN rows[n] /\ f \in [DOMAIN f -> Status]
      /\ \A j \in DOMAIN f \ {i} : j \in DOMAIN rows[n] /\ f[j] = rows[n][j]
      /\ \A j \in r : j \in DOMAIN f /\ f[j] = "RETRACTED"
      /\ \A j \in DOMAIN f : f[j] = "ACTIVE" => j \in w
  BY <1>1
<1> HIDE DEF f
<1>4. rev' \in [Memories -> Nat] /\ \A o \in Memories : rev'[o] >= rev[o] /\ Kept(o)
  BY <1>2, <1>3, TouchedKept
<1>5. \A o \in Memories : o \in DOMAIN f => Home[o] = n /\ rev'[o] > 0
  BY <1>3, TouchedOwn
<1>6. Replaced(n, f, w, r)
  BY <1>1, <1>2, <1>3, <1>5 DEF Replaced
<1> QED BY <1>4, <1>6, RowsReplaced

LEMMA ConfirmMoves ==
  ASSUME RowsInv, NEW n \in Nodes, NEW i \in DOMAIN rows[n], Confirm(n, i)
  PROVE  RowsInv' /\ \A o \in Memories : Kept(o)
<1> DEFINE s == Confirmed(rows[n][i])
           w == wanted[n] \cup {i}
<1>1. /\ rows[n][i] \in Status /\ i \in Ids
      /\ wanted[n] \subseteq Ids /\ refused[n] \subseteq Ids
      /\ refused' = [refused EXCEPT ![n] = refused[n]]
      /\ i \in refused[n] => rows[n][i] = "RETRACTED"
  BY DEF RowsInv, RowsTyped, RefusedIsRetracted, Confirm
<1>2. s \in Status /\ (i \in refused[n] => s = "RETRACTED")
  BY <1>1 DEF Confirmed, Status
<1>3. rows' = With(n, i, s) /\ rev' = Touched(i) /\ wanted' = [wanted EXCEPT ![n] = w]
  BY DEF Confirm
<1>4. w \subseteq Ids /\ wanted[n] \subseteq w \cup {i} /\ (s = "ACTIVE" => i \in w)
  BY <1>1, <1>2
<1> HIDE DEF s, w
<1> QED BY <1>1, <1>2, <1>3, <1>4, WithMoves

LEMMA SetStatusMoves ==
  ASSUME RowsInv, NEW n \in Nodes, NEW i \in DOMAIN rows[n], NEW s \in {"ACTIVE", "RETRACTED"},
         SetStatus(n, i, s)
  PROVE  RowsInv' /\ \A o \in Memories : Kept(o)
<1> DEFINE w == IF s = "ACTIVE" THEN wanted[n] \cup {i} ELSE wanted[n] \ {i}
           r == IF s = "ACTIVE" THEN refused[n] \ {i} ELSE refused[n] \cup {i}
<1>1. i \in Ids /\ wanted[n] \subseteq Ids /\ refused[n] \subseteq Ids /\ s \in Status
  BY DEF RowsInv, RowsTyped, Status
<1>2. /\ rows' = With(n, i, s) /\ rev' = Touched(i)
      /\ wanted' = [wanted EXCEPT ![n] = w] /\ refused' = [refused EXCEPT ![n] = r]
  BY DEF SetStatus
<1>3. /\ w \subseteq Ids /\ r \subseteq Ids /\ r \subseteq refused[n] \cup {i}
      /\ (i \in r => s = "RETRACTED") /\ wanted[n] \subseteq w \cup {i} /\ (s = "ACTIVE" => i \in w)
  BY <1>1
<1> HIDE DEF r, w
<1> QED BY <1>1, <1>2, <1>3, WithMoves

LEMMA ForgetMoves ==
  ASSUME RowsInv, NEW n \in Nodes, NEW i \in DOMAIN rows[n], Forget(n, i)
  PROVE  RowsInv' /\ \A o \in Memories : Kept(o)
<1> DEFINE f == [j \in DOMAIN rows[n] \ {i} |-> rows[n][j]]
           w == wanted[n] \ {i}
           r == refused[n] \ {i}
<1>1. /\ DOMAIN rows = Nodes /\ rev \in [Memories -> Nat] /\ Home \in [Memories -> Nodes]
      /\ DOMAIN rows[n] \subseteq Ids /\ rows[n] \in [DOMAIN rows[n] -> Status]
      /\ wanted[n] \subseteq Ids /\ refused[n] \subseteq Ids
  BY MemoriesAssumption DEF RowsInv, RowsTyped
<1>2. /\ rows' = [rows EXCEPT ![n] = f] /\ rev' = rev
      /\ wanted' = [wanted EXCEPT ![n] = w] /\ refused' = [refused EXCEPT ![n] = r]
  BY DEF Forget
<1>3. /\ DOMAIN f \subseteq Ids /\ f \in [DOMAIN f -> Status] /\ w \subseteq Ids /\ r \subseteq Ids
      /\ \A j \in r : j \in DOMAIN f /\ f[j] = "RETRACTED"
      /\ \A j \in DOMAIN f : f[j] = "ACTIVE" => j \in w
  <2>1. \A j \in refused[n] : j \in DOMAIN rows[n] /\ rows[n][j] = "RETRACTED"
    BY DEF RowsInv, RefusedIsRetracted, Has
  <2>2. \A j \in DOMAIN rows[n] : rows[n][j] = "ACTIVE" => j \in wanted[n]
    BY DEF RowsInv, ActiveIsAsked, Active
  <2> QED BY <1>1, <2>1, <2>2
<1>4. \A o \in Memories : o \in DOMAIN f => Home[o] = n /\ rev'[o] > 0
  BY <1>2 DEF RowsInv, OwnIsHome, Has
<1>5. ASSUME NEW o \in Memories PROVE Kept(o) /\ rev'[o] >= rev[o]
  <2>1. CASE Home[o] = n
    BY <1>1, <1>2, <2>1 DEF Kept
  <2>2. CASE Home[o] # n
    BY <1>1, <1>2, <2>2 DEF Kept
  <2> QED BY <2>1, <2>2
<1> HIDE DEF f, w, r
<1>6. Replaced(n, f, w, r)
  BY <1>2, <1>3, <1>4 DEF Replaced
<1> QED BY <1>1, <1>2, <1>5, <1>6, RowsReplaced

\* Records are not memories.
LEMMA RecordsApart == \A x \in Records : x \notin Memories /\ x \in Ids /\ x[1] \in Memories
BY MemoriesAssumption DEF Records, Ids

\* What a bundle means at n: imported rows, and own rows that are there.
LEMMA MeantRows ==
  ASSUME NEW n \in Nodes, NEW b \in Bundle
  PROVE  \A i \in {RowOf(n, x) : x \in b.entries} :
            /\ i \in Ids /\ (i \in Memories => Has(n, i))
            /\ i \notin Memories => i \in b.entries /\ ~Returns(n, i)
<1>1. b.entries \subseteq Records
  BY DEF Bundle
<1> QED BY <1>1, RecordsApart DEF RowOf, Returns, Ids

\* An import, of whatever bundle.
LEMMA ImportMoves ==
  ASSUME RowsInv, NEW n \in Nodes, NEW b \in Bundle, NEW activate \in BOOLEAN,
         NEW remote \in BOOLEAN, Accepted(n, b, activate, remote), Import(n, b, activate),
         Asks(n, b, activate, remote), refused' = refused
  PROVE  RowsInv' /\ \A o \in Memories : Kept(o)
<1> DEFINE meant == {RowOf(n, x) : x \in b.entries}
           f == [i \in DOMAIN rows[n] \cup meant |->
                   IF i \notin DOMAIN rows[n] THEN Arrival(activate)
                   ELSE IF i \in meant THEN Promoted(rows[n][i], activate) ELSE rows[n][i]]
           w == IF activate /\ (remote => b.by \in Trusts[n]) THEN wanted[n] \cup meant ELSE wanted[n]
<1>1. /\ DOMAIN rows = Nodes /\ rev \in [Memories -> Nat] /\ Home \in [Memories -> Nodes]
      /\ DOMAIN rows[n] \subseteq Ids /\ rows[n] \in [DOMAIN rows[n] -> Status]
      /\ wanted[n] \subseteq Ids /\ refused[n] \subseteq Ids
      /\ refused' = [refused EXCEPT ![n] = refused[n]]
  BY MemoriesAssumption DEF RowsInv, RowsTyped
<1>2. /\ rows' = [rows EXCEPT ![n] = f] /\ wanted' = [wanted EXCEPT ![n] = w]
      /\ rev' = [m \in Memories |->
                   IF m \in meant /\ activate /\ rows[n][m] = "CANDIDATE" THEN rev[m] + 1 ELSE rev[m]]
  BY DEF Import, Asks, Meant
<1>11. activate => (remote => b.by \in Trusts[n])
  BY DEF Accepted
<1>3. meant \subseteq Ids /\ \A i \in meant : i \in Memories => i \in DOMAIN rows[n]
  BY MeantRows DEF Has
<1> HIDE DEF meant
<1>4. /\ \A i \in refused[n] : i \in DOMAIN rows[n] /\ rows[n][i] = "RETRACTED"
      /\ \A i \in DOMAIN rows[n] : rows[n][i] = "ACTIVE" => i \in wanted[n]
      /\ \A o \in Memories : o \in DOMAIN rows[n] => Home[o] = n /\ rev[o] > 0
  BY DEF RowsInv, RefusedIsRetracted, ActiveIsAsked, Active, OwnIsHome, Has
<1>5. rev' \in [Memories -> Nat] /\ \A o \in Memories : rev'[o] >= rev[o]
  BY <1>1, <1>2
<1>6. /\ DOMAIN f \subseteq Ids /\ w \subseteq Ids
      /\ \A i \in DOMAIN f : f[i] \in Status
      /\ \A i \in refused[n] : i \in DOMAIN f /\ f[i] = "RETRACTED"
      /\ \A i \in DOMAIN f : f[i] = "ACTIVE" => i \in w
  <2>1. \A i \in DOMAIN rows[n] : rows[n][i] \in Status
    BY <1>1
  <2> QED BY <1>1, <1>3, <1>4, <1>11, <2>1 DEF Arrival, Promoted, Confirmed, Status
<1>7. f \in [DOMAIN f -> Status]
  BY <1>6
<1>8. \A o \in Memories : o \in DOMAIN f => Home[o] = n /\ rev'[o] > 0
  <2>1. \A o \in Memories : o \in DOMAIN f => o \in DOMAIN rows[n]
    BY <1>3
  <2> QED BY <1>1, <1>4, <1>5, <2>1
<1>9. ASSUME NEW o \in Memories PROVE Kept(o)
  <2>1. Home[o] \in Nodes /\ rev[o] \in Nat /\ rev'[o] >= rev[o]
    BY <1>1, <1>5
  <2>2. CASE Home[o] # n
    BY <1>1, <1>2, <2>1, <2>2 DEF Kept
  <2>3. CASE Home[o] = n
    <3>1. ASSUME rev'[o] = rev[o], o \in DOMAIN f
          PROVE  o \in DOMAIN rows[n] /\ f[o] = rows[n][o]
      <4>1. o \in DOMAIN rows[n]
        BY <1>3, <3>1
      <4>2. ~(o \in meant /\ activate /\ rows[n][o] = "CANDIDATE")
        BY <1>2, <2>1, <3>1
      <4> QED BY <4>1, <4>2 DEF Promoted, Confirmed
    <3> HIDE DEF f
    <3> QED BY <1>1, <1>2, <2>1, <2>3, <3>1 DEF Kept
  <2> QED BY <2>2, <2>3
<1> HIDE DEF f, w
<1>10. Replaced(n, f, w, refused[n])
  BY <1>1, <1>2, <1>4, <1>6, <1>7, <1>8 DEF Replaced
<1> QED BY <1>5, <1>9, <1>10, RowsReplaced

-----------------------------------------------------------------------------
(* What travels: a record that is as often written as its memory says what  *)
(* its memory says, or has been relabelled.                                 *)

AsOwn(x) ==
  x[2] = rev[x[1]] /\ Has(Home[x[1]], x[1])
    => x[3] = rows[Home[x[1]]][x[1]] \/ x \in relabelled
Sound(x) == x \in Records /\ x[2] <= rev[x[1]] /\ AsOwn(x)

InTraffic(b) ==
  \/ b \in files
  \/ b # None /\ \E p \in Providers : snapshot[p] = b
  \/ \E w \in sent : w.bundle = b
  \/ \E c \in Callers : call[c].phase # "idle" /\ call[c].bundle = b

TrafficSound == \A b \in Bundle : InTraffic(b) => \A x \in b.entries : Sound(x)
ImportedSound == \A n \in Nodes : \A i \in DOMAIN rows[n] \ Memories : Sound(i)

\* The part of MemoriesTypeOK about what travels.
TrafficTyped ==
  /\ snapshot \in [Providers -> Bundle \cup {None}]
  /\ sent \subseteq Push
  /\ call \in [Callers -> Call]
  /\ pushed \in [Pushes -> (SUBSET Records) \cup {None}]
  /\ files \subseteq Bundle
  /\ requests \in Nat /\ troubles \in Nat
  /\ relabelled \subseteq Records /\ overtaken \subseteq Providers

\* A call under way has a bundle.
CallsCarry == \A c \in Callers : call[c].phase # "idle" => call[c].bundle \in Bundle

MemoriesInv ==
  RowsInv /\ TrafficTyped /\ CallsCarry /\ TrafficSound /\ ImportedSound /\ NoEcho

\* Nothing that happens to rows makes a record unsound.
LEMMA SoundStays ==
  ASSUME RowsInv, \A o \in Memories : Kept(o), rev' \in [Memories -> Nat],
         relabelled \subseteq relabelled'
  PROVE  \A x : Sound(x) => Sound(x)'
<1> SUFFICES ASSUME NEW x, Sound(x) PROVE Sound(x)'
  OBVIOUS
<1>1. /\ x \in Records /\ x[1] \in Memories /\ x[2] \in Nat
      /\ rev[x[1]] \in Nat /\ rev'[x[1]] \in Nat
  BY DEF Sound, RowsInv, RowsTyped, Records
<1>2. Kept(x[1]) /\ x[2] <= rev[x[1]] /\ AsOwn(x)
  BY <1>1 DEF Sound
<1>3. rev'[x[1]] >= rev[x[1]]
  BY <1>2 DEF Kept
<1>4. ASSUME x[2] = rev'[x[1]], x[1] \in DOMAIN rows'[Home[x[1]]]
      PROVE  x[3] = rows'[Home[x[1]]][x[1]] \/ x \in relabelled'
  <2>1. x[2] = rev[x[1]] /\ rev'[x[1]] = rev[x[1]]
    BY <1>1, <1>2, <1>3, <1>4
  <2>2. /\ x[1] \in DOMAIN rows[Home[x[1]]]
        /\ rows'[Home[x[1]]][x[1]] = rows[Home[x[1]]][x[1]]
    BY <1>2, <1>4, <2>1 DEF Kept
  <2>3. x[3] = rows[Home[x[1]]][x[1]] \/ x \in relabelled
    BY <1>2, <2>1, <2>2 DEF AsOwn, Has
  <2> QED BY <2>2, <2>3
<1> QED BY <1>1, <1>2, <1>3, <1>4 DEF Sound, AsOwn, Has

\* What an instance exports is sound, once what it relabels is on record.
LEMMA ExportSound ==
  ASSUME MemoriesInv, NEW n \in Nodes, NEW all \in BOOLEAN, UNCHANGED <<rows, rev>>,
         relabelled' = relabelled \cup Labels(n, all)
  PROVE  /\ Export(n, all) \in Bundle /\ relabelled' \subseteq Records
         /\ \A x \in Export(n, all).entries : Sound(x)'
<1> DEFINE out == IF all THEN DOMAIN rows[n] ELSE Active(n)
<1>1. out \subseteq DOMAIN rows[n] /\ DOMAIN rows[n] \subseteq Ids
  BY DEF Active, MemoriesInv, RowsInv, RowsTyped
<1>2. Export(n, all) = [by |-> n, entries |-> {Portable(n, i) : i \in out}]
  BY DEF Export
<1>3. ASSUME NEW i \in DOMAIN rows[n], NEW x, x = Portable(n, i)
      PROVE  x \in Records /\ (i \in out => Sound(x)')
  <2>1. rows[n][i] \in Status /\ rev \in [Memories -> Nat] /\ i \in Ids
    BY <1>1 DEF MemoriesInv, RowsInv, RowsTyped
  <2>2. CASE i \in Memories
    <3>1. x = <<i, rev[i], rows[n][i]>> /\ Home[i] = n /\ rev[i] \in Nat
      BY <1>3, <2>1, <2>2 DEF Portable, Own, MemoriesInv, RowsInv, OwnIsHome, Has
    <3>2. x \in Records
      BY <2>1, <2>2, <3>1 DEF Records
    <3> QED BY <3>1, <3>2 DEF Sound, AsOwn
  <2>3. CASE i \notin Memories
    <3>1. x = Restored(i, rows[n][i]) /\ Sound(i)
      BY <1>3, <2>3 DEF Portable, MemoriesInv, ImportedSound
    <3>2. i \in Records /\ i[2] <= rev[i[1]] /\ AsOwn(i)
      BY <3>1 DEF Sound
    <3>3. CASE rows[n][i] = "ACTIVE"
      <4>1. x = i
        BY <3>1, <3>3 DEF Restored
      <4>2. AsOwn(x)'
        BY <3>2, <4>1 DEF AsOwn, Has
      <4> QED BY <3>2, <4>1, <4>2 DEF Sound
    <3>4. CASE rows[n][i] # "ACTIVE"
      <4>1. x = <<i[1], i[2], rows[n][i]>>
        BY <3>1, <3>4 DEF Restored
      <4>2. x \in Records /\ x[2] <= rev[x[1]]
        BY <2>1, <3>2, <4>1 DEF Records
      <4>3. ASSUME i \in out PROVE x \in Labels(n, all)
        BY <1>3, <2>3, <3>4, <4>3 DEF Active, Labels
      <4> QED BY <4>2, <4>3 DEF Sound, AsOwn
    <3> QED BY <3>3, <3>4
  <2> QED BY <2>2, <2>3
<1>4. Labels(n, all) \subseteq Records /\ relabelled \subseteq Records
  BY <1>3 DEF Labels, MemoriesInv, TrafficTyped
<1> HIDE DEF out
<1>5. {Portable(n, i) : i \in out} \subseteq Records
  BY <1>1, <1>3
<1> QED BY <1>1, <1>2, <1>3, <1>4, <1>5 DEF Bundle

\* A step is sound if rows move as they may, what comes into the traffic is
\* sound, and what arrives was sound and did not return to its own row.
LEMMA SoundStep ==
  ASSUME MemoriesInv, RowsInv', \A o \in Memories : Kept(o), relabelled \subseteq relabelled',
         TrafficTyped', CallsCarry',
         \A b \in Bundle : InTraffic(b)' => InTraffic(b) \/ \A x \in b.entries : Sound(x)',
         \A n \in Nodes : \A i \in DOMAIN rows'[n] \ Memories :
            i \in DOMAIN rows[n] \/ (Sound(i) /\ ~Returns(n, i))
  PROVE  MemoriesInv'
<1>1. rev' \in [Memories -> Nat] /\ rev \in [Memories -> Nat] /\ Home \in [Memories -> Nodes]
  BY MemoriesAssumption DEF MemoriesInv, RowsInv, RowsTyped
<1>2. \A x : Sound(x) => Sound(x)'
  BY <1>1, SoundStays DEF MemoriesInv
<1>3. TrafficSound'
  BY <1>2 DEF MemoriesInv, TrafficSound
<1>4. \A n \in Nodes : \A i \in DOMAIN rows'[n] \ Memories : Sound(i)
  BY DEF MemoriesInv, ImportedSound
<1>5. ImportedSound'
  BY <1>2, <1>4 DEF ImportedSound
<1>6. ASSUME NEW m \in Memories, NEW i \in DOMAIN rows'[Home[m]] \ Memories,
             i[1] = m, i[2] = rev'[m], m \in DOMAIN rows'[Home[m]]
      PROVE  i \in relabelled'
  <2>1. Sound(i) /\ Home[m] \in Nodes
    BY <1>1, <1>4
  <2>2. i[2] <= rev[m] /\ rev'[m] >= rev[m] /\ AsOwn(i) /\ i \in Records
    BY <1>6, <2>1 DEF Sound, Kept
  <2>3. i[2] = rev[m] /\ rev'[m] = rev[m]
    BY <1>1, <1>6, <2>2
  <2>4. Has(Home[m], m)
    BY <1>6, <2>3 DEF Kept, Has
  <2>5. CASE i \in DOMAIN rows[Home[m]]
    BY <1>6, <2>3, <2>4, <2>5 DEF MemoriesInv, NoEcho
  <2>6. CASE ~Returns(Home[m], i)
    <3>1. i = <<m, rev[m], i[3]>>
      BY <1>6, <2>2, <2>3 DEF Records
    <3>2. i[3] # rows[Home[m]][m]
      BY <1>6, <2>4, <2>6, <3>1 DEF Returns, Own
    <3> QED BY <1>6, <2>2, <2>3, <2>4, <3>2 DEF AsOwn
  <2> QED BY <2>1, <2>5, <2>6
<1>7. NoEcho'
  BY <1>6 DEF NoEcho, Has
<1> QED BY <1>3, <1>5, <1>7 DEF MemoriesInv

\* A step of the operator on rows.
LEMMA RowsMove ==
  ASSUME MemoriesInv, RowsInv' /\ \A o \in Memories : Kept(o),
         UNCHANGED <<network, files, troubles, relabelled, overtaken>>, requests' \in Nat,
         \A n \in Nodes : DOMAIN rows'[n] \subseteq DOMAIN rows[n] \cup Memories
  PROVE  MemoriesInv'
<1>1. TrafficTyped' /\ CallsCarry'
  BY DEF MemoriesInv, TrafficTyped, CallsCarry, network
<1>2. \A b \in Bundle : InTraffic(b)' => InTraffic(b)
  BY DEF InTraffic, network
<1> QED BY <1>1, <1>2, SoundStep

\* A step that leaves the rows alone.
LEMMA TrafficMoves ==
  ASSUME MemoriesInv, UNCHANGED <<rows, rev, wanted, refused>>, relabelled \subseteq relabelled',
         TrafficTyped', CallsCarry',
         \A b \in Bundle : InTraffic(b)' => InTraffic(b) \/ \A x \in b.entries : Sound(x)'
  PROVE  MemoriesInv'
<1>1. RowsInv'
  BY DEF MemoriesInv, RowsInv, RowsTyped, OwnIsHome, RefusedIsRetracted, ActiveIsAsked, Active, Has
<1>2. \A o \in Memories : Kept(o)
  BY DEF MemoriesInv, RowsInv, RowsTyped, Kept
<1> QED BY <1>1, <1>2, SoundStep

\* An import of a bundle that was in traffic.
LEMMA ImportKeeps ==
  ASSUME MemoriesInv, NEW n \in Nodes, NEW b \in Bundle, InTraffic(b), NEW activate \in BOOLEAN,
         NEW remote \in BOOLEAN, Accepted(n, b, activate, remote), Import(n, b, activate),
         Asks(n, b, activate, remote), UNCHANGED <<refused, relabelled>>, TrafficTyped', CallsCarry',
         \A d \in Bundle : InTraffic(d)' => InTraffic(d)
  PROVE  MemoriesInv'
<1>1. RowsInv' /\ \A o \in Memories : Kept(o)
  BY ImportMoves DEF MemoriesInv
<1>2. ASSUME NEW k \in Nodes, NEW i \in DOMAIN rows'[k] \ Memories, i \notin DOMAIN rows[k]
      PROVE  Sound(i) /\ ~Returns(k, i)
  <2> DEFINE meant == {RowOf(n, x) : x \in b.entries}
  <2>1. DOMAIN rows = Nodes
    BY DEF MemoriesInv, RowsInv, RowsTyped
  <2>2. k = n /\ i \in meant
    <3>1. rows' = [rows EXCEPT ![n] = [j \in DOMAIN rows[n] \cup meant |->
                     IF j \notin DOMAIN rows[n] THEN Arrival(activate)
                     ELSE IF j \in meant THEN Promoted(rows[n][j], activate) ELSE rows[n][j]]]
      BY DEF Import, Meant
    <3> HIDE DEF meant
    <3>2. DOMAIN rows'[n] = DOMAIN rows[n] \cup meant
      BY <2>1, <3>1
    <3>3. k # n => rows'[k] = rows[k]
      BY <2>1, <3>1
    <3> QED BY <1>2, <3>2, <3>3
  <2>3. i \in b.entries /\ ~Returns(n, i)
    BY <1>2, <2>2, MeantRows
  <2> QED BY <2>2, <2>3 DEF MemoriesInv, TrafficSound
<1> QED BY <1>1, <1>2, SoundStep

-----------------------------------------------------------------------------
(* The invariant.                                                          *)

LEMMA MemoriesStart == Init => MemoriesInv
<1> SUFFICES ASSUME Init PROVE MemoriesInv
  OBVIOUS
<1> USE DEF Init
<1>1. RowsInv
  BY DEF RowsInv, RowsTyped, OwnIsHome, RefusedIsRetracted, ActiveIsAsked, Active, Has
<1>2. TrafficTyped /\ CallsCarry
  BY DEF TrafficTyped, CallsCarry, Resting, Call
<1>3. \A b \in Bundle : ~InTraffic(b)
  BY DEF InTraffic, Resting
<1>4. TrafficSound
  BY <1>3 DEF TrafficSound
<1>5. ImportedSound /\ NoEcho
  BY MemoriesAssumption DEF ImportedSound, NoEcho
<1> QED BY <1>1, <1>2, <1>4, <1>5 DEF MemoriesInv

\* What the operator and the agents do.
LEMMA OperatedStep == MemoriesInv /\ Operated => MemoriesInv'
<1> SUFFICES ASSUME MemoriesInv, Operated PROVE MemoriesInv'
  OBVIOUS
<1>0. /\ DOMAIN rows = Nodes /\ requests \in Nat /\ RowsInv /\ \A m \in Memories : Home[m] \in Nodes
      /\ UNCHANGED requests \/ requests' = requests + 1 => requests' \in Nat
  BY MemoriesAssumption DEF MemoriesInv, RowsInv, RowsTyped, TrafficTyped
<1>1. ASSUME NEW m \in Memories, NEW s \in {"ACTIVE", "CANDIDATE"}, Remember(m, s)
      PROVE  MemoriesInv'
  <2>1. \A n \in Nodes : DOMAIN rows'[n] \subseteq DOMAIN rows[n] \cup Memories
    BY <1>0, <1>1 DEF Remember, With
  <2> QED BY <1>0, <1>1, <2>1, RememberMoves, RowsMove DEF Remember, Request
<1>2. ASSUME NEW m \in Memories, NEW i \in DOMAIN rows[Home[m]],
             NEW s \in {"ACTIVE", "CANDIDATE"}, RememberInstead(m, i, s)
      PROVE  MemoriesInv'
  <2>1. \A n \in Nodes : DOMAIN rows'[n] \subseteq DOMAIN rows[n] \cup Memories
    BY <1>0, <1>2 DEF RememberInstead
  <2> QED BY <1>0, <1>2, <2>1, RememberInsteadMoves, RowsMove DEF RememberInstead, Request
<1>3. ASSUME NEW n \in Nodes, NEW i \in DOMAIN rows[n], Confirm(n, i)
      PROVE  MemoriesInv'
  <2>1. \A k \in Nodes : DOMAIN rows'[k] \subseteq DOMAIN rows[k] \cup Memories
    BY <1>0, <1>3 DEF Confirm, With
  <2> QED BY <1>0, <1>3, <2>1, ConfirmMoves, RowsMove DEF Confirm, Request
<1>4. ASSUME NEW n \in Nodes, NEW i \in DOMAIN rows[n], Forget(n, i)
      PROVE  MemoriesInv'
  <2>1. \A k \in Nodes : DOMAIN rows'[k] \subseteq DOMAIN rows[k] \cup Memories
    BY <1>0, <1>4 DEF Forget
  <2> QED BY <1>0, <1>4, <2>1, ForgetMoves, RowsMove DEF Forget, Request
<1>5. ASSUME NEW n \in Nodes, NEW i \in DOMAIN rows[n], NEW s \in {"ACTIVE", "RETRACTED"},
             SetStatus(n, i, s)
      PROVE  MemoriesInv'
  <2>1. \A k \in Nodes : DOMAIN rows'[k] \subseteq DOMAIN rows[k] \cup Memories
    BY <1>0, <1>5 DEF SetStatus, With
  <2> QED BY <1>0, <1>5, <2>1, SetStatusMoves, RowsMove DEF SetStatus, Request
<1>6. ASSUME NEW n \in Nodes, NEW all \in BOOLEAN, ExportFile(n, all)
      PROVE  MemoriesInv'
  <2>1. /\ UNCHANGED <<rows, rev, wanted, refused>>
        /\ relabelled' = relabelled \cup Labels(n, all)
        /\ files' = files \cup {Export(n, all)}
    BY <1>6 DEF ExportFile
  <2>2. /\ Export(n, all) \in Bundle /\ relabelled' \subseteq Records
        /\ \A x \in Export(n, all).entries : Sound(x)'
    BY <2>1, ExportSound
  <2>3. TrafficTyped' /\ CallsCarry'
    BY <1>0, <1>6, <2>1, <2>2 DEF Call, ExportFile, Request, MemoriesInv, TrafficTyped, CallsCarry, network
  <2>4. \A b \in Bundle : InTraffic(b)' => InTraffic(b) \/ b = Export(n, all)
    BY <1>6 DEF ExportFile, InTraffic, network
  <2> HIDE DEF Sound
  <2> QED BY <2>1, <2>2, <2>3, <2>4, TrafficMoves
<1>7. ASSUME NEW n \in Nodes, NEW b \in files, NEW activate \in BOOLEAN,
             NEW remote \in BOOLEAN, ImportFile(n, b, activate, remote)
      PROVE  MemoriesInv'
  <2>1. b \in Bundle /\ InTraffic(b)
    BY DEF MemoriesInv, TrafficTyped, InTraffic
  <2>2. TrafficTyped' /\ CallsCarry' /\ \A d \in Bundle : InTraffic(d)' => InTraffic(d)
    BY <1>0, <1>7 DEF ImportFile, Request, MemoriesInv, TrafficTyped, CallsCarry, InTraffic, network
  <2>3. /\ Accepted(n, b, activate, remote) /\ Import(n, b, activate)
        /\ Asks(n, b, activate, remote) /\ UNCHANGED <<refused, relabelled>>
    BY <1>7 DEF ImportFile
  <2> QED BY <2>1, <2>2, <2>3, ImportKeeps
<1> QED BY <1>1, <1>2, <1>3, <1>4, <1>5, <1>6, <1>7 DEF Operated

\* A push on its way keeps its bundle when it is marked.
LEMMA MarkedAlike ==
  ASSUME TrafficTyped, NEW w \in sent
  PROVE  /\ [w EXCEPT !.newest = FALSE] \in Push
         /\ [w EXCEPT !.newest = FALSE].bundle = w.bundle
         /\ [w EXCEPT !.awaited = FALSE] \in Push
         /\ [w EXCEPT !.awaited = FALSE].bundle = w.bundle
BY DEF TrafficTyped, Push

\* What the reactor and the network do.
LEMMA SynchronisedStep == MemoriesInv /\ Synchronised => MemoriesInv'
<1> SUFFICES ASSUME MemoriesInv, Synchronised PROVE MemoriesInv'
  OBVIOUS
<1> USE DEF Push, Call
<1> DEFINE Here(c) == NodeOf(c) \in Nodes /\ At(c) \in Providers
<1>0. /\ \A c \in Callers : Here(c)
      /\ TrafficTyped /\ CallsCarry /\ requests \in Nat /\ troubles \in Nat
      /\ requests' = requests + 1 => requests' \in Nat
      /\ troubles' = troubles + 1 => troubles' \in Nat
  BY DEF MemoriesInv, TrafficTyped, Callers, NodeOf, At
<1>1. ASSUME NEW c \in Callers, NEW f \in BOOLEAN, PullReads(c, f)
      PROVE  MemoriesInv'
  <2> DEFINE new == [phase |-> "pulling", activate |-> f, bundle |-> snapshot[At(c)]]
  <2>1. /\ call' = [call EXCEPT ![c] = new] /\ snapshot[At(c)] # None
        /\ UNCHANGED <<rows, rev, snapshot, sent, pushed, files, troubles, history>>
        /\ UNCHANGED requests \/ requests' = requests + 1
    BY <1>1 DEF PullReads, MayPull, Request
  <2>2. snapshot[At(c)] \in Bundle
    BY <1>0, <2>1 DEF TrafficTyped
  <2>3. new \in Call
    BY <2>2
  <2>4. TrafficTyped'
    BY <1>0, <2>1, <2>3 DEF TrafficTyped, history
  <2>5. /\ call'[c] = new /\ \A d \in Callers \ {c} : call'[d] = call[d]
    BY <1>0, <2>1 DEF TrafficTyped
  <2>6. CallsCarry'
    BY <1>0, <2>2, <2>5 DEF CallsCarry
  <2>7. \A b \in Bundle : InTraffic(b)' => InTraffic(b)
    BY <1>0, <2>1, <2>5 DEF InTraffic
  <2> QED BY <2>1, <2>4, <2>6, <2>7, TrafficMoves DEF history
<1>2. ASSUME NEW c \in Callers, NEW all \in BOOLEAN, PushBegins(c, all)
      PROVE  MemoriesInv'
  <2> DEFINE n == NodeOf(c)
             b == Export(n, all)
             new == [phase |-> "pushing", activate |-> FALSE, bundle |-> b]
             push == [caller |-> c, bundle |-> b, newest |-> TRUE, awaited |-> TRUE]
             mark(w) == IF At(w.caller) = At(c) THEN [w EXCEPT !.newest = FALSE] ELSE w
  <2>1. /\ sent' = {mark(w) : w \in sent} \cup {push}
        /\ call' = [call EXCEPT ![c] = new]
        /\ relabelled' = relabelled \cup Labels(n, all)
        /\ UNCHANGED <<rows, rev, snapshot, pushed, files, troubles, wanted, refused, overtaken>>
        /\ UNCHANGED requests \/ requests' = requests + 1
    BY <1>2 DEF PushBegins, MayPush, Request
  <2>2. b \in Bundle /\ relabelled' \subseteq Records /\ \A x \in b.entries : Sound(x)'
    BY <1>0, <2>1, ExportSound
  <2> HIDE DEF b, n
  <2>3. /\ sent' \subseteq Push
        /\ \A w \in sent' : w.bundle = b \/ \E v \in sent : v.bundle = w.bundle
    <3>1. push \in Push
      BY <2>2
    <3>2. push.bundle = b
      OBVIOUS
    <3>3. ASSUME NEW w \in sent
          PROVE  /\ mark(w) \in Push
                 /\ mark(w).bundle = w.bundle
      BY <1>0, MarkedAlike DEF TrafficTyped
    <3> HIDE DEF mark, push
    <3> QED BY <2>1, <3>1, <3>2, <3>3
  <2>4. new \in Call
    BY <2>2
  <2>5. /\ call'[c] = new /\ \A d \in Callers \ {c} : call'[d] = call[d]
    BY <1>0, <2>1 DEF TrafficTyped
  <2>6. TrafficTyped'
    BY <1>0, <2>1, <2>2, <2>3, <2>4 DEF TrafficTyped
  <2>7. CallsCarry'
    BY <1>0, <2>2, <2>5 DEF CallsCarry
  <2>8. \A d \in Bundle : InTraffic(d)' => InTraffic(d) \/ d = b
    BY <2>1, <2>3, <2>5 DEF InTraffic
  <2> QED BY <2>1, <2>2, <2>6, <2>7, <2>8, TrafficMoves
<1>3. ASSUME NEW c \in Callers, PullReturns(c)
      PROVE  MemoriesInv'
  <2>1. /\ call[c].phase = "pulling" /\ call' = [call EXCEPT ![c] = Resting]
        /\ UNCHANGED <<snapshot, sent, pushed, files, bounds, refused, relabelled, overtaken>>
    BY <1>3 DEF PullReturns
  <2>2. /\ call[c].bundle \in Bundle /\ call[c].activate \in BOOLEAN /\ InTraffic(call[c].bundle)
    BY <1>0, <2>1 DEF CallsCarry, InTraffic, TrafficTyped
  <2>3. /\ call'[c] = Resting /\ \A d \in Callers \ {c} : call'[d] = call[d]
        /\ Resting \in Call
    BY <1>0, <2>1 DEF TrafficTyped, Resting
  <2>4. TrafficTyped' /\ CallsCarry'
    BY <1>0, <2>1, <2>3 DEF TrafficTyped, CallsCarry, bounds, Resting
  <2>5. \A d \in Bundle : InTraffic(d)' => InTraffic(d)
    BY <2>1, <2>3 DEF InTraffic, Resting
  <2> DEFINE n == NodeOf(c)
             b == call[c].bundle
             activate == call[c].activate
             remote == At(c) \in Remote
  <2>8. n \in Nodes
    BY DEF NodeOf, Callers
  <2>6. CASE Accepted(n, b, activate, remote)
    <3>1. Import(n, b, activate) /\ Asks(n, b, activate, remote) /\ UNCHANGED <<refused, relabelled>>
      BY <1>3, <2>1, <2>6 DEF PullReturns
    <3>2. remote \in BOOLEAN /\ b \in Bundle /\ activate \in BOOLEAN /\ InTraffic(b)
      BY <2>2
    <3> HIDE DEF n, b, activate, remote
    <3> QED BY <2>4, <2>5, <2>6, <2>8, <3>1, <3>2, ImportKeeps
  <2>7. CASE ~Accepted(n, b, activate, remote)
    <3>1. UNCHANGED <<rows, rev, refused, relabelled>> /\ Asks(n, b, activate, remote)
      BY <1>3, <2>1, <2>7 DEF PullReturns
    <3>2. wanted' = wanted
      <4>1. wanted \in [Nodes -> SUBSET Ids]
        BY DEF MemoriesInv, RowsInv, RowsTyped
      <4>2. ~(activate /\ (remote => b.by \in Trusts[n]))
        BY <2>7 DEF Accepted
      <4> QED BY <3>1, <4>1, <4>2 DEF Asks
    <3> QED BY <2>4, <2>5, <3>1, <3>2, TrafficMoves
  <2> QED BY <2>6, <2>7
<1>4. ASSUME NEW c \in Callers, PushReturns(c)
      PROVE  MemoriesInv'
  <2>1. /\ call[c].phase = "pushing" /\ call' = [call EXCEPT ![c] = Resting]
        /\ pushed' \in {pushed, [pushed EXCEPT ![Pair(c)] = call[c].bundle.entries]}
        /\ UNCHANGED <<rows, rev, snapshot, sent, files, bounds, history>>
    BY <1>4 DEF PushReturns
  <2>2. call[c].bundle.entries \subseteq Records
    BY <1>0, <2>1 DEF CallsCarry, Bundle
  <2>3. /\ call'[c] = Resting /\ \A d \in Callers \ {c} : call'[d] = call[d]
        /\ Resting \in Call
    BY <1>0, <2>1 DEF TrafficTyped, Resting
  <2>4. pushed' \in [Pushes -> (SUBSET Records) \cup {None}]
    BY <1>0, <2>1, <2>2 DEF TrafficTyped
  <2>5. TrafficTyped' /\ CallsCarry'
    BY <1>0, <2>1, <2>3, <2>4 DEF TrafficTyped, CallsCarry, bounds, history, Resting
  <2>6. \A d \in Bundle : InTraffic(d)' => InTraffic(d)
    BY <2>1, <2>3 DEF InTraffic, Resting
  <2> QED BY <2>1, <2>5, <2>6, TrafficMoves DEF history
<1>5. ASSUME NEW c \in Callers, CallFails(c)
      PROVE  MemoriesInv'
  <2>1. /\ call' = [call EXCEPT ![c] = Resting] /\ sent' = Unawaited({c}) /\ pushed' = pushed
        /\ troubles' = troubles + 1
        /\ UNCHANGED <<rows, rev, snapshot, files, requests, history>>
    BY <1>5 DEF CallFails, Trouble, Failed
  <2>2. /\ sent' \subseteq Push
        /\ \A w \in sent' : \E v \in sent : v.bundle = w.bundle
    BY <1>0, <2>1 DEF TrafficTyped, Unawaited
  <2>3. /\ call'[c] = Resting /\ \A d \in Callers \ {c} : call'[d] = call[d]
        /\ Resting \in Call
    BY <1>0, <2>1 DEF TrafficTyped, Resting
  <2>4. TrafficTyped' /\ CallsCarry'
    BY <1>0, <2>1, <2>2, <2>3 DEF TrafficTyped, CallsCarry, history, Resting
  <2>5. \A d \in Callers : call'[d].phase # "idle" => call'[d] = call[d]
    BY <2>3 DEF Resting
  <2>6. snapshot' = snapshot /\ files' = files
    BY <2>1
  <2>7. \A d \in Bundle : InTraffic(d)' => InTraffic(d)
    BY <2>2, <2>5, <2>6 DEF InTraffic
  <2> QED BY <2>1, <2>4, <2>7, TrafficMoves DEF history
<1>6. ASSUME NEW n \in Nodes, Crash(n)
      PROVE  MemoriesInv'
  <2>1. /\ call' = [c \in Callers |-> IF NodeOf(c) = n THEN Resting ELSE call[c]]
        /\ sent' = Unawaited({c \in Callers : NodeOf(c) = n}) /\ troubles' = troubles + 1
        /\ UNCHANGED <<rows, rev, snapshot, pushed, files, requests, history>>
    BY <1>6 DEF Crash, Trouble
  <2>2. /\ sent' \subseteq Push
        /\ \A w \in sent' : \E v \in sent : v.bundle = w.bundle
    BY <1>0, <2>1 DEF TrafficTyped, Unawaited
  <2>3. /\ \A c \in Callers : call'[c] = Resting \/ call'[c] = call[c]
        /\ Resting \in Call
    BY <1>0, <2>1 DEF TrafficTyped, Resting
  <2>4. TrafficTyped' /\ CallsCarry'
    BY <1>0, <2>1, <2>2, <2>3 DEF TrafficTyped, CallsCarry, history, Resting
  <2>5. \A c \in Callers : call'[c].phase # "idle" => call'[c] = call[c]
    BY <2>3 DEF Resting
  <2>6. snapshot' = snapshot /\ files' = files
    BY <2>1
  <2>7. \A d \in Bundle : InTraffic(d)' => InTraffic(d)
    BY <2>2, <2>5, <2>6 DEF InTraffic
  <2> QED BY <2>1, <2>4, <2>7, TrafficMoves DEF history
<1>7. ASSUME NEW w \in sent, Lands(w)
      PROVE  MemoriesInv'
  <2>1. w.caller \in Callers /\ w.bundle \in Bundle
    BY <1>0 DEF TrafficTyped
  <2>2. /\ sent' = sent \ {w} /\ snapshot' = [snapshot EXCEPT ![At(w.caller)] = w.bundle]
        /\ overtaken' \subseteq overtaken \cup {At(w.caller)}
        /\ UNCHANGED <<rows, rev, call, pushed, files, bounds, wanted, refused, relabelled>>
    BY <1>7 DEF Lands
  <2>3. snapshot' \in [Providers -> Bundle \cup {None}] /\ overtaken' \subseteq Providers
    BY <1>0, <2>1, <2>2 DEF TrafficTyped
  <2>4. TrafficTyped' /\ CallsCarry'
    BY <1>0, <2>2, <2>3 DEF TrafficTyped, CallsCarry, bounds
  <2>5. \A d \in Bundle : InTraffic(d)' => InTraffic(d)
    <3>1. \A p \in Providers : snapshot'[p] = snapshot[p] \/ snapshot'[p] = w.bundle
      BY <1>0, <2>2 DEF TrafficTyped
    <3> QED BY <2>2, <3>1 DEF InTraffic
  <2> QED BY <2>2, <2>4, <2>5, TrafficMoves
<1>8. ASSUME NEW w \in sent, IsLost(w)
      PROVE  MemoriesInv'
  <2>1. /\ sent' = sent \ {w}
        /\ UNCHANGED <<rows, rev, snapshot, call, pushed, files, bounds, history>>
    BY <1>8 DEF IsLost
  <2>2. TrafficTyped' /\ CallsCarry'
    BY <1>0, <2>1 DEF TrafficTyped, CallsCarry, bounds, history
  <2>3. \A d \in Bundle : InTraffic(d)' => InTraffic(d)
    BY <2>1 DEF InTraffic
  <2> QED BY <2>1, <2>2, <2>3, TrafficMoves DEF history
<1> QED BY <1>1, <1>2, <1>3, <1>4, <1>5, <1>6, <1>7, <1>8 DEF Synchronised

LEMMA MemoriesStutter == MemoriesInv /\ UNCHANGED vars => MemoriesInv'
<1> SUFFICES ASSUME MemoriesInv, UNCHANGED vars PROVE MemoriesInv'
  OBVIOUS
<1>1. TrafficTyped' /\ CallsCarry'
  BY DEF MemoriesInv, TrafficTyped, CallsCarry, vars, network, bounds, history
<1>2. \A d \in Bundle : InTraffic(d)' => InTraffic(d)
  BY DEF InTraffic, vars, network
<1> QED BY <1>1, <1>2, TrafficMoves DEF vars, history

\* The invariant holds throughout.
THEOREM MemoriesSound == Spec => []MemoriesInv
<1>1. MemoriesInv /\ [Next]_vars => MemoriesInv'
  BY OperatedStep, SynchronisedStep, MemoriesStutter DEF Next
<1> QED BY MemoriesStart, <1>1, PTL DEF Spec

\* The types of rows, calls, bundles and sync states
\* (memory-portability.js:154-191, store.js:2327-2383).
THEOREM MemoriesTypes == Spec => []MemoriesTypeOK
<1>1. MemoriesInv => MemoriesTypeOK
  BY DEF MemoriesInv, RowsInv, RowsTyped, TrafficTyped, MemoriesTypeOK
<1> QED BY MemoriesSound, <1>1, PTL

\* Between any number of instances, providers and bundles that come late,
\* again or changed, no row is recalled unless it was asked for here or is a
\* trusted signer's, whatever untrusted ones have sent before and after, and no
\* row that was taken back is (memory-portability.js:631-753).
THEOREM NothingUnwanted == Spec => []ActiveIsWanted
<1>1. MemoriesInv => ActiveIsWanted
  <2> SUFFICES ASSUME RowsInv, NEW n \in Nodes, NEW i \in Active(n)
               PROVE  i \in wanted[n] /\ i \notin refused[n]
    BY DEF MemoriesInv, ActiveIsWanted
  <2>1. i \in wanted[n]
    BY DEF RowsInv, ActiveIsAsked
  <2>2. rows[n][i] # "RETRACTED"
    BY DEF Active
  <2> QED BY <2>1, <2>2 DEF RowsInv, RefusedIsRetracted
<1> QED BY MemoriesSound, <1>1, PTL

\* However a record travels, through any number of instances and times, it
\* makes no copy of the memory it came from (memory-portability.js:193-231
\* and 652-668).
THEOREM NoCopies == Spec => []NoEcho
<1>1. MemoriesInv => NoEcho
  BY DEF MemoriesInv
<1> QED BY MemoriesSound, <1>1, PTL
=============================================================================
