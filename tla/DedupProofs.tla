---------------------------- MODULE DedupProofs ----------------------------
(***************************************************************************)
(* Theorems about the duplicate window, for every capacity, every largest  *)
(* identifier and every set of results below it.                           *)
(*                                                                         *)
(* At MaxId itself advance throws (AdvanceThrows), so the theorems about   *)
(* what is seen assume that no result carries that identifier.             *)
(***************************************************************************)
EXTENDS Dedup, TLAPS, WellFoundedInduction

-----------------------------------------------------------------------------
(* Every nonempty set of naturals has a least element.                     *)
LEMMA LeastElement ==
    ASSUME NEW T \in SUBSET Nat, T # {}
    PROVE  \E x \in T : \A y \in T : x <= y
<1>1. \E x \in T : \A y \in T : ~ (<<y, x>> \in OpToRel(<, Nat))
  BY NatLessThanWellFounded, WFMin
<1>2. ASSUME NEW x \in T, NEW y \in T, ~ (<<y, x>> \in OpToRel(<, Nat))
      PROVE  x <= y
  <2>1. ~ (y < x)
    BY <1>2 DEF OpToRel
  <2>2. QED
    BY <2>1
<1>3. QED
  BY <1>1, <1>2

(* The recursion of advance has a place to stop, at the latest at MaxId:   *)
(* AdvancedMark is the end of the run of identifiers that starts after     *)
(* from.                                                                   *)
LEMMA AdvancedMarkExists ==
    ASSUME NEW from \in TighteningId, NEW ahead \in SUBSET TighteningId
    PROVE  /\ AdvancedMark(from, ahead) \in TighteningId
           /\ IsAdvancedMark(AdvancedMark(from, ahead), from, ahead)
<1> DEFINE Stops == {n \in Nat : from <= n /\ n + 1 \notin ahead}
<1>1. MaxId \in Stops
  BY MaxIdAssumption DEF TighteningId
<1>2. PICK m \in Stops : \A n \in Stops : m <= n
  <2>1. Stops \in SUBSET Nat /\ Stops # {}
    BY <1>1
  <2>2. QED
    BY <2>1, LeastElement
<1>3. m \in TighteningId
  BY <1>1, <1>2, MaxIdAssumption DEF TighteningId
<1>4. ASSUME NEW i \in TighteningId, from < i, i <= m
      PROVE  i \in ahead
  <2>1. i - 1 \in Nat /\ from <= i - 1 /\ i - 1 < m
    BY <1>3, <1>4, MaxIdAssumption DEF TighteningId
  <2>2. i - 1 \notin Stops
    BY <1>2, <1>3, <2>1, MaxIdAssumption DEF TighteningId
  <2>3. QED
    BY <2>1, <2>2, <1>4, MaxIdAssumption DEF TighteningId
<1>5. IsAdvancedMark(m, from, ahead)
  BY <1>2, <1>4 DEF IsAdvancedMark
<1>6. \E n \in TighteningId : IsAdvancedMark(n, from, ahead)
  BY <1>3, <1>5
<1>7. QED
  BY <1>6 DEF AdvancedMark

-----------------------------------------------------------------------------
(* What record keeps: everything it held except possibly the evicted head, *)
(* and the new identifier.                                                 *)
LEMMA RecordFields ==
    ASSUME NEW w \in Window, NEW id \in TighteningId
    PROVE  /\ Record(w, id).watermark = w.watermark
           /\ Record(w, id).ahead = w.ahead
           /\ Record(w, id).baseline = w.baseline
           /\ Record(w, id).emptyHistory = w.emptyHistory
           /\ Record(w, id).claimed = w.claimed
           /\ Record(w, id).ids \subseteq w.ids \cup {id}
           /\ Record(w, id).order \in Seq(TighteningId)
           /\ Record(w, id) \in Window
<1>1. CASE id \in w.ids
  BY <1>1 DEF Record, Window
<1>2. CASE id \notin w.ids /\ Len(w.order) < Capacity
  <2>1. Append(w.order, id) \in Seq(TighteningId)
    BY DEF Window
  <2>2. w.ids \cup {id} \in SUBSET TighteningId
    BY DEF Window
  <2>3. QED
    BY <1>2, <2>1, <2>2 DEF Record, Window
<1>3. CASE id \notin w.ids /\ ~(Len(w.order) < Capacity)
  <2>1. w.order \in Seq(TighteningId) /\ w.order # <<>>
    BY <1>3, CapacityAssumption DEF Window
  <2>2. Append(Tail(w.order), id) \in Seq(TighteningId)
    BY <2>1
  <2>3. (w.ids \ {Head(w.order)}) \cup {id} \in SUBSET TighteningId
    BY DEF Window
  <2>4. QED
    BY <1>3, <2>2, <2>3 DEF Record, Window
<1>4. QED
  BY <1>1, <1>2, <1>3

(* The set and the queue of the window stay one, as record updates both.   *)
LEMMA RecordAgrees ==
    ASSUME NEW w \in Window, NEW id \in TighteningId,
           Len(w.order) <= Capacity,
           w.ids = {w.order[i] : i \in 1 .. Len(w.order)},
           \A i, j \in 1 .. Len(w.order) : w.order[i] = w.order[j] => i = j,
           NEW r, r = Record(w, id)
    PROVE  /\ Len(r.order) <= Capacity
           /\ r.ids = {r.order[i] : i \in 1 .. Len(r.order)}
           /\ \A i, j \in 1 .. Len(r.order) : r.order[i] = r.order[j] => i = j
<1> DEFINE o == w.order
<1>0. o \in Seq(TighteningId) /\ Len(o) \in Nat
  BY DEF Window
<1>1. CASE id \in w.ids
  BY <1>1 DEF Record
<1>2. CASE id \notin w.ids /\ Len(o) < Capacity
  <2>1. r.order = Append(o, id) /\ r.ids = w.ids \cup {id}
    BY <1>2 DEF Record, Window
  <2>2. /\ Len(Append(o, id)) = Len(o) + 1
        /\ \A i \in 1 .. Len(o) : Append(o, id)[i] = o[i]
        /\ Append(o, id)[Len(o) + 1] = id
    BY <1>0
  <2>3. QED
    BY <1>0, <1>2, <2>1, <2>2, CapacityAssumption
<1>3. CASE id \notin w.ids /\ ~(Len(o) < Capacity)
  <2>1. o # <<>>
    BY <1>0, <1>3, CapacityAssumption
  <2>2. /\ r.order = Append(Tail(o), id)
        /\ r.ids = (w.ids \ {Head(o)}) \cup {id}
    BY <1>3 DEF Record, Window
  <2>3. /\ Tail(o) \in Seq(TighteningId)
        /\ Len(Tail(o)) = Len(o) - 1
        /\ \A i \in 1 .. Len(o) - 1 : Tail(o)[i] = o[i + 1]
        /\ Head(o) = o[1]
    BY <1>0, <2>1
  <2> DEFINE a == Append(Tail(o), id)
  <2>4. /\ Len(a) = Len(o)
        /\ \A i \in 1 .. Len(o) - 1 : a[i] = o[i + 1]
        /\ a[Len(o)] = id
    BY <1>0, <2>1, <2>3
  <2> HIDE DEF a
  <2>5. \A x : x \in {a[i] : i \in 1 .. Len(a)}
              <=> x = id \/ \E i \in 2 .. Len(o) : x = o[i]
    <3>1. ASSUME NEW i \in 1 .. Len(a)
          PROVE  a[i] = id \/ \E j \in 2 .. Len(o) : a[i] = o[j]
      <4>1. CASE i = Len(o)
        BY <2>4, <4>1
      <4>2. CASE i # Len(o)
        <5>1. i + 1 \in 2 .. Len(o) /\ a[i] = o[i + 1]
          BY <1>0, <2>4, <4>2
        <5>2. QED
          BY <5>1
      <4>3. QED
        BY <4>1, <4>2
    <3>2. ASSUME NEW i \in 2 .. Len(o)
          PROVE  i - 1 \in 1 .. Len(a) /\ a[i - 1] = o[i]
      BY <1>0, <2>4
    <3>3. Len(o) \in 1 .. Len(a)
      BY <1>0, <2>1, <2>4
    <3>4. QED
      BY <2>4, <3>1, <3>2, <3>3, SMTT(30)
  <2>6. \A x : x \in w.ids \ {o[1]} <=> \E i \in 2 .. Len(o) : x = o[i]
    BY <1>0, <2>1
  <2>7. r.ids = {a[i] : i \in 1 .. Len(a)}
    <3> DEFINE held == {a[i] : i \in 1 .. Len(a)}
    <3>1. \A x : x \in r.ids <=> x = id \/ x \in w.ids \ {o[1]}
      BY <2>2, <2>3
    <3>2. \A x : x \in held <=> x = id \/ x \in w.ids \ {o[1]}
      BY <2>5, <2>6
    <3> HIDE DEF held
    <3>3. \A x : x \in r.ids <=> x \in held
      BY <3>1, <3>2
    <3>4. r.ids = held
      BY <3>3
    <3>5. QED
      BY <3>4 DEF held
  <2>8. ASSUME NEW i \in 1 .. Len(a), NEW j \in 1 .. Len(a), a[i] = a[j]
        PROVE  i = j
    <3>1. \A k \in 1 .. Len(o) : o[k] # id
      BY <1>3
    <3>2. QED
      BY <1>0, <2>4, <2>8, <3>1
  <2>9. QED
    <3>1. r.order = a
      BY <2>2 DEF a
    <3>2. Len(a) <= Capacity
      BY <1>0, <1>3, <2>4
    <3>3. QED
      BY <2>7, <2>8, <3>1, <3>2
<1>4. QED
  BY <1>1, <1>2, <1>3

(* The updates of the interface take windows to windows.                   *)
LEMMA UpdatesAreWindows ==
    ASSUME NEW w \in Window, NEW id \in TighteningId
    PROVE  /\ Remember(w, id) \in Window
           /\ MarkBaseline(w, id) \in Window
           /\ MarkNoHistory(w) \in Window
           /\ Claim(w, id) \in Window
           /\ Release(w, id) \in Window
<1>1. Remember(w, id) \in Window
  <2> DEFINE kept == [Record(w, id) EXCEPT !.claimed = @ \ {id}]
             mark == AdvancedMark(id, w.ahead \ {id})
             left == Unwalked(id, kept.ahead \ {id})
             apart == kept.ahead \cup {id}
  <2>1. kept \in Window
    BY RecordFields DEF Window
  <2>2. w.ahead \ {id} \in SUBSET TighteningId
    BY DEF Window
  <2>3. mark \in TighteningId
    BY <2>2, AdvancedMarkExists
  <2>4. left \in SUBSET TighteningId /\ apart \in SUBSET TighteningId
    BY <2>1 DEF Window, Unwalked
  <2> HIDE DEF kept, mark, left, apart
  <2>5. /\ [kept EXCEPT !.watermark = mark, !.ahead = left] \in Window
        /\ [kept EXCEPT !.ahead = apart] \in Window
    BY <2>1, <2>3, <2>4 DEF Window
  <2>6. QED
    BY <2>5 DEF Remember, kept, mark, left, apart
<1>2. MarkBaseline(w, id) \in Window
  <2> DEFINE mark == AdvancedMark(id, Above(id, w.ahead))
             left == Unwalked(id, Above(id, w.ahead))
  <2>1. Above(id, w.ahead) \in SUBSET TighteningId
    BY DEF Window, Above
  <2>2. mark \in TighteningId
    BY <2>1, AdvancedMarkExists
  <2>3. left \in SUBSET TighteningId
    BY <2>1 DEF Unwalked
  <2> HIDE DEF mark, left
  <2>4. [w EXCEPT !.baseline = id, !.watermark = mark, !.ahead = left]
        \in Window
    BY <2>2, <2>3 DEF Window
  <2>5. QED
    BY <2>4 DEF MarkBaseline, mark, left
<1>3. MarkNoHistory(w) \in Window
  BY DEF MarkNoHistory, Window
<1>4. Claim(w, id) \in Window /\ Release(w, id) \in Window
  <2>1. w.claimed \cup {id} \in SUBSET TighteningId
    BY DEF Window
  <2>2. QED
    BY <2>1 DEF Claim, Release, Window
<1>5. QED
  BY <1>1, <1>2, <1>3, <1>4

-----------------------------------------------------------------------------
(* The window and its history are always of their types, whatever is asked *)
(* of Dedup.ts and in whatever order.                                      *)
THEOREM TypeCorrect == Spec => []TypeOK
<1>1. Init => TypeOK
  BY DEF Init, TypeOK, EmptyWindow, Window, TighteningId, NoId
<1>2. TypeOK /\ [Next]_vars => TypeOK'
  <2> SUFFICES ASSUME TypeOK, [Next]_vars
               PROVE  TypeOK'
    OBVIOUS
  <2>0. ResultIds \cup {0} \subseteq TighteningId
    BY ResultIdsAssumption, MaxIdAssumption DEF TighteningId
  <2>1. ASSUME NEW id \in ResultIds, RememberResult(id)
        PROVE  TypeOK'
    BY <2>0, <2>1, UpdatesAreWindows DEF TypeOK, RememberResult
  <2>2. ASSUME NEW id \in ResultIds \cup {0}, SetBaseline(id)
        PROVE  TypeOK'
    BY <2>0, <2>2, UpdatesAreWindows DEF TypeOK, SetBaseline
  <2>3. CASE NoteEmptyHistory
    BY <2>0, <2>3, UpdatesAreWindows DEF TypeOK, NoteEmptyHistory
  <2>4. ASSUME NEW id \in ResultIds, ClaimResult(id)
        PROVE  TypeOK'
    BY <2>0, <2>4, UpdatesAreWindows DEF TypeOK, ClaimResult
  <2>5. ASSUME NEW id \in ResultIds, ReleaseResult(id)
        PROVE  TypeOK'
    BY <2>0, <2>5, UpdatesAreWindows DEF TypeOK, ReleaseResult
  <2>6. CASE UNCHANGED vars
    BY <2>6 DEF TypeOK, vars
  <2>7. QED
    BY <2>1, <2>2, <2>3, <2>4, <2>5, <2>6 DEF Next
<1>3. QED
  BY <1>1, <1>2, PTL DEF Spec

(* The hand-kept set and queue of the last Capacity identifiers never      *)
(* disagree: every eviction removes the oldest from both.                  *)
THEOREM WindowAlwaysAgrees == Spec => []WindowAgrees
<1>1. Init => WindowAgrees
  BY CapacityAssumption DEF Init, WindowAgrees, EmptyWindow
<1>2. TypeOK /\ WindowAgrees /\ [Next]_vars => WindowAgrees'
  <2> SUFFICES ASSUME TypeOK, WindowAgrees, [Next]_vars
               PROVE  WindowAgrees'
    OBVIOUS
  <2>1. ASSUME NEW id \in ResultIds, RememberResult(id)
        PROVE  WindowAgrees'
    <3>1. CASE RememberThrows(window, id)
      BY <2>1, <3>1 DEF RememberResult, WindowAgrees
    <3>2. CASE ~RememberThrows(window, id)
      <4> DEFINE r == Record(window, id)
      <4>1. id \in TighteningId /\ window \in Window /\ r \in Window
        BY ResultIdsAssumption, RecordFields DEF TypeOK
      <4>2. window'.ids = r.ids /\ window'.order = r.order
        <5> HIDE DEF r
        <5>1. window' = Remember(window, id)
          BY <2>1, <3>2 DEF RememberResult
        <5>2. Remember(window, id).ids = r.ids
              /\ Remember(window, id).order = r.order
          BY <4>1 DEF Remember, Window, r
        <5>3. QED
          BY <5>1, <5>2
      <4>3. /\ Len(r.order) <= Capacity
            /\ r.ids = {r.order[i] : i \in 1 .. Len(r.order)}
            /\ \A i, j \in 1 .. Len(r.order) :
                   r.order[i] = r.order[j] => i = j
        <5> HIDE DEF r
        <5>1. r = Record(window, id)
          BY DEF r
        <5>2. QED
          BY <4>1, <5>1, RecordAgrees DEF WindowAgrees
      <4>4. QED
        BY <4>2, <4>3 DEF WindowAgrees
    <3>3. QED
      BY <3>1, <3>2
  <2>2. ASSUME window'.ids = window.ids, window'.order = window.order
        PROVE  WindowAgrees'
    BY <2>2 DEF WindowAgrees
  <2>3. ASSUME NEW id \in ResultIds \cup {0}, SetBaseline(id)
        PROVE  WindowAgrees'
    BY <2>2, <2>3 DEF SetBaseline, MarkBaseline, TypeOK, Window
  <2>4. CASE NoteEmptyHistory
    BY <2>2, <2>4 DEF NoteEmptyHistory, MarkNoHistory, TypeOK, Window
  <2>5. ASSUME NEW id \in ResultIds, ClaimResult(id) \/ ReleaseResult(id)
        PROVE  WindowAgrees'
    BY <2>2, <2>5 DEF ClaimResult, ReleaseResult, Claim, Release, TypeOK, Window
  <2>6. CASE UNCHANGED vars
    BY <2>2, <2>6 DEF vars
  <2>7. QED
    BY <2>1, <2>3, <2>4, <2>5, <2>6 DEF Next
<1>3. QED
  BY <1>1, <1>2, TypeCorrect, PTL DEF Spec

-----------------------------------------------------------------------------
(* The inductive invariant behind exactness.  Without a baseline ahead     *)
(* holds everything remembered; with one, the run from the baseline to the *)
(* watermark was remembered, ahead holds what was remembered above the     *)
(* watermark, and the identifier that would extend the run was not.        *)
Accounted ==
    /\ window.ids \subseteq remembered
    /\ window.ahead \subseteq remembered
    /\ window.baseline = NoId <=> window.watermark = NoId
    /\ window.baseline <= window.watermark
    /\ \A id \in TighteningId :
          window.baseline < id /\ id <= window.watermark => id \in remembered
    /\ \A id \in remembered : id > window.watermark => id \in window.ahead
    /\ window.watermark # NoId => window.watermark + 1 \notin window.ahead

(* What advance leaves behind: nothing it skipped, and nothing next.       *)
LEMMA AdvanceKeepsAccount ==
    ASSUME NEW from \in TighteningId, NEW ahead \in SUBSET TighteningId,
           NEW mark, mark = AdvancedMark(from, ahead),
           NEW left, left = Unwalked(from, ahead)
    PROVE  /\ mark \in TighteningId /\ from <= mark
           /\ \A id \in TighteningId : from < id /\ id <= mark => id \in ahead
           /\ left \subseteq ahead
           /\ \A id \in ahead : id > mark => id \in left
           /\ mark + 1 \notin left
BY AdvancedMarkExists DEF IsAdvancedMark, Unwalked

(* Remembering a result keeps the account: in the gap the run grows over   *)
(* what waited in ahead, elsewhere the identifier joins ahead.             *)
LEMMA RememberKeepsAccount ==
    ASSUME TypeOK, Accounted, NEW id \in ResultIds, RememberResult(id),
           MaxId \notin ResultIds
    PROVE  Accounted'
<1> DEFINE w == window
           v == window'
<1>0. /\ w \in Window /\ id \in TighteningId
      /\ remembered \subseteq ResultIds /\ remembered \subseteq TighteningId
      /\ remembered' = remembered \cup {id}
      /\ id # MaxId
  BY ResultIdsAssumption DEF TypeOK, RememberResult
<1>1. CASE ClosesGap(w, id)
  <2> DEFINE apart == w.ahead \ {id}
             mark == AdvancedMark(id, apart)
             left == Unwalked(id, apart)
  <2>1. apart \in SUBSET TighteningId /\ apart \subseteq remembered
    BY <1>0 DEF Window, Accounted
  <2>2. /\ mark \in TighteningId /\ id <= mark
        /\ \A i \in TighteningId : id < i /\ i <= mark => i \in apart
        /\ left \subseteq apart
        /\ \A i \in apart : i > mark => i \in left
        /\ mark + 1 \notin left
    <3> HIDE DEF apart
    <3>1. QED
      BY <1>0, <2>1, AdvanceKeepsAccount
  <2>3. mark # MaxId
    <3> HIDE DEF mark, left, apart
    <3>1. MaxId \notin apart
      BY <1>0, <2>1
    <3>2. MaxId \in TighteningId
      BY MaxIdAssumption DEF TighteningId
    <3>3. id <= MaxId /\ ~(id < MaxId /\ MaxId <= mark)
      BY <1>0, <2>2, <3>1, <3>2 DEF TighteningId
    <3>4. QED
      BY <1>0, <3>2, <3>3 DEF TighteningId
  <2>4. ~RememberThrows(w, id)
    BY <2>3 DEF RememberThrows, AdvanceThrows
  <2> HIDE DEF mark, left
  <2>5. v = Remember(w, id)
    BY <2>4 DEF RememberResult
  <2>6. /\ v.ids \subseteq w.ids \cup {id}
        /\ v.baseline = w.baseline
        /\ v.watermark = mark
        /\ v.ahead = left
    BY <1>0, <1>1, <2>5, RecordFields, ZenonT(40) DEF Remember, Window, mark, left
  <2>7. /\ w.watermark \in TighteningId /\ id = w.watermark + 1
        /\ w.baseline \in TighteningId /\ w.baseline <= w.watermark
    BY <1>0, <1>1 DEF ClosesGap, Accounted, Window
  <2>8. /\ v.ids \subseteq remembered' /\ v.ahead \subseteq remembered'
        /\ v.baseline # NoId /\ v.watermark # NoId
        /\ v.baseline <= v.watermark
        /\ v.watermark + 1 \notin v.ahead
    BY <1>0, <2>1, <2>2, <2>6, <2>7 DEF Accounted, TighteningId, NoId
  <2>9. ASSUME NEW i \in TighteningId, v.baseline < i, i <= v.watermark
        PROVE  i \in remembered'
    <3>1. CASE i <= w.watermark
      BY <1>0, <2>6, <2>9, <3>1 DEF Accounted
    <3>2. CASE i = id
      BY <1>0, <3>2
    <3>3. CASE i > id
      BY <1>0, <2>1, <2>2, <2>6, <2>9, <3>3
    <3>4. QED
      BY <2>7, <3>1, <3>2, <3>3 DEF TighteningId
  <2>10. ASSUME NEW i \in remembered', i > v.watermark
         PROVE  i \in v.ahead
    <3>1. i \in TighteningId /\ i # id /\ i > w.watermark /\ i \in remembered
      BY <1>0, <2>2, <2>6, <2>7, <2>10 DEF TighteningId
    <3>2. i \in apart
      BY <3>1 DEF Accounted
    <3>3. QED
      BY <2>2, <2>6, <2>10, <3>2
  <2>11. QED
    BY <2>8, <2>9, <2>10 DEF Accounted
<1>2. CASE ~ClosesGap(w, id)
  <2>1. v = Remember(w, id)
    BY <1>2 DEF RememberResult, RememberThrows
  <2>2. /\ v.ids \subseteq w.ids \cup {id}
        /\ v.baseline = w.baseline
        /\ v.watermark = w.watermark
        /\ v.ahead = w.ahead \cup {id}
    BY <1>0, <1>2, <2>1, RecordFields DEF Remember, Window
  <2>3. w.watermark # NoId => w.watermark + 1 # id
    BY <1>2 DEF ClosesGap
  <2>4. QED
    BY <1>0, <2>2, <2>3 DEF Accounted
<1>3. QED
  BY <1>1, <1>2

(* The first baseline starts the run where it is declared, and any other   *)
(* leaves the window alone (markBaseline).                                 *)
LEMMA BaselineKeepsAccount ==
    ASSUME TypeOK, Accounted, NEW id \in ResultIds \cup {0}, SetBaseline(id)
    PROVE  Accounted'
<1> DEFINE w == window
           v == window'
           above == Above(id, w.ahead)
           mark == AdvancedMark(id, above)
           left == Unwalked(id, above)
<1>0. /\ w \in Window /\ id \in TighteningId
      /\ remembered \subseteq TighteningId
      /\ remembered' = remembered
  BY ResultIdsAssumption, MaxIdAssumption
     DEF TypeOK, SetBaseline, TighteningId
<1>1. CASE MarkBaselineThrows(w, id) \/ w.watermark # NoId
  <2>1. v = w
    BY <1>1 DEF SetBaseline, MarkBaseline
  <2>2. QED
    BY <1>0, <2>1 DEF Accounted
<1>2. CASE ~MarkBaselineThrows(w, id) /\ w.watermark = NoId
  <2>1. /\ above \in SUBSET TighteningId /\ above \subseteq w.ahead
        /\ \A i \in w.ahead : i > id => i \in above
    BY <1>0 DEF Window, Above
  <2>2. /\ mark \in TighteningId /\ id <= mark
        /\ \A i \in TighteningId : id < i /\ i <= mark => i \in above
        /\ left \subseteq above
        /\ \A i \in above : i > mark => i \in left
        /\ mark + 1 \notin left
    <3> HIDE DEF above
    <3>1. QED
      BY <1>0, <2>1, AdvanceKeepsAccount
  <2> HIDE DEF mark, left
  <2>3. /\ v.ids = w.ids
        /\ v.baseline = id
        /\ v.watermark = mark
        /\ v.ahead = left
    <3>1. v = MarkBaseline(w, id)
      BY <1>2 DEF SetBaseline
    <3>2. QED
      BY <1>0, <1>2, <3>1 DEF MarkBaseline, Window, mark, left
  <2> HIDE DEF above
  <2>4. /\ v.ids \subseteq remembered' /\ v.ahead \subseteq remembered'
        /\ v.baseline # NoId /\ v.watermark # NoId
        /\ v.baseline <= v.watermark
        /\ v.watermark + 1 \notin v.ahead
    BY <1>0, <2>1, <2>2, <2>3 DEF Accounted, TighteningId, NoId
  <2>5. \A i \in TighteningId :
           v.baseline < i /\ i <= v.watermark => i \in remembered'
    BY <1>0, <2>1, <2>2, <2>3 DEF Accounted
  <2>6. ASSUME NEW i \in remembered', i > v.watermark
        PROVE  i \in v.ahead
    <3>1. i \in TighteningId /\ i > mark /\ i > id
      BY <1>0, <2>2, <2>3, <2>6 DEF TighteningId
    <3>2. i \in w.ahead
      BY <1>0, <1>2, <2>6, <3>1 DEF Accounted, TighteningId, NoId
    <3>3. QED
      BY <2>1, <2>2, <2>3, <3>1, <3>2
  <2>7. QED
    BY <2>4, <2>5, <2>6 DEF Accounted
<1>3. QED
  BY <1>1, <1>2

(* Accounted is an invariant of the window (Dedup.ts), given its types.    *)
LEMMA AccountedInvariant ==
    ASSUME MaxId \notin ResultIds
    PROVE  Spec => []Accounted
<1>1. Init => Accounted
  BY DEF Init, Accounted, EmptyWindow, NoId, TighteningId
<1>2. TypeOK /\ Accounted /\ [Next]_vars => Accounted'
  <2> SUFFICES ASSUME TypeOK, Accounted, [Next]_vars
               PROVE  Accounted'
    OBVIOUS
  <2>1. ASSUME NEW id \in ResultIds, RememberResult(id)
        PROVE  Accounted'
    BY <2>1, RememberKeepsAccount
  <2>2. ASSUME NEW id \in ResultIds \cup {0}, SetBaseline(id)
        PROVE  Accounted'
    BY <2>2, BaselineKeepsAccount
  <2>3. ASSUME window'.ids = window.ids, window'.ahead = window.ahead,
               window'.baseline = window.baseline,
               window'.watermark = window.watermark,
               UNCHANGED remembered
        PROVE  Accounted'
    BY <2>3 DEF Accounted
  <2>4. CASE NoteEmptyHistory
    BY <2>3, <2>4 DEF NoteEmptyHistory, MarkNoHistory, TypeOK, Window
  <2>5. ASSUME NEW id \in ResultIds, ClaimResult(id) \/ ReleaseResult(id)
        PROVE  Accounted'
    BY <2>3, <2>5 DEF ClaimResult, ReleaseResult, Claim, Release, TypeOK, Window
  <2>6. CASE UNCHANGED vars
    BY <2>3, <2>6 DEF vars
  <2>7. QED
    BY <2>1, <2>2, <2>4, <2>5, <2>6 DEF Next
<1>3. QED
  BY <1>1, <1>2, TypeCorrect, PTL DEF Spec

(* Above the baseline seen is exact for every capacity: what was delivered *)
(* is never delivered again because it was evicted, and what was not is    *)
(* never dropped as a duplicate.                                           *)
THEOREM SeenIsExact ==
    ASSUME MaxId \notin ResultIds
    PROVE  Spec => []ExactAboveBaseline
<1>1. TypeOK /\ Accounted => ExactAboveBaseline
  <2> SUFFICES ASSUME TypeOK, Accounted,
                      NEW id \in ResultIds, id > window.baseline
               PROVE  Seen(window, id) <=> id \in remembered
    BY DEF ExactAboveBaseline
  <2>1. /\ id \in TighteningId
        /\ window.baseline \in TighteningId \cup {NoId}
        /\ window.watermark \in TighteningId \cup {NoId}
    BY ResultIdsAssumption DEF TypeOK, Window
  <2>2. CASE id <= window.watermark
    BY <2>1, <2>2 DEF Accounted, Seen, TighteningId, NoId
  <2>3. CASE ~(id <= window.watermark)
    BY <2>1, <2>3 DEF Accounted, Seen, TighteningId, NoId
  <2>4. QED
    BY <2>2, <2>3
<1>2. QED
  BY <1>1, AccountedInvariant, TypeCorrect, PTL

(* No result is ever mistaken for a duplicate, history included.           *)
THEOREM NothingIsFalselySeen ==
    ASSUME MaxId \notin ResultIds
    PROVE  Spec => []NothingFalselySeen
<1>1. TypeOK /\ Accounted => NothingFalselySeen
  <2> SUFFICES ASSUME TypeOK, Accounted,
                      NEW id \in ResultIds, Seen(window, id)
               PROVE  id \in remembered
    BY DEF NothingFalselySeen
  <2>1. id \in TighteningId
    BY ResultIdsAssumption
  <2>2. QED
    BY <2>1 DEF Accounted, Seen
<1>2. QED
  BY <1>1, AccountedInvariant, TypeCorrect, PTL

(* The watermark recovery starts from is exactly the end of the unbroken   *)
(* run above the baseline.                                                 *)
THEOREM WatermarkIsAlwaysTight ==
    ASSUME MaxId \notin ResultIds
    PROVE  Spec => []WatermarkIsTight
<1>1. TypeOK /\ Accounted => WatermarkIsTight
  <2> SUFFICES ASSUME TypeOK, Accounted, window.watermark # NoId
               PROVE  /\ window.baseline # NoId
                      /\ window.baseline <= window.watermark
                      /\ \A id \in TighteningId :
                            window.baseline < id /\ id <= window.watermark
                            => id \in remembered
                      /\ window.watermark + 1 \notin remembered
    BY DEF WatermarkIsTight
  <2>1. window.watermark \in TighteningId
    BY DEF TypeOK, Window
  <2>2. window.watermark + 1 > window.watermark
    BY <2>1 DEF TighteningId
  <2>3. QED
    BY <2>2 DEF Accounted
<1>2. QED
  BY <1>1, AccountedInvariant, TypeCorrect, PTL

(* The baseline is decided once and the watermark never moves back.        *)
THEOREM ProgressIsAlwaysKept ==
    ASSUME MaxId \notin ResultIds
    PROVE  Spec => ProgressIsKept
<1> DEFINE Kept ==
        /\ window.watermark # NoId => window'.watermark >= window.watermark
        /\ window.baseline # NoId => window'.baseline = window.baseline
<1>1. TypeOK /\ Accounted /\ [Next]_vars => [Kept]_vars
  <2> SUFFICES ASSUME TypeOK, Accounted, [Next]_vars
               PROVE  Kept
    OBVIOUS
  <2>0. /\ window \in Window /\ window.ahead \in SUBSET TighteningId
        /\ window.watermark \in TighteningId \cup {NoId}
    BY DEF TypeOK, Window
  <2>1. ASSUME NEW id \in ResultIds, RememberResult(id)
        PROVE  Kept
    <3> DEFINE mark == AdvancedMark(id, window.ahead \ {id})
    <3>0. id \in TighteningId
      BY ResultIdsAssumption
    <3>1. mark \in TighteningId /\ id <= mark
      <4>1. window.ahead \ {id} \in SUBSET TighteningId
        BY <2>0
      <4>2. QED
        BY <3>0, <4>1, AdvanceKeepsAccount
    <3> HIDE DEF mark
    <3>2. \/ window' = window
          \/ /\ window'.baseline = window.baseline
             /\ ClosesGap(window, id) => window'.watermark = mark
             /\ ~ClosesGap(window, id) => window'.watermark = window.watermark
      BY <2>0, <2>1, <3>0, RecordFields
         DEF RememberResult, Remember, Window, mark
    <3>3. ClosesGap(window, id) => id = window.watermark + 1
      BY DEF ClosesGap
    <3>4. QED
      BY <2>0, <3>0, <3>1, <3>2, <3>3 DEF TighteningId, NoId
  <2>2. ASSUME NEW id \in ResultIds \cup {0}, SetBaseline(id)
        PROVE  Kept
    <3>1. window.watermark # NoId => window' = window
      BY <2>2 DEF SetBaseline, MarkBaseline
    <3>2. window.watermark = NoId => window.baseline = NoId
      BY DEF Accounted
    <3>3. QED
      BY <2>0, <3>1, <3>2 DEF TighteningId, NoId
  <2>3. ASSUME window'.baseline = window.baseline,
               window'.watermark = window.watermark
        PROVE  Kept
    BY <2>0, <2>3 DEF TighteningId, NoId
  <2>4. CASE NoteEmptyHistory
    BY <2>0, <2>3, <2>4 DEF NoteEmptyHistory, MarkNoHistory, Window
  <2>5. ASSUME NEW id \in ResultIds, ClaimResult(id) \/ ReleaseResult(id)
        PROVE  Kept
    BY <2>0, <2>3, <2>5 DEF ClaimResult, ReleaseResult, Claim, Release, Window
  <2>6. CASE UNCHANGED vars
    BY <2>3, <2>6 DEF vars
  <2>7. QED
    BY <2>1, <2>2, <2>4, <2>5, <2>6 DEF Next
<1>2. QED
  BY <1>1, AccountedInvariant, TypeCorrect, PTL DEF Spec, ProgressIsKept

-----------------------------------------------------------------------------
\* The value of delivered under the refinement, by the window.
DeliveredOf(w) == {id \in ResultIds : id > w.baseline /\ Seen(w, id)}

(* What the refinement calls delivered is what was remembered above the    *)
(* baseline.                                                               *)
LEMMA DeliveredIsRemembered ==
    ASSUME TypeOK, Accounted
    PROVE  DeliveredOf(window)
             = {id \in ResultIds : id > window.baseline /\ id \in remembered}
<1>1. ASSUME NEW id \in ResultIds, id > window.baseline
      PROVE  Seen(window, id) <=> id \in remembered
  <2>1. /\ id \in TighteningId
        /\ window.baseline \in TighteningId \cup {NoId}
        /\ window.watermark \in TighteningId \cup {NoId}
    BY ResultIdsAssumption DEF TypeOK, Window
  <2>2. QED
    BY <1>1, <2>1 DEF Accounted, Seen, TighteningId, NoId
<1>2. QED
  BY <1>1 DEF DeliveredOf

(* Every step of the bounded window is a step of the unbounded memory, or  *)
(* leaves it alone: remembering above the baseline is a delivery, the      *)
(* first baseline declares the start, and the rest cannot be seen.         *)
THEOREM WindowImplementsMemory ==
    ASSUME MaxId \notin ResultIds
    PROVE  Spec => ImplementsMemory
<1> DEFINE above(w, r) == {id \in ResultIds : id > w.baseline /\ id \in r}
<1>1. Init => Memory!Init
  BY DEF Init, Memory!Init, EmptyWindow, Seen, NoId
<1>2. TypeOK /\ Accounted /\ TypeOK' /\ Accounted' /\ [Next]_vars
      => [Memory!Next]_(Memory!vars)
  <2> SUFFICES ASSUME TypeOK, Accounted, TypeOK', Accounted', [Next]_vars
               PROVE  [Memory!Next]_(Memory!vars)
    OBVIOUS
  <2>0. /\ window \in Window /\ window' \in Window
        /\ remembered \subseteq ResultIds
        /\ ResultIds \subseteq TighteningId
        /\ window.baseline \in TighteningId \cup {NoId}
        /\ window.watermark \in TighteningId \cup {NoId}
    BY ResultIdsAssumption DEF TypeOK, Window
  <2>1. /\ DeliveredOf(window) = above(window, remembered)
        /\ DeliveredOf(window)' = above(window', remembered')
    <3>1. DeliveredOf(window) = above(window, remembered)
      BY DeliveredIsRemembered
    <3>2. (DeliveredOf(window) = above(window, remembered))'
      BY DeliveredIsRemembered, PTL
    <3>3. QED
      BY <3>1, <3>2
  <2> DEFINE d == {id \in ResultIds : id > window.baseline /\ Seen(window, id)}
  <2>2. d = DeliveredOf(window) /\ d' = DeliveredOf(window)'
    BY DEF DeliveredOf
  <2>3. ASSUME window'.baseline = window.baseline, UNCHANGED remembered
        PROVE  [Memory!Next]_(Memory!vars)
    BY <2>1, <2>2, <2>3 DEF Memory!vars
  <2>4. ASSUME NEW id \in ResultIds, RememberResult(id)
        PROVE  [Memory!Next]_(Memory!vars)
    <3>1. window'.baseline = window.baseline
      <4>1. id \in TighteningId
        BY <2>0
      <4>2. Remember(window, id).baseline = window.baseline
        BY <2>0, <4>1, RecordFields DEF Remember, Window
      <4>3. QED
        BY <2>4, <4>2 DEF RememberResult
    <3>2. remembered' = remembered \cup {id}
      BY <2>4 DEF RememberResult
    <3>3. CASE id > window.baseline
      <4>1. d' = d \cup {id}
        BY <2>1, <2>2, <3>1, <3>2, <3>3
      <4>2. Memory!Deliver(id)
        BY <3>1, <3>3, <4>1 DEF Memory!Deliver
      <4>3. QED
        BY <4>2 DEF Memory!Next
    <3>4. CASE ~(id > window.baseline)
      <4>1. d' = d
        BY <2>1, <2>2, <3>1, <3>2, <3>4
      <4>2. QED
        BY <3>1, <4>1 DEF Memory!vars
    <3>5. QED
      BY <3>3, <3>4
  <2>5. ASSUME NEW id \in ResultIds \cup {0}, SetBaseline(id)
        PROVE  [Memory!Next]_(Memory!vars)
    <3>1. CASE window' = window
      BY <2>3, <2>5, <3>1 DEF SetBaseline
    <3>2. CASE window' # window
      <4>1. window.watermark = NoId /\ window.baseline = NoId
        BY <2>5, <3>2 DEF SetBaseline, MarkBaseline, Accounted
      <4>2. window'.baseline = id /\ remembered' = remembered
        BY <2>0, <2>5, <3>2, <4>1 DEF SetBaseline, MarkBaseline, Window
      <4>3. d' = {i \in d : i > id}
        <5>1. \A i \in ResultIds : i > window.baseline
          BY <2>0, <4>1 DEF TighteningId, NoId
        <5>2. QED
          BY <2>1, <2>2, <4>2, <5>1
      <4>4. Memory!DeclareStart(id)
        BY <4>1, <4>2, <4>3 DEF Memory!DeclareStart
      <4>5. QED
        BY <4>4 DEF Memory!Next
    <3>3. QED
      BY <3>1, <3>2
  <2>6. CASE NoteEmptyHistory
    BY <2>0, <2>3, <2>6 DEF NoteEmptyHistory, MarkNoHistory, Window
  <2>7. ASSUME NEW id \in ResultIds, ClaimResult(id) \/ ReleaseResult(id)
        PROVE  [Memory!Next]_(Memory!vars)
    BY <2>0, <2>3, <2>7 DEF ClaimResult, ReleaseResult, Claim, Release, Window
  <2>8. CASE UNCHANGED vars
    BY <2>3, <2>8 DEF vars
  <2>9. QED
    BY <2>4, <2>5, <2>6, <2>7, <2>8 DEF Next
<1>3. QED
  BY <1>1, <1>2, AccountedInvariant, TypeCorrect, PTL
     DEF Spec, ImplementsMemory, Memory!Spec

=============================================================================
