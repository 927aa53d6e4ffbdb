--------------------------- MODULE CallbackProofs ---------------------------
(***************************************************************************)
(* Theorems about the ring of deferred callbacks, for every depth and      *)
(* without a hypothesis.  While a reset has the two indices apart nothing  *)
(* is said of the ring but its types; every other state is covered.        *)
(***************************************************************************)
EXTENDS CallbackQueue, TLAPS, FiniteSetTheorems, SequenceTheorems

(* Slots from a up to b, going round.                                      *)
Dist(a, b) == IF a <= b THEN b - a ELSE b - a + Depth

(* The slot whose callback is run next.                                    *)
NextServed ==
  IF fg \in {"unmasked", "cleared"} THEN NextIndex(callback_processing_index)
                                    ELSE callback_processing_index

(* The queue held by the n slots from h on, going round.                   *)
Segment(q, h, n) == [k \in 1 .. n |-> q[(h + k - 1) % Depth]]

(* The ring is aligned, a callback that runs is still in it, and a command *)
(* that can still complete finds a free slot besides the empty one.        *)
InOrder ==
  /\ Aligned
  /\ fg \in {"found", "running", "unmasked"} =>
       callback_pending[callback_processing_index]
  /\ handling # "no" \/ (ready /\ busy) =>
       Dist(FirstSlot, callback_index) <= Depth - 2

RingInv ==
  /\ handling # "no" => ~busy
  /\ ~shifted => InOrder

(* What can have been queued for one command.                              *)
Tidings == {<<>>} \cup {<<k>> : k \in Kinds} \cup {<<"error", k>> : k \in Kinds}

(* A callback stands in the ring that has not been run.                    *)
SomeToRun ==
  \E i \in Slots : /\ callback_pending[i]
                   /\ fg = "unmasked" => i # callback_processing_index

(* Once something is queued for the command, it cannot complete any more,  *)
(* save in a completion that an error has interrupted; and what is queued  *)
(* stands in the ring until the transport hears of it.                     *)
HeardInv ==
  ~shifted =>
    /\ heard \in Tidings
    /\ heard # <<>> => SomeToRun
    /\ handling = "data" \/ (ready /\ busy) => heard = <<>>
    /\ handling = "overtaken" => heard \in {<<>>, <<"error">>}

-----------------------------------------------------------------------------
(* The depth of the ring.                                                  *)
LEMMA DepthType == Depth \in Nat /\ Depth >= 3 /\ 0 \in Slots
  BY QueueAssumption DEF Slots

(* The successor of a slot is a slot.                                      *)
LEMMA NextType == ASSUME NEW i \in Slots PROVE NextIndex(i) \in Slots
  BY DepthType DEF Slots, NextIndex

(* Going round once is subtracting the depth.                              *)
LEMMA WrapOnce ==
  ASSUME NEW a \in Slots, NEW d \in 0 .. Depth
  PROVE  (a + d) % Depth = IF a + d < Depth THEN a + d ELSE a + d - Depth
  BY DepthType DEF Slots

(* A distance is less than the depth, and none only from a slot to itself. *)
LEMMA DistType ==
  ASSUME NEW a \in Slots, NEW b \in Slots
  PROVE  /\ Dist(a, b) \in 0 .. Depth - 1
         /\ Dist(a, b) = 0 <=> a = b
         /\ (a + Dist(a, b)) % Depth = b
<1>1. Dist(a, b) \in 0 .. Depth - 1 /\ (Dist(a, b) = 0 <=> a = b)
  BY DepthType DEF Slots, Dist
<1>2. PICK d \in 0 .. Depth - 1 : d = Dist(a, b)
  BY <1>1
<1>3. (a + d) % Depth = IF a + d < Depth THEN a + d ELSE a + d - Depth
  <2>1. d \in 0 .. Depth
    BY DepthType
  <2>2. QED
    BY <2>1, WrapOnce
<1>4. b = IF a + d < Depth THEN a + d ELSE a + d - Depth
  BY <1>2, DepthType DEF Slots, Dist
<1>5. (a + d) % Depth = b
  BY <1>3, <1>4
<1>6. QED
  BY <1>1, <1>2, <1>5

(* There are as many slots between two slots as their distance.            *)
LEMMA BetweenCount ==
  ASSUME NEW a \in Slots, NEW b \in Slots
  PROVE  Cardinality(Between(a, b)) = Dist(a, b)
<1>1. CASE a <= b
  <2>1. Between(a, b) = a .. (b - 1)
    BY <1>1, DepthType DEF Between, Slots
  <2>2. a \in Int /\ b - 1 \in Int
    BY DepthType DEF Slots
  <2>3. Cardinality(a .. (b - 1)) =
          IF a > b - 1 THEN 0 ELSE (b - 1) - a + 1
    BY <2>2, FS_Interval
  <2>4. QED
    BY <1>1, <2>1, <2>3, DepthType DEF Dist, Slots
<1>2. CASE a > b
  <2> DEFINE Upper == a .. (Depth - 1)
             Lower == 0 .. (b - 1)
  <2>1. Between(a, b) = Upper \cup Lower
    BY <1>2, DepthType DEF Between, Slots
  <2>2. Upper \cap Lower = {}
    BY <1>2, DepthType DEF Slots
  <2>3. a \in Int /\ b - 1 \in Int /\ Depth - 1 \in Int /\ 0 \in Int
    BY DepthType DEF Slots
  <2>4. /\ IsFiniteSet(Upper)
        /\ Cardinality(Upper) =
             IF a > Depth - 1 THEN 0 ELSE (Depth - 1) - a + 1
    BY <2>3, FS_Interval
  <2>5. /\ IsFiniteSet(Lower)
        /\ Cardinality(Lower) = IF 0 > b - 1 THEN 0 ELSE (b - 1) - 0 + 1
    BY <2>3, FS_Interval
  <2>6. Cardinality(Upper \cup Lower) =
          Cardinality(Upper) + Cardinality(Lower) - Cardinality({})
    <3> HIDE DEF Upper, Lower
    <3>1. QED
      BY <2>2, <2>4, <2>5, FS_Union
  <2>7. Cardinality({}) = 0
    BY FS_EmptySet
  <2>8. /\ Cardinality(Upper) = Depth - a
        /\ Cardinality(Lower) = b
    BY <2>4, <2>5, DepthType DEF Slots
  <2>9. Dist(a, b) = Depth - a + b
    BY <1>2, DepthType DEF Dist, Slots
  <2>10. QED
    <3> HIDE DEF Upper, Lower
    <3>1. Depth - a \in Int /\ b \in Int /\ Depth - a + b - 0 = Depth - a + b
      BY DepthType DEF Slots
    <3>2. QED
      BY <2>1, <2>6, <2>7, <2>8, <2>9, <3>1
<1>3. QED
  BY <1>1, <1>2, DepthType DEF Slots

(* Filling the slot at the end, while another one stays free.              *)
LEMMA BetweenGrows ==
  ASSUME NEW a \in Slots, NEW b \in Slots, Dist(a, b) <= Depth - 2
  PROVE  /\ Between(a, NextIndex(b)) = Between(a, b) \cup {b}
         /\ Dist(a, NextIndex(b)) = Dist(a, b) + 1
  BY DepthType DEF Slots, Between, NextIndex, Dist

(* Emptying the slot at the front.                                         *)
LEMMA BetweenShrinks ==
  ASSUME NEW a \in Slots, NEW b \in Slots, a \in Between(a, b)
  PROVE  /\ Between(NextIndex(a), b) = Between(a, b) \ {a}
         /\ Dist(NextIndex(a), b) = Dist(a, b) - 1
  BY DepthType DEF Slots, Between, NextIndex, Dist

(* The front slot is filled exactly when there is any.                     *)
LEMMA BetweenFront ==
  ASSUME NEW a \in Slots, NEW b \in Slots
  PROVE  /\ a \in Between(a, b) <=> a # b
         /\ a = b <=> Between(a, b) = {}
<1>1. a \in Between(a, b) <=> a # b
  BY DepthType DEF Slots, Between
<1>2. a = b => Between(a, b) = {}
  BY DepthType DEF Slots, Between
<1>3. QED
  BY <1>1, <1>2

-----------------------------------------------------------------------------
(* Types: every handler leaves flags, slots and indices in range.          *)
LEMMA TypeInit == Init => TypeOK
<1> SUFFICES ASSUME Init PROVE TypeOK
  OBVIOUS
<1>1. /\ callback_pending \in [Slots -> BOOLEAN]
      /\ pAtaCallbackQueue \in [Slots -> Kinds]
      /\ callback_index \in Slots /\ callback_processing_index \in Slots
  BY DepthType DEF Init, Kinds
<1>2. /\ fg \in {"look", "found", "running", "unmasked", "cleared"}
      /\ handling \in {"no", "data", "overtaken"} /\ busy \in BOOLEAN
  BY DEF Init
<1>3. ready \in BOOLEAN /\ configured \in BOOLEAN /\ waiting \in BOOLEAN
  BY DEF Init
<1>4. heard \in Seq(Kinds) /\ missed \in BOOLEAN /\ shifted \in BOOLEAN
  BY EmptySeq DEF Init
<1>5. QED
  BY <1>1, <1>2, <1>3, <1>4 DEF TypeOK

(* The parts that the handlers are made of.                                *)
LEMMA ForgetType ==
  TransportForgets =>
    waiting' \in BOOLEAN /\ heard' \in Seq(Kinds) /\ missed' \in BOOLEAN
  BY EmptySeq DEF TransportForgets

(* What is heard is a sequence of kinds.                                    *)
LEMMA HearsType ==
  ASSUME TypeOK, NEW k \in Kinds, Hears(k) PROVE heard' \in Seq(Kinds)
<1>1. heard \in Seq(Kinds)
  BY DEF TypeOK
<1>2. Append(heard, k) \in Seq(Kinds)
  BY <1>1, AppendProperties
<1>3. QED
  BY <1>1, <1>2 DEF Hears

(* An entry that is added leaves the variables of the ring in their types.  *)
LEMMA AddType ==
  ASSUME TypeOK, NEW k \in Kinds, QueueAdd(k)
  PROVE  /\ callback_pending' \in [Slots -> BOOLEAN]
         /\ pAtaCallbackQueue' \in [Slots -> Kinds]
         /\ callback_index' \in Slots
         /\ heard' \in Seq(Kinds)
<1>1. callback_index' \in Slots
  BY NextType DEF TypeOK, QueueAdd
<1>2. heard' \in Seq(Kinds)
  BY HearsType DEF QueueAdd
<1>3. QED
  BY <1>1, <1>2 DEF TypeOK, QueueAdd

(* So does the notice of an error.                                          *)
LEMMA NotifyType ==
  ASSUME TypeOK, NEW guard, NotifyError(guard)
  PROVE  /\ callback_pending' \in [Slots -> BOOLEAN]
         /\ pAtaCallbackQueue' \in [Slots -> Kinds]
         /\ callback_index' \in Slots
         /\ heard' \in Seq(Kinds) /\ missed' \in BOOLEAN
<1>1. CASE OneErrorAtMost(guard)
  BY <1>1, AddType DEF NotifyError, Kinds, TypeOK
<1>2. CASE ~OneErrorAtMost(guard)
  <2>1. UNCHANGED <<ring, heard>>
    BY <1>2 DEF NotifyError
  <2>2. missed' \in BOOLEAN
    BY <1>2 DEF NotifyError, TypeOK
  <2>3. QED
    BY <2>1, <2>2 DEF TypeOK, ring
<1>3. QED
  BY <1>1, <1>2

(* Every step leaves the variables in their types.                          *)
LEMMA TypeStep == TypeOK /\ [Next]_vars => TypeOK'
<1> SUFFICES ASSUME TypeOK, [Next]_vars PROVE TypeOK'
  OBVIOUS
<1> USE DepthType DEF ring
<1>1. CASE TakeCallback
  BY <1>1 DEF TypeOK, TakeCallback, Foreground
<1>2. CASE MaskUsb
  BY <1>2 DEF TypeOK, MaskUsb, Foreground
<1>3. CASE RunCallback
  <2>1. /\ fg' = "unmasked" /\ handling' = handling
        /\ waiting' \in BOOLEAN /\ heard' \in Seq(Kinds) /\ missed' \in BOOLEAN
    BY <1>3, ForgetType DEF RunCallback, Foreground
  <2>2. UNCHANGED <<ring, callback_processing_index, ready, busy, configured,
                    shifted>>
    BY <1>3 DEF RunCallback, Foreground
  <2>3. QED
    BY <2>1, <2>2 DEF TypeOK
<1>4. CASE RunNothing
  <2>1. /\ callback_pending' = [i \in Slots |-> FALSE]
        /\ pAtaCallbackQueue' = [i \in Slots |-> "none"]
        /\ callback_index' = 0 /\ callback_processing_index' = 0
        /\ "none" \in Kinds
    BY <1>4 DEF RunNothing, ClearFlags, RewindIndices, Kinds
  <2>2. /\ fg' = "look" /\ handling' = "no" /\ shifted' = FALSE
        /\ ready' \in BOOLEAN /\ busy' = FALSE /\ configured' = FALSE
    BY <1>4 DEF RunNothing, Foreground
  <2>3. waiting' \in BOOLEAN /\ heard' \in Seq(Kinds) /\ missed' \in BOOLEAN
    BY <1>4, ForgetType DEF RunNothing
  <2>4. QED
    BY <2>1, <2>2, <2>3 DEF TypeOK
<1>5. CASE RetireFlag
  BY <1>5 DEF TypeOK, RetireFlag, Foreground, ClearPending
<1>6. CASE AdvanceIndex
  BY <1>6, NextType DEF TypeOK, AdvanceIndex, Foreground
<1>7. CASE Rediscover
  BY <1>7 DEF TypeOK, Rediscover, Foreground
<1>8. CASE BeginCompletion
  BY <1>8 DEF TypeOK, BeginCompletion, Sata
<1>9. CASE EndCompletion
  <2>1. PICK k \in Kinds : QueueAdd(k) \/ UNCHANGED <<ring, heard>>
    <3>1. "command" \in Kinds /\ pAtaCallbackQueue[callback_index] \in Kinds
      BY DEF Kinds, TypeOK
    <3>2. QED
      BY <1>9, <3>1 DEF EndCompletion
  <2>2. /\ callback_pending' \in [Slots -> BOOLEAN]
        /\ pAtaCallbackQueue' \in [Slots -> Kinds]
        /\ callback_index' \in Slots
        /\ heard' \in Seq(Kinds)
    <3>1. CASE QueueAdd(k)
      BY <3>1, AddType
    <3>2. CASE UNCHANGED <<ring, heard>>
      BY <3>2 DEF TypeOK
    <3>3. QED
      BY <2>1, <3>1, <3>2
  <2>3. QED
    BY <1>9, <2>2 DEF TypeOK, EndCompletion, Sata
<1>10. CASE FatalError
  BY <1>10, NotifyType DEF TypeOK, FatalError, Sata
<1>11. CASE LinkChange
  BY <1>11, NotifyType DEF TypeOK, LinkChange, Sata
<1>12. CASE RxError
  <2>1. /\ callback_pending' \in [Slots -> BOOLEAN]
        /\ pAtaCallbackQueue' \in [Slots -> Kinds]
        /\ callback_index' \in Slots
        /\ heard' \in Seq(Kinds) /\ missed' \in BOOLEAN
    <3>1. CASE NotifyError(TRUE)
      BY <3>1, NotifyType
    <3>2. CASE UNCHANGED <<ring, heard, missed>>
      BY <3>2 DEF TypeOK
    <3>3. QED
      BY <1>12, <3>1, <3>2 DEF RxError
  <2>2. /\ ready' = FALSE /\ busy' = FALSE
        /\ handling' \in {"no", "data", "overtaken"}
    BY <1>12 DEF RxError, TypeOK
  <2>3. QED
    BY <1>12, <2>1, <2>2 DEF TypeOK, RxError, Sata
<1>13. CASE IssueCommand
  <2>1. heard' \in Seq(Kinds)
    BY <1>13, EmptySeq DEF IssueCommand
  <2>2. QED
    BY <1>13, <2>1 DEF TypeOK, IssueCommand, Usb
<1>14. CASE RecoverLocalCommand
  BY <1>14 DEF TypeOK, RecoverLocalCommand, Usb
<1>15. CASE Configure
  <2>1. /\ configured' \in BOOLEAN /\ waiting' \in BOOLEAN
        /\ heard' \in Seq(Kinds) /\ missed' \in BOOLEAN
    BY <1>15, ForgetType DEF Configure
  <2>2. UNCHANGED <<ring, callback_processing_index, fg, handling, ready,
                  busy, shifted>>
    BY <1>15 DEF Configure, Usb
  <2>3. QED
    BY <2>1, <2>2 DEF TypeOK
<1>16. CASE Deconfigure
  BY <1>16 DEF TypeOK, Deconfigure, Usb
<1>17. CASE BusReset \/ MassStorageReset
  <2>1. /\ configured' \in BOOLEAN /\ waiting' \in BOOLEAN
        /\ heard' \in Seq(Kinds) /\ missed' \in BOOLEAN
        /\ UNCHANGED <<fg, handling>>
    <3>1. /\ TransportForgets /\ UNCHANGED <<fg, handling>>
          /\ configured' \in BOOLEAN
      BY <1>17 DEF BusReset, MassStorageReset, Usb, TypeOK
    <3>2. QED
      BY <3>1, ForgetType
  <2>2. CASE ready
    <3>1. ready' \in BOOLEAN /\ busy' = FALSE /\ shifted' \in BOOLEAN
      BY <1>17, <2>2 DEF BusReset, MassStorageReset
    <3>2. /\ callback_pending' \in [Slots -> BOOLEAN]
          /\ pAtaCallbackQueue' \in [Slots -> Kinds]
          /\ callback_index' \in Slots
          /\ callback_processing_index' \in Slots
      <4>1. 0 \in Slots /\ 1 \in Slots /\ "error" \in Kinds
        BY DEF Slots, Kinds
      <4>2. CASE BusReset
        BY <2>2, <4>1, <4>2 DEF TypeOK, BusReset, ClearQueue, ClearFlags,
           RewindIndices
      <4>3. CASE MassStorageReset
        BY <2>2, <4>1, <4>3 DEF TypeOK, MassStorageReset
      <4>4. QED
        BY <1>17, <4>2, <4>3
    <3>3. QED
      BY <2>1, <3>1, <3>2 DEF TypeOK
  <2>3. CASE ~ready
    <3>1. UNCHANGED <<ring, callback_processing_index, busy, ready, shifted>>
      BY <1>17, <2>3 DEF BusReset, MassStorageReset
    <3>2. QED
      BY <2>1, <3>1 DEF TypeOK
  <2>4. QED
    BY <2>2, <2>3
<1>18. CASE UNCHANGED vars
  BY <1>18 DEF TypeOK, vars
<1>19. QED
  BY <1>1, <1>2, <1>3, <1>4, <1>5, <1>6, <1>7, <1>8, <1>9, <1>10, <1>11,
     <1>12, <1>13, <1>14, <1>15, <1>16, <1>17, <1>18 DEF Next, ServeQueue

(* Flags, slots and indices stay in range, whatever interrupts what        *)
(* (ahci.c:296-344, main.c:233-260).                                       *)
THEOREM TypeCorrect == Spec => []TypeOK
  BY TypeInit, TypeStep, PTL DEF Spec

-----------------------------------------------------------------------------
(* The first slot to serve is a slot.                                      *)
LEMMA FirstType == TypeOK => FirstSlot \in Slots
  BY NextType DEF TypeOK, FirstSlot

(* As many flags are set as the indices are apart.                         *)
LEMMA PendingCount ==
  TypeOK /\ Aligned =>
    Cardinality({i \in Slots : callback_pending[i]})
      = Dist(FirstSlot, callback_index)
  BY BetweenCount, FirstType DEF TypeOK, Aligned

(* A callback that is queued while a slot besides the empty one is free    *)
(* goes to the end of the ring.                                            *)
LEMMA RingAdd ==
  ASSUME TypeOK, Aligned, NEW k \in Kinds, QueueAdd(k),
         Dist(FirstSlot, callback_index) <= Depth - 2,
         UNCHANGED <<callback_processing_index, fg>>
  PROVE  /\ Aligned' /\ FirstSlot' = FirstSlot
         /\ Dist(FirstSlot, callback_index)' = Dist(FirstSlot, callback_index) + 1
         /\ \A i \in Slots : callback_pending[i] => callback_pending'[i]
         /\ CallbacksPending'
<1>1. FirstSlot' = FirstSlot
  BY DEF FirstSlot
<1>2. /\ Between(FirstSlot, NextIndex(callback_index)) =
           Between(FirstSlot, callback_index) \cup {callback_index}
      /\ Dist(FirstSlot, NextIndex(callback_index)) =
           Dist(FirstSlot, callback_index) + 1
  BY BetweenGrows, FirstType DEF TypeOK
<1>3. callback_index' = NextIndex(callback_index)
  BY DEF QueueAdd
<1>4. \A i \in Slots : callback_pending'[i] <=>
        callback_pending[i] \/ i = callback_index
  BY DEF QueueAdd, TypeOK
<1>5. {i \in Slots : callback_pending'[i]} =
        {i \in Slots : callback_pending[i]} \cup {callback_index}
  BY <1>4 DEF TypeOK
<1>6. Aligned'
  BY <1>1, <1>2, <1>3, <1>5 DEF Aligned, Between
<1>7. Dist(FirstSlot, callback_index)' = Dist(FirstSlot, callback_index) + 1
  BY <1>1, <1>2, <1>3 DEF Dist
<1>8. CallbacksPending'
  BY <1>4 DEF CallbacksPending, TypeOK
<1>9. QED
  BY <1>1, <1>4, <1>6, <1>7, <1>8

(* An error callback is queued in an empty ring or not at all.             *)
LEMMA RingNotify ==
  ASSUME TypeOK, Aligned, NEW guard, NotifyError(guard),
         UNCHANGED <<callback_processing_index, fg>>
  PROVE  /\ Aligned' /\ FirstSlot' = FirstSlot
         /\ \A i \in Slots : callback_pending[i] => callback_pending'[i]
         /\ Dist(FirstSlot, callback_index)' <= Depth - 2
              \/ UNCHANGED callback_index
<1>1. CASE OneErrorAtMost(guard)
  <2>1. QueueAdd("error") /\ "error" \in Kinds
    BY <1>1 DEF NotifyError, Kinds
  <2>2. {i \in Slots : callback_pending[i]} = {}
    BY <1>1 DEF OneErrorAtMost, CallbacksPending
  <2>3. FirstSlot = callback_index
    BY <2>2, BetweenFront, FirstType DEF Aligned, TypeOK
  <2>4. Dist(FirstSlot, callback_index) = 0
    BY <2>3, DistType DEF TypeOK
  <2>5. Dist(FirstSlot, callback_index) <= Depth - 2
    BY <2>4, DepthType
  <2>6. Dist(FirstSlot, callback_index)' = 1
    BY <2>1, <2>4, <2>5, RingAdd
  <2>7. Dist(FirstSlot, callback_index)' <= Depth - 2
    BY <2>6, DepthType
  <2>8. QED
    BY <2>1, <2>5, <2>7, RingAdd
<1>2. CASE ~OneErrorAtMost(guard)
  <2>1. UNCHANGED ring
    BY <1>2 DEF NotifyError
  <2>2. QED
    BY <2>1 DEF ring, Aligned, FirstSlot, Between
<1>3. QED
  BY <1>1, <1>2

(* A step that touches neither flags nor indices keeps the ring.           *)
LEMMA RingKept ==
  ASSUME Aligned, UNCHANGED ring, FirstSlot' = FirstSlot
  PROVE  /\ Aligned'
         /\ Dist(FirstSlot, callback_index)' = Dist(FirstSlot, callback_index)
<1>1. UNCHANGED <<callback_pending, callback_index>>
  BY DEF ring
<1>2. QED
  BY <1>1 DEF Aligned, Between, Dist

(* Initially the ring is empty and nothing is on its way.                  *)
LEMMA RingInit == Init => RingInv /\ HeardInv
<1> SUFFICES ASSUME Init PROVE RingInv /\ HeardInv
  OBVIOUS
<1>1. FirstSlot = 0 /\ callback_index = 0
  BY DEF Init, FirstSlot
<1>2. {i \in Slots : callback_pending[i]} = {} /\ Between(0, 0) = {}
  BY DepthType, BetweenFront DEF Init
<1>3. Aligned
  BY <1>1, <1>2 DEF Aligned
<1>4. heard = <<>> /\ <<>> \in Tidings
  BY DEF Init, Tidings
<1>5. QED
  BY <1>3, <1>4 DEF Init, RingInv, InOrder, HeardInv

(* The steps that start the ring anew.                                     *)
Restarts == RunNothing \/ (ready /\ (BusReset \/ MassStorageReset))

(* A completion in hand means that the slot is no longer issued.           *)
LEMMA HandlingStep ==
  TypeOK /\ RingInv /\ [Next]_vars => (handling # "no" => ~busy)'
<1> SUFFICES ASSUME TypeOK, RingInv, [Next]_vars, handling' # "no"
             PROVE  ~busy'
  OBVIOUS
<1>1. handling # "no" => ~busy
  BY DEF RingInv
<1>2. CASE ServeQueue \/ Rediscover
  BY <1>1, <1>2 DEF ServeQueue, TakeCallback, MaskUsb, RunCallback,
     RunNothing, RetireFlag, AdvanceIndex, Rediscover, Foreground
<1>3. CASE BeginCompletion \/ EndCompletion \/ FatalError \/ LinkChange
           \/ RxError
  BY <1>1, <1>3 DEF BeginCompletion, EndCompletion, FatalError, LinkChange,
     RxError, Sata
<1>4. CASE \/ IssueCommand \/ RecoverLocalCommand \/ Configure
           \/ Deconfigure \/ BusReset \/ MassStorageReset
  BY <1>4 DEF IssueCommand, RecoverLocalCommand, Configure, Deconfigure,
     BusReset, MassStorageReset, Usb
<1>5. CASE UNCHANGED vars
  BY <1>1, <1>5 DEF vars
<1>6. QED
  BY <1>2, <1>3, <1>4, <1>5 DEF Next

(* Only a step that starts the ring anew can put its indices together      *)
(* again.                                                                  *)
LEMMA ShiftStays ==
  ASSUME TypeOK, [Next]_vars, ~Restarts PROVE shifted' = shifted
<1>1. CASE ServeQueue \/ Rediscover
  BY <1>1 DEF ServeQueue, TakeCallback, MaskUsb, RunCallback,
     Restarts, RetireFlag, AdvanceIndex, Rediscover, Foreground
<1>2. CASE BeginCompletion \/ EndCompletion \/ FatalError \/ LinkChange
           \/ RxError
  BY <1>2 DEF BeginCompletion, EndCompletion, FatalError, LinkChange,
     RxError, Sata
<1>3. CASE \/ IssueCommand \/ RecoverLocalCommand \/ Configure
           \/ Deconfigure \/ BusReset \/ MassStorageReset
  BY <1>3 DEF IssueCommand, RecoverLocalCommand, Configure, Deconfigure,
     BusReset, MassStorageReset, Usb, Restarts
<1>4. CASE UNCHANGED vars
  BY <1>4 DEF vars
<1>5. QED
  BY <1>1, <1>2, <1>3, <1>4 DEF Next

(* A ring that starts anew is in order, unless the indices are apart.      *)
LEMMA RestartStep ==
  ASSUME TypeOK, Restarts, ~shifted'
  PROVE  InOrder' /\ heard' = <<>> /\ handling' = "no" /\ ~busy'
<1>1. /\ heard' = <<>> /\ handling' = "no" /\ ~busy'
      /\ callback_processing_index' = 0
  BY DEF Restarts, RunNothing, BusReset, MassStorageReset, Usb, ClearQueue,
     RewindIndices, TransportForgets
<1>2. CASE RunNothing \/ BusReset
  <2>1. /\ callback_pending' = [i \in Slots |-> FALSE]
        /\ callback_index' = 0 /\ fg' = "look"
    <3>1. CASE RunNothing
      BY <3>1 DEF RunNothing, Foreground, ClearFlags, RewindIndices
    <3>2. CASE BusReset
      <4>1. ready
        BY <3>2 DEF Restarts, RunNothing, BusReset, Foreground, Usb
      <4>2. QED
        BY <3>2, <4>1 DEF BusReset, Usb, ClearQueue, ClearFlags, RewindIndices
    <3>3. QED
      BY <1>2, <3>1, <3>2
  <2>2. {i \in Slots : callback_pending'[i]} = {} /\ Between(0, 0) = {}
    BY <2>1, BetweenFront, DepthType
  <2>3. FirstSlot' = 0
    BY <1>1, <2>1 DEF FirstSlot
  <2>4. Aligned'
    BY <2>1, <2>2, <2>3 DEF Aligned, Between
  <2>5. QED
    BY <1>1, <2>1, <2>4 DEF InOrder
<1>3. CASE MassStorageReset
  <2>1. ready
    BY <1>3 DEF Restarts, RunNothing, MassStorageReset, Foreground, Usb
  <2>2. /\ callback_pending' = [i \in Slots |-> i = 0]
        /\ callback_index' = 1 /\ fg' = fg /\ fg # "cleared"
    BY <1>3, <2>1 DEF MassStorageReset, Usb
  <2>3. FirstSlot' = 0
    BY <1>1, <2>2 DEF FirstSlot
  <2>4. {i \in Slots : callback_pending'[i]} = {0}
    BY <2>2, DepthType
  <2>5. Between(0, 1) = {0}
    BY DepthType DEF Between, Slots
  <2>6. Aligned'
    BY <2>2, <2>3, <2>4, <2>5 DEF Aligned, Between
  <2>7. callback_pending'[callback_processing_index']
    BY <1>1, <2>2, DepthType
  <2>8. QED
    BY <1>1, <2>6, <2>7 DEF InOrder
<1>4. QED
  BY <1>2, <1>3 DEF Restarts

(* Every other step keeps the ring in order.                               *)
LEMMA OrderStep ==
  ASSUME TypeOK, RingInv, InOrder, [Next]_vars, ~Restarts
  PROVE  InOrder'
<1> USE DEF InOrder
<1>1. CASE TakeCallback \/ MaskUsb \/ RunCallback
  <2>1. /\ UNCHANGED <<ring, callback_processing_index, handling, ready, busy>>
        /\ fg \in {"look", "found", "running"}
        /\ fg' \in {"found", "running", "unmasked"}
        /\ callback_pending[callback_processing_index]
    BY <1>1 DEF TakeCallback, MaskUsb, RunCallback, Foreground
  <2>2. FirstSlot' = FirstSlot
    BY <2>1 DEF FirstSlot
  <2>3. QED
    BY <2>1, <2>2, RingKept DEF ring
<1>2. CASE RetireFlag
  <2> DEFINE p == callback_processing_index
  <2>1. /\ p \in Slots /\ callback_pending[p] /\ FirstSlot = p
        /\ callback_index \in Slots
    BY <1>2 DEF RetireFlag, Foreground, FirstSlot, TypeOK
  <2>2. /\ UNCHANGED <<callback_processing_index, callback_index, handling,
                       ready, busy>>
        /\ fg' = "cleared"
        /\ callback_pending' = [callback_pending EXCEPT ![p] = FALSE]
    BY <1>2 DEF RetireFlag, Foreground, ClearPending
  <2>3. FirstSlot' = NextIndex(p)
    BY <2>2 DEF FirstSlot
  <2>4. p \in Between(p, callback_index)
    BY <2>1 DEF Aligned
  <2>5. /\ Between(NextIndex(p), callback_index) =
             Between(p, callback_index) \ {p}
        /\ Dist(NextIndex(p), callback_index) = Dist(p, callback_index) - 1
    BY <2>1, <2>4, BetweenShrinks
  <2>6. {i \in Slots : callback_pending'[i]} =
          {i \in Slots : callback_pending[i]} \ {p}
    BY <2>1, <2>2 DEF TypeOK
  <2>7. {i \in Slots : callback_pending'[i]} =
          Between(NextIndex(p), callback_index)
    BY <2>1, <2>5, <2>6 DEF Aligned
  <2>8. Aligned'
    BY <2>2, <2>3, <2>7 DEF Aligned, Between
  <2>9. Dist(FirstSlot, callback_index)' = Dist(FirstSlot, callback_index) - 1
    BY <2>1, <2>2, <2>3, <2>5 DEF Dist
  <2>10. Dist(FirstSlot, callback_index) \in Int
    BY <2>1, DistType
  <2>11. handling' # "no" \/ (ready' /\ busy') =>
           Dist(FirstSlot, callback_index)' <= Depth - 2
    BY <2>2, <2>9, <2>10, DepthType
  <2>12. QED
    BY <2>2, <2>8, <2>11
<1>3. CASE AdvanceIndex
  <2>1. /\ UNCHANGED <<ring, handling, ready, busy>>
        /\ callback_processing_index' = NextIndex(callback_processing_index)
        /\ fg = "cleared" /\ fg' = "look"
    BY <1>3 DEF AdvanceIndex, Foreground
  <2>2. FirstSlot' = FirstSlot
    BY <2>1 DEF FirstSlot
  <2>3. QED
    BY <2>1, <2>2, RingKept DEF ring
<1>4. CASE \/ Rediscover \/ BeginCompletion \/ RecoverLocalCommand
           \/ Configure \/ Deconfigure
  <2>1. UNCHANGED <<ring, callback_processing_index, fg>>
    BY <1>4 DEF Rediscover, Foreground, BeginCompletion, Sata,
       RecoverLocalCommand, Configure, Deconfigure, Usb
  <2>2. handling' # "no" \/ (ready' /\ busy')
          => handling # "no" \/ (ready /\ busy)
    BY <1>4 DEF Rediscover, Foreground, BeginCompletion, Sata,
       RecoverLocalCommand, Configure, Deconfigure, Usb
  <2>3. FirstSlot' = FirstSlot
    BY <2>1 DEF FirstSlot
  <2>4. QED
    BY <2>1, <2>2, <2>3, RingKept DEF ring
<1>5. CASE EndCompletion
  <2>1. /\ Dist(FirstSlot, callback_index) <= Depth - 2
        /\ UNCHANGED <<callback_processing_index, fg>>
        /\ handling # "no" /\ handling' = "no" /\ busy' = busy
    BY <1>5 DEF EndCompletion, Sata
  <2>2. ~busy'
    BY <2>1 DEF RingInv
  <2>3. /\ Aligned'
        /\ \A i \in Slots : callback_pending[i] => callback_pending'[i]
    <3>1. CASE \E k \in Kinds : QueueAdd(k)
      BY <2>1, <3>1, RingAdd
    <3>2. CASE UNCHANGED ring
      BY <2>1, <3>2, RingKept DEF ring, FirstSlot
    <3>3. "command" \in Kinds /\ pAtaCallbackQueue[callback_index] \in Kinds
      BY DEF Kinds, TypeOK
    <3>4. QED
      BY <1>5, <3>1, <3>2, <3>3 DEF EndCompletion
  <2>4. QED
    BY <2>1, <2>2, <2>3 DEF TypeOK
<1>6. CASE FatalError \/ LinkChange \/ RxError
  <2>1. /\ UNCHANGED <<callback_processing_index, fg>>
        /\ ~(ready' /\ busy')
        /\ handling' # "no" => handling # "no"
    <3>1. CASE FatalError
      BY <3>1 DEF FatalError, Sata
    <3>2. CASE LinkChange
      BY <3>2 DEF LinkChange, Sata
    <3>3. CASE RxError
      BY <3>3 DEF RxError, Sata
    <3>4. QED
      BY <1>6, <3>1, <3>2, <3>3
  <2>2. /\ Aligned' /\ FirstSlot' = FirstSlot
        /\ \A i \in Slots : callback_pending[i] => callback_pending'[i]
        /\ Dist(FirstSlot, callback_index)' <= Depth - 2
             \/ UNCHANGED callback_index
    <3>1. CASE \E guard \in BOOLEAN : NotifyError(guard)
      BY <2>1, <3>1, RingNotify
    <3>2. CASE UNCHANGED ring
      BY <2>1, <3>2, RingKept DEF ring, FirstSlot
    <3>3. QED
      BY <1>6, <3>1, <3>2 DEF FatalError, LinkChange, RxError, TypeOK
  <2>3. handling' # "no" => Dist(FirstSlot, callback_index)' <= Depth - 2
    BY <2>1, <2>2 DEF Dist
  <2>4. QED
    BY <2>1, <2>2, <2>3 DEF TypeOK
<1>7. CASE IssueCommand
  <2>1. /\ UNCHANGED <<ring, callback_processing_index, fg, handling>>
        /\ handling = "no" /\ RoomLeft
    BY <1>7 DEF IssueCommand, Usb
  <2>2. FirstSlot' = FirstSlot
    BY <2>1 DEF FirstSlot
  <2>3. Dist(FirstSlot, callback_index) <= Depth - 2
    <3>1. Dist(FirstSlot, callback_index) + 2 <= Depth
      BY <2>1, PendingCount DEF RoomLeft
    <3>2. Dist(FirstSlot, callback_index) \in Int
      BY FirstType, DistType DEF TypeOK
    <3>3. QED
      BY <3>1, <3>2, DepthType
  <2>4. QED
    BY <2>1, <2>2, <2>3, RingKept DEF ring
<1>8. CASE BusReset \/ MassStorageReset \/ UNCHANGED vars
  <2>1. UNCHANGED <<ring, callback_processing_index, fg, handling, ready,
                    busy>>
    BY <1>8 DEF vars, BusReset, MassStorageReset, Usb, Restarts, TypeOK
  <2>2. FirstSlot' = FirstSlot
    BY <2>1 DEF FirstSlot
  <2>3. QED
    BY <2>1, <2>2, RingKept DEF ring
<1>9. QED
  BY <1>1, <1>2, <1>3, <1>4, <1>5, <1>6, <1>7, <1>8
     DEF Next, ServeQueue, Restarts

(* So the ring is in order whenever its indices are not apart.             *)
LEMMA RingStep == TypeOK /\ RingInv /\ [Next]_vars => RingInv'
<1> SUFFICES ASSUME TypeOK, RingInv, [Next]_vars PROVE RingInv'
  OBVIOUS
<1>1. (handling # "no" => ~busy)'
  BY HandlingStep
<1>2. CASE shifted'
  BY <1>1, <1>2 DEF RingInv
<1>3. CASE ~shifted' /\ Restarts
  BY <1>1, <1>3, RestartStep DEF RingInv
<1>4. CASE ~shifted' /\ ~Restarts
  BY <1>1, <1>4, ShiftStays, OrderStep DEF RingInv
<1>5. QED
  BY <1>2, <1>3, <1>4

(* Producers and consumer agree on the ring whatever the depth: the        *)
(* pending slots are those between their two indices, so the foreground    *)
(* never looks at an empty slot while callbacks wait in others, unless a   *)
(* reset has come in a place that the foreground leaves open.  That the    *)
(* ring never fills up rests on the bound RoomLeft                         *)
(* (ahci.c:296-344, main.c:226-252).                                       *)
THEOREM RingStaysAligned == Spec => []RingAligned
<1>1. RingInv => RingAligned
  BY DEF RingInv, InOrder, RingAligned
<1>2. QED
  BY <1>1, RingInit, RingStep, TypeCorrect, PTL DEF Spec

-----------------------------------------------------------------------------
(* A callback that is queued has still to be run.                          *)
LEMMA AddToRun ==
  ASSUME TypeOK, InOrder, NEW k \in Kinds, QueueAdd(k),
         Dist(FirstSlot, callback_index) <= Depth - 2,
         UNCHANGED <<callback_processing_index, fg>>
  PROVE  SomeToRun'
<1>1. callback_index \in Slots /\ callback_pending'[callback_index]
  BY DEF QueueAdd, TypeOK
<1>2. ASSUME fg = "unmasked" PROVE callback_index # callback_processing_index
  <2>1. /\ callback_pending[callback_processing_index]
        /\ callback_processing_index \in Slots
        /\ FirstSlot = callback_processing_index
    BY <1>2 DEF InOrder, TypeOK, FirstSlot
  <2>2. callback_processing_index
          \in Between(callback_processing_index, callback_index)
    BY <2>1 DEF InOrder, Aligned
  <2>3. QED
    BY <1>1, <2>1, <2>2, BetweenFront
<1>3. QED
  BY <1>1, <1>2 DEF SomeToRun

(* The notice of an error is the first that is heard, or is not sent.      *)
LEMMA NotifyHeard ==
  ASSUME TypeOK, InOrder, HeardInv, ~shifted, NEW guard \in BOOLEAN,
         NotifyError(guard), UNCHANGED <<callback_processing_index, fg>>
  PROVE  /\ heard' = heard \/ (OneErrorAtMost(guard) /\ heard' = <<"error">>)
         /\ heard' # <<>> => SomeToRun'
<1>1. CASE OneErrorAtMost(guard)
  <2>1. QueueAdd("error") /\ "error" \in Kinds
    BY <1>1 DEF NotifyError, Kinds
  <2>2. ~CallbacksPending /\ {i \in Slots : callback_pending[i]} = {}
    BY <1>1 DEF OneErrorAtMost, CallbacksPending
  <2>3. heard = <<>>
    BY <2>2 DEF HeardInv, SomeToRun, CallbacksPending
  <2>4. Append(<<>>, "error") = <<"error">>
    OBVIOUS
  <2>5. heard' = heard \/ heard' = <<"error">>
    BY <2>1, <2>3, <2>4 DEF QueueAdd, Hears
  <2>6. FirstSlot = callback_index
    BY <2>2, BetweenFront, FirstType DEF InOrder, Aligned, TypeOK
  <2>7. Dist(FirstSlot, callback_index) <= Depth - 2
    BY <2>6, DistType, DepthType DEF TypeOK
  <2>8. SomeToRun'
    BY <2>1, <2>7, AddToRun
  <2>9. QED
    BY <1>1, <2>5, <2>8
<1>2. CASE ~OneErrorAtMost(guard)
  <2>1. UNCHANGED <<ring, heard>>
    BY <1>2 DEF NotifyError
  <2>2. QED
    BY <2>1 DEF ring, SomeToRun, HeardInv
<1>3. QED
  BY <1>1, <1>2

(* Two tidings have an error first.                                        *)
LEMMA TidingsAppend ==
  ASSUME NEW k \in Kinds
  PROVE  /\ Append(<<>>, k) \in Tidings
         /\ Append(<<"error">>, k) \in Tidings
         /\ <<>> \in Tidings /\ <<"error">> \in Tidings
<1>1. Append(<<>>, k) = <<k>>
  OBVIOUS
<1>2. Append(<<"error">>, k) = <<"error", k>>
  <2> DEFINE s == Append(<<"error">>, k)
             t == <<"error", k>>
  <2>1. "error" \in Kinds /\ <<"error">> \in Seq(Kinds) /\ Len(<<"error">>) = 1
    BY DEF Kinds
  <2>2. /\ s \in Seq(Kinds) /\ Len(s) = 2
        /\ s[1] = "error" /\ s[2] = k
    BY <2>1, AppendProperties
  <2>3. /\ t \in Seq(Kinds) /\ Len(t) = 2
        /\ t[1] = "error" /\ t[2] = k
    BY <2>1
  <2>4. \A i \in 1 .. 2 : s[i] = t[i]
    BY <2>2, <2>3
  <2> HIDE DEF s, t
  <2>5. s = t
    BY <2>2, <2>3, <2>4, SeqEqual
  <2>6. QED
    BY <2>5 DEF s, t
<1>3. "error" \in Kinds
  BY DEF Kinds
<1>4. QED
  BY <1>1, <1>2, <1>3 DEF Tidings

(* What is heard of a command stays in order, step by step.                *)
LEMMA HeardOrderStep ==
  ASSUME TypeOK, RingInv, HeardInv, ~shifted, [Next]_vars, ~Restarts
  PROVE  HeardInv'
<1>0. InOrder /\ <<>> \in Tidings
  BY DEF RingInv, Tidings
<1> USE <1>0 DEF HeardInv
<1>1. CASE TakeCallback \/ MaskUsb \/ AdvanceIndex
  <2>1. /\ UNCHANGED <<callback_pending, handling, ready, busy, heard>>
        /\ fg' # "unmasked"
    BY <1>1 DEF TakeCallback, MaskUsb, AdvanceIndex, Foreground, ring
  <2>2. SomeToRun => SomeToRun'
    BY <2>1 DEF SomeToRun
  <2>3. QED
    BY <2>1, <2>2
<1>2. CASE RunCallback \/ IssueCommand \/ Configure
  <2>1. heard' = <<>> /\ handling' = "no"
    BY <1>2 DEF RunCallback, Foreground, IssueCommand, Configure, Usb,
       TransportForgets
  <2>2. QED
    BY <2>1
<1>3. CASE RetireFlag
  <2>1. /\ UNCHANGED <<callback_processing_index, handling, ready, busy, heard>>
        /\ fg = "unmasked" /\ fg' = "cleared"
        /\ callback_pending' =
             [callback_pending EXCEPT ![callback_processing_index] = FALSE]
    BY <1>3 DEF RetireFlag, Foreground, ClearPending
  <2>2. SomeToRun => SomeToRun'
    BY <2>1 DEF SomeToRun, TypeOK
  <2>3. QED
    BY <2>1, <2>2
<1>4. CASE Rediscover
  <2>1. /\ UNCHANGED <<callback_pending, callback_processing_index, fg,
                       handling, heard>>
        /\ ~busy' /\ ~CallbacksPending /\ handling = "no"
    BY <1>4 DEF Rediscover, Foreground, ring
  <2>2. heard = <<>>
    BY <2>1 DEF SomeToRun, CallbacksPending
  <2>3. QED
    BY <2>1, <2>2
<1>5. CASE BeginCompletion
  <2>1. /\ heard = <<>> /\ heard' = heard /\ ~busy' /\ handling' = "data"
    BY <1>5 DEF BeginCompletion
  <2>2. QED
    BY <2>1
<1>6. CASE EndCompletion
  <2>1. /\ UNCHANGED <<callback_processing_index, fg>>
        /\ handling # "no" /\ handling' = "no" /\ ~busy'
        /\ handling \in {"data", "overtaken"}
    BY <1>6 DEF EndCompletion, Sata, RingInv, TypeOK
  <2>2. heard \in {<<>>, <<"error">>}
    BY <2>1
  <2>3. CASE UNCHANGED <<ring, heard>>
    <3>1. SomeToRun => SomeToRun'
      BY <2>1, <2>3 DEF SomeToRun, ring
    <3>2. QED
      BY <2>1, <2>3, <3>1
  <2>4. CASE \E k \in Kinds : QueueAdd(k)
    <3>1. PICK k \in Kinds : QueueAdd(k)
      BY <2>4
    <3>2. SomeToRun'
      BY <2>1, <3>1, AddToRun DEF InOrder
    <3>3. heard' = Append(heard, k) \/ heard' = heard
      BY <3>1 DEF QueueAdd, Hears
    <3>4. heard' \in Tidings
      BY <2>2, <3>3, TidingsAppend
    <3>5. QED
      BY <2>1, <3>2, <3>4
  <2>5. "command" \in Kinds /\ pAtaCallbackQueue[callback_index] \in Kinds
    BY DEF Kinds, TypeOK
  <2>6. QED
    BY <1>6, <2>3, <2>4, <2>5 DEF EndCompletion
<1>7. CASE FatalError \/ LinkChange
  <2>1. /\ UNCHANGED <<callback_processing_index, fg>>
        /\ ~(ready' /\ busy') /\ handling' = "no"
    BY <1>7 DEF FatalError, LinkChange, Sata
  <2>2. PICK guard \in BOOLEAN : NotifyError(guard)
    BY <1>7 DEF FatalError, LinkChange, TypeOK
  <2>3. /\ heard' = heard \/ heard' = <<"error">>
        /\ heard' # <<>> => SomeToRun'
    BY <2>1, <2>2, NotifyHeard
  <2>4. heard' \in Tidings
    BY <2>3, TidingsAppend DEF Kinds
  <2>5. QED
    BY <2>1, <2>3, <2>4
<1>8. CASE RxError
  <2>1. /\ UNCHANGED <<callback_processing_index, fg>> /\ ~ready'
    BY <1>8 DEF RxError, Sata
  <2>2. CASE handling = "data" /\ UNCHANGED <<ring, heard, missed, handling>>
    BY <2>1, <2>2
  <2>3. CASE /\ NotifyError(TRUE)
             /\ handling' = IF handling = "data" /\ OneErrorAtMost(TRUE)
                            THEN "overtaken" ELSE handling
    <3>1. /\ heard' = heard \/ (OneErrorAtMost(TRUE) /\ heard' = <<"error">>)
          /\ heard' # <<>> => SomeToRun'
      BY <2>1, <2>3, NotifyHeard
    <3>2. heard' \in Tidings
      BY <3>1, TidingsAppend DEF Kinds
    <3>3. handling' = "data" => heard' = <<>>
      BY <2>3, <3>1
    <3>4. handling' = "overtaken" => heard' \in {<<>>, <<"error">>}
      BY <2>3, <3>1
    <3>5. QED
      BY <2>1, <3>1, <3>2, <3>3, <3>4
  <2>4. QED
    BY <1>8, <2>2, <2>3 DEF RxError
<1>9. CASE \/ RecoverLocalCommand \/ Deconfigure \/ BusReset
           \/ MassStorageReset \/ UNCHANGED vars
  <2>1. /\ UNCHANGED <<callback_pending, callback_processing_index, fg,
                       handling>>
        /\ heard' = heard \/ heard' = <<>>
        /\ ready' /\ busy' => ready /\ busy
    BY <1>9 DEF RecoverLocalCommand, Deconfigure, BusReset, MassStorageReset,
       TransportForgets, Usb, ring, vars, Restarts
  <2>2. SomeToRun => SomeToRun'
    BY <2>1 DEF SomeToRun
  <2>3. QED
    BY <2>1, <2>2
<1>10. QED
  BY <1>1, <1>2, <1>3, <1>4, <1>5, <1>6, <1>7, <1>8, <1>9
     DEF Next, ServeQueue, Restarts

LEMMA HeardStep ==
  TypeOK /\ RingInv /\ HeardInv /\ [Next]_vars => HeardInv'
<1> SUFFICES ASSUME TypeOK, RingInv, HeardInv, [Next]_vars, ~shifted'
             PROVE  HeardInv'
  BY DEF HeardInv
<1>1. CASE Restarts
  <2>1. heard' = <<>> /\ handling' = "no" /\ <<>> \in Tidings
    BY <1>1, RestartStep DEF Tidings
  <2>2. QED
    BY <2>1 DEF HeardInv
<1>2. CASE ~Restarts
  <2>1. ~shifted
    BY <1>2, ShiftStays
  <2>2. QED
    BY <1>2, <2>1, HeardOrderStep
<1>3. QED
  BY <1>1, <1>2

(* What can be heard has its completion, if any, at the end.               *)
LEMMA TidingsInOrder ==
  ASSUME NEW t \in Tidings
  PROVE  Len(t) <= 2 /\ \A i \in DOMAIN t : t[i] = "command" => i = Len(t)
<1>1. CASE t = <<>>
  BY <1>1
<1>2. CASE \E k \in Kinds : t = <<k>>
  BY <1>2
<1>3. CASE \E k \in Kinds : t = <<"error", k>>
  <2>1. PICK k \in Kinds : t = <<"error", k>>
    BY <1>3
  <2>2. Len(t) = 2 /\ DOMAIN t = 1 .. 2 /\ t[1] = "error" /\ t[2] = k
    BY <2>1
  <2>3. QED
    BY <2>2
<1>4. QED
  BY <1>1, <1>2, <1>3 DEF Tidings

(* Whatever interrupts what, nothing is queued for a command behind its    *)
(* completion, and two callbacks come of one command only if a receiver    *)
(* error has interrupted the completion, for rings of every depth          *)
(* (ahci.c:1957-1964, ahci.c:2614-2645, ahci.c:3411-3419).                 *)
THEOREM CompletionSpeaksLast == Spec => []CompletionIsLast
<1>1. HeardInv => CompletionIsLast
  BY TidingsInOrder DEF HeardInv, CompletionIsLast
<1>2. QED
  BY <1>1, RingInit, RingStep, HeardStep, TypeCorrect, PTL DEF Spec

-----------------------------------------------------------------------------
(* A segment of the ring is a sequence of callbacks.                       *)
LEMMA SegmentType ==
  ASSUME NEW q \in [Slots -> Kinds], NEW h \in Slots, NEW n \in 0 .. Depth
  PROVE  /\ Segment(q, h, n) \in Seq(Kinds)
         /\ Len(Segment(q, h, n)) = n
         /\ \A i \in 1 .. n :
              Segment(q, h, n)[i] = q[IF h + i - 1 < Depth THEN h + i - 1
                                      ELSE h + i - 1 - Depth]
<1>1. \A i \in 1 .. n :
        (h + i - 1) % Depth = IF h + i - 1 < Depth THEN h + i - 1
                              ELSE h + i - 1 - Depth
  BY DepthType DEF Slots
<1>2. \A i \in 1 .. n : (h + i - 1) % Depth \in Slots
  BY <1>1, DepthType DEF Slots
<1>3. \A i \in 1 .. n : q[(h + i - 1) % Depth] \in Kinds
  BY <1>2
<1>4. n \in Nat /\ Segment(q, h, n) \in [1 .. n -> Kinds]
  BY <1>3, DepthType DEF Segment
<1>5. Segment(q, h, n) \in Seq(Kinds) /\ Len(Segment(q, h, n)) = n
  BY <1>4
<1>6. QED
  BY <1>1, <1>5 DEF Segment

(* The empty segment is the empty sequence.                                *)
LEMMA SegmentEmpty ==
  ASSUME NEW q \in [Slots -> Kinds], NEW h \in Slots
  PROVE  Segment(q, h, 0) = <<>>
  BY SegmentType, DepthType, EmptySeq

(* Filling the slot at the end appends to the segment.                     *)
LEMMA SegmentGrows ==
  ASSUME NEW q \in [Slots -> Kinds], NEW h \in Slots, NEW b \in Slots,
         NEW n \in 0 .. Depth - 2, n = Dist(h, b), NEW k \in Kinds
  PROVE  Segment([q EXCEPT ![b] = k], h, n + 1) = Append(Segment(q, h, n), k)
<1> DEFINE r == [q EXCEPT ![b] = k]
           s == Segment(q, h, n)
           t == Segment(r, h, n + 1)
           At(i) == IF h + i - 1 < Depth THEN h + i - 1 ELSE h + i - 1 - Depth
<1>1. n \in 0 .. Depth /\ n + 1 \in 0 .. Depth /\ n \in Nat
  BY DepthType
<1>2. /\ \A i \in 1 .. n : At(i) \in Slots /\ At(i) # b
      /\ At(n + 1) = b
  BY DepthType DEF Slots, Dist
<1>3. r \in [Slots -> Kinds]
  OBVIOUS
<1>4. s \in Seq(Kinds) /\ Len(s) = n /\ \A i \in 1 .. n : s[i] = q[At(i)]
  BY <1>1, SegmentType
<1>5. /\ t \in Seq(Kinds) /\ Len(t) = n + 1
      /\ \A i \in 1 .. (n + 1) : t[i] = r[At(i)]
  BY <1>1, <1>3, SegmentType, ZenonT(60)
<1>6. /\ \A i \in 1 .. n : t[i] = s[i]
      /\ t[n + 1] = k
  <2> HIDE DEF s, t, At
  <2>1. \A i \in 1 .. n : i \in 1 .. (n + 1) /\ t[i] = r[At(i)]
    BY <1>1, <1>5
  <2>2. n + 1 \in 1 .. (n + 1) /\ t[n + 1] = r[b]
    BY <1>1, <1>2, <1>5
  <2>3. \A i \in 1 .. n : r[At(i)] = q[At(i)]
    BY <1>2
  <2>4. QED
    BY <1>4, <2>1, <2>2, <2>3
<1> HIDE DEF r, s, t, At
<1>7. /\ Append(s, k) \in Seq(Kinds) /\ Len(Append(s, k)) = n + 1
      /\ \A i \in 1 .. n : Append(s, k)[i] = s[i]
      /\ Append(s, k)[n + 1] = k
  BY <1>4, AppendProperties
<1>8. \A i \in 1 .. (n + 1) : t[i] = Append(s, k)[i]
  BY <1>1, <1>6, <1>7
<1>9. t = Append(s, k)
  BY <1>5, <1>7, <1>8, SeqEqual
<1>10. QED
  BY <1>9 DEF r, s, t

(* Running the callback at the front takes the head off the segment.       *)
LEMMA SegmentShrinks ==
  ASSUME NEW q \in [Slots -> Kinds], NEW h \in Slots, NEW n \in 1 .. Depth
  PROVE  /\ Segment(q, h, n) # <<>>
         /\ Tail(Segment(q, h, n)) = Segment(q, NextIndex(h), n - 1)
<1> DEFINE s == Segment(q, h, n)
           t == Segment(q, NextIndex(h), n - 1)
<1>1. n \in 0 .. Depth /\ n - 1 \in 0 .. Depth /\ NextIndex(h) \in Slots
  BY DepthType, NextType
<1>2. /\ s \in Seq(Kinds) /\ Len(s) = n
      /\ \A i \in 1 .. n :
           s[i] = q[IF h + i - 1 < Depth THEN h + i - 1
                    ELSE h + i - 1 - Depth]
  BY <1>1, SegmentType
<1>3. /\ t \in Seq(Kinds) /\ Len(t) = n - 1
      /\ \A i \in 1 .. (n - 1) :
           t[i] = q[IF NextIndex(h) + i - 1 < Depth THEN NextIndex(h) + i - 1
                    ELSE NextIndex(h) + i - 1 - Depth]
  BY <1>1, SegmentType
<1>4. \A i \in 1 .. (n - 1) : t[i] = s[i + 1]
  <2> SUFFICES ASSUME NEW i \in 1 .. (n - 1) PROVE t[i] = s[i + 1]
    OBVIOUS
  <2>1. i + 1 \in 1 .. n
    BY DepthType
  <2>2. (IF NextIndex(h) + i - 1 < Depth THEN NextIndex(h) + i - 1
         ELSE NextIndex(h) + i - 1 - Depth)
          = IF h + (i + 1) - 1 < Depth THEN h + (i + 1) - 1
            ELSE h + (i + 1) - 1 - Depth
    BY DepthType DEF NextIndex, Slots
  <2>3. QED
    BY <1>2, <1>3, <2>1, <2>2
<1> HIDE DEF s, t
<1>5. s # <<>>
  BY <1>2, EmptySeq, DepthType
<1>6. /\ Tail(s) \in Seq(Kinds) /\ Len(Tail(s)) = n - 1
      /\ \A i \in 1 .. (n - 1) : Tail(s)[i] = s[i + 1]
  BY <1>2, <1>5, HeadTailProperties
<1>7. Tail(s) = t
  BY <1>3, <1>4, <1>6, SeqEqual
<1>8. QED
  BY <1>5, <1>7 DEF s, t

-----------------------------------------------------------------------------
(* The queue that the ring stands for is the segment from the slot that is *)
(* run next to the producers' index.                                       *)
LEMMA FifoIsSegment ==
  TypeOK /\ InOrder =>
    /\ NextServed \in Slots
    /\ Dist(NextServed, callback_index) \in 0 .. Depth - 1
    /\ Dist(NextServed, callback_index) <= Dist(FirstSlot, callback_index)
    /\ Fifo = Segment(pAtaCallbackQueue, NextServed,
                      Dist(NextServed, callback_index))
<1> SUFFICES ASSUME TypeOK, InOrder
             PROVE  /\ NextServed \in Slots
                    /\ Dist(NextServed, callback_index) \in 0 .. Depth - 1
                    /\ Dist(NextServed, callback_index)
                         <= Dist(FirstSlot, callback_index)
                    /\ Fifo = Segment(pAtaCallbackQueue, NextServed,
                                      Dist(NextServed, callback_index))
  OBVIOUS
<1>1. NextServed \in Slots /\ FirstSlot \in Slots /\ callback_index \in Slots
  BY NextType, FirstType DEF NextServed, TypeOK
<1>2. PICK n \in 0 .. Depth - 1 : n = Dist(NextServed, callback_index)
  BY <1>1, DistType
<1>3. PICK m \in 0 .. Depth - 1 : m = Dist(FirstSlot, callback_index)
  BY <1>1, DistType
<1>4. Unserved = m - HasRun
  BY <1>3, PendingCount DEF Unserved, InOrder
<1>5. CASE fg = "unmasked"
  <2>1. /\ HasRun = 1 /\ FirstSlot = callback_processing_index
        /\ NextServed = NextIndex(FirstSlot)
        /\ callback_pending[FirstSlot]
    BY <1>5 DEF HasRun, FirstSlot, NextServed, InOrder
  <2>2. FirstSlot \in Between(FirstSlot, callback_index)
    BY <1>1, <2>1 DEF InOrder, Aligned
  <2>3. n = m - 1
    BY <1>1, <1>2, <1>3, <2>1, <2>2, BetweenShrinks
  <2>4. Unserved = n
    BY <1>4, <2>1, <2>3
  <2>5. \A k \in 1 .. n :
          (FirstSlot + 1 + k - 1) % Depth = (NextIndex(FirstSlot) + k - 1) % Depth
    BY <1>1, DepthType DEF Slots, NextIndex
  <2>6. \A k \in 1 .. n :
          (FirstSlot + HasRun + k - 1) % Depth = (NextServed + k - 1) % Depth
    BY <2>1, <2>5
  <2>7. Fifo = Segment(pAtaCallbackQueue, NextServed, n)
    BY <2>4, <2>6 DEF Fifo, Segment
  <2>8. n <= m
    BY <2>3
  <2>9. QED
    BY <1>1, <1>2, <1>3, <2>7, <2>8
<1>6. CASE fg # "unmasked"
  <2>1. HasRun = 0 /\ FirstSlot = NextServed
    BY <1>6 DEF HasRun, FirstSlot, NextServed
  <2>2. n = m /\ Unserved = n
    BY <1>2, <1>3, <1>4, <2>1
  <2>3. \A k \in 1 .. n :
          (FirstSlot + HasRun + k - 1) % Depth = (NextServed + k - 1) % Depth
    BY <1>1, <2>1 DEF Slots
  <2>4. Fifo = Segment(pAtaCallbackQueue, NextServed, n)
    BY <2>2, <2>3 DEF Fifo, Segment
  <2>5. QED
    BY <1>1, <1>2, <1>3, <2>2, <2>4
<1>7. QED
  BY <1>5, <1>6

(* What the abstract queue is mapped to.                                   *)
fifo == IF shifted THEN <<>> ELSE Fifo

(* Initially the queue is empty.                                           *)
LEMMA FifoInit == Init => Queue!Init
<1> SUFFICES ASSUME Init PROVE Fifo = <<>>
  BY DEF Queue!Init, Init
<1>1. TypeOK /\ InOrder
  BY TypeInit, RingInit DEF RingInv, Init
<1>2. NextServed = 0 /\ callback_index = 0
  BY DEF Init, NextServed
<1>3. Dist(0, 0) = 0
  BY DistType, DepthType
<1>4. QED
  BY <1>1, <1>2, <1>3, FifoIsSegment, SegmentEmpty, DepthType DEF TypeOK

(* Queueing a callback in the ring is queueing it.                         *)
LEMMA FifoAdd ==
  ASSUME TypeOK, InOrder, NEW k \in Kinds, QueueAdd(k),
         Dist(FirstSlot, callback_index) <= Depth - 2,
         UNCHANGED <<callback_processing_index, fg>>
  PROVE  Segment(pAtaCallbackQueue', NextServed',
                 Dist(NextServed', callback_index')) = Append(Fifo, k)
<1>1. PICK n \in 0 .. Depth - 1 : n = Dist(NextServed, callback_index)
  BY FifoIsSegment
<1>2. PICK m \in 0 .. Depth - 1 : m = Dist(FirstSlot, callback_index)
  BY FirstType, DistType DEF TypeOK
<1>3. n \in 0 .. Depth - 2
  <2>1. n <= m /\ m <= Depth - 2
    BY <1>1, <1>2, FifoIsSegment
  <2>2. QED
    BY <2>1, DepthType
<1>4. /\ NextServed \in Slots /\ callback_index \in Slots
      /\ Fifo = Segment(pAtaCallbackQueue, NextServed, n)
      /\ pAtaCallbackQueue \in [Slots -> Kinds]
  BY <1>1, FifoIsSegment DEF TypeOK
<1>5. /\ NextServed' = NextServed
      /\ callback_index' = NextIndex(callback_index)
      /\ pAtaCallbackQueue' =
           [pAtaCallbackQueue EXCEPT ![callback_index] = k]
  BY DEF NextServed, QueueAdd
<1>6. Dist(NextServed, NextIndex(callback_index)) = n + 1
  BY <1>1, <1>3, <1>4, BetweenGrows, DepthType
<1>7. Segment([pAtaCallbackQueue EXCEPT ![callback_index] = k], NextServed,
              n + 1)
        = Append(Segment(pAtaCallbackQueue, NextServed, n), k)
  BY <1>1, <1>3, <1>4, SegmentGrows
<1>8. QED
  BY <1>4, <1>5, <1>6, <1>7

(* The same after a step.                                                  *)
LEMMA NextFifoIsSegment ==
  (TypeOK /\ InOrder)' =>
    Fifo' = Segment(pAtaCallbackQueue', NextServed',
                    Dist(NextServed', callback_index'))
<1>1. TypeOK /\ InOrder =>
        Fifo = Segment(pAtaCallbackQueue, NextServed,
                       Dist(NextServed, callback_index))
  BY FifoIsSegment
<1>2. (TypeOK /\ InOrder =>
         Fifo = Segment(pAtaCallbackQueue, NextServed,
                        Dist(NextServed, callback_index)))'
  BY <1>1, PTL
<1>3. QED
  BY <1>2 DEF Segment, Dist

(* A ring that starts anew has discarded all, or all but the error         *)
(* callback of the reset.                                                  *)
LEMMA FifoRestart ==
  ASSUME TypeOK, Restarts, ~shifted', TypeOK', InOrder'
  PROVE  Fifo' \in {<<>>, <<"error">>}
<1> DEFINE q == pAtaCallbackQueue'
           size == Dist(NextServed', callback_index')
<1>1. /\ q \in [Slots -> Kinds] /\ 0 \in Slots /\ 1 \in Slots
      /\ callback_processing_index' = 0
  BY DepthType DEF TypeOK, Slots, Restarts, RunNothing, BusReset,
     MassStorageReset, ClearQueue, RewindIndices
<1>2. Fifo' = Segment(q, NextServed', size)
  BY NextFifoIsSegment
<1>3. CASE callback_index' = NextServed'
  <2>1. NextServed' \in Slots /\ callback_index' \in Slots
    BY <1>3 DEF TypeOK
  <2>2. size = 0
    BY <1>3, <2>1, DistType
  <2>3. QED
    BY <1>1, <1>2, <2>1, <2>2, SegmentEmpty
<1>4. CASE callback_index' # NextServed'
  <2>1. MassStorageReset
    <3>1. CASE RunNothing
      BY <1>1, <1>4, <3>1 DEF RunNothing, Foreground, RewindIndices, NextServed
    <3>2. CASE BusReset /\ ready
      BY <1>1, <1>4, <3>2 DEF BusReset, Usb, ClearQueue, RewindIndices,
         NextServed
    <3>3. QED
      BY <3>1, <3>2 DEF Restarts
  <2>2. ready
    BY <2>1 DEF Restarts, RunNothing, MassStorageReset, Foreground, Usb
  <2>3. /\ callback_index' = 1 /\ fg' = fg /\ fg # "cleared"
        /\ q = [pAtaCallbackQueue EXCEPT ![0] = "error"]
    BY <2>1, <2>2 DEF MassStorageReset, Usb
  <2>4. NextServed' = 0
    BY <1>1, <1>4, <2>3, DepthType DEF NextServed, NextIndex
  <2>5. size = 0 + 1 /\ Dist(0, 0) = 0 /\ 0 \in 0 .. Depth - 2
    BY <2>3, <2>4, DepthType DEF Dist
  <2>6. pAtaCallbackQueue \in [Slots -> Kinds] /\ "error" \in Kinds
    BY DEF TypeOK, Kinds
  <2>7. Segment([pAtaCallbackQueue EXCEPT ![0] = "error"], 0, 0 + 1) =
          Append(Segment(pAtaCallbackQueue, 0, 0), "error")
    BY <1>1, <2>5, <2>6, SegmentGrows
  <2>8. Segment(pAtaCallbackQueue, 0, 0) = <<>>
    BY <1>1, <2>6, SegmentEmpty
  <2>9. Fifo' = Append(<<>>, "error")
    BY <1>2, <2>3, <2>4, <2>5, <2>7, <2>8
  <2>10. Append(<<>>, "error") = <<"error">>
    OBVIOUS
  <2>11. QED
    BY <2>9, <2>10
<1>5. QED
  BY <1>3, <1>4

(* Every step queues, serves or discards callbacks as the queue allows, or *)
(* leaves it alone.                                                        *)
LEMMA FifoStep ==
  ASSUME TypeOK, RingInv, ~shifted, [Next]_vars, ~Restarts,
         Fifo' = Segment(pAtaCallbackQueue', NextServed',
                         Dist(NextServed', callback_index'))
  PROVE  \/ UNCHANGED Fifo
         \/ \E k \in Kinds : Fifo' = Append(Fifo, k)
         \/ Fifo # <<>> /\ Fifo' = Tail(Fifo)
<1>0. InOrder
  BY DEF RingInv
<1> DEFINE head == NextServed
           size == Dist(NextServed, callback_index)
<1>1. /\ pAtaCallbackQueue \in [Slots -> Kinds]
      /\ head \in Slots /\ size \in 0 .. Depth - 1
      /\ callback_index \in Slots /\ callback_processing_index \in Slots
      /\ Fifo = Segment(pAtaCallbackQueue, head, size)
  BY <1>0, FifoIsSegment DEF TypeOK
<1>2. ASSUME UNCHANGED <<pAtaCallbackQueue, callback_index, NextServed>>
      PROVE  UNCHANGED Fifo
  BY <1>1, <1>2
<1>3. ASSUME NEW k \in Kinds, QueueAdd(k),
             Dist(FirstSlot, callback_index) <= Depth - 2,
             UNCHANGED <<callback_processing_index, fg>>
      PROVE  Fifo' = Append(Fifo, k)
  BY <1>0, <1>3, FifoAdd
<1>4. CASE TakeCallback \/ MaskUsb
  BY <1>2, <1>4 DEF TakeCallback, MaskUsb, Foreground, ring, NextServed
<1>5. CASE RunCallback
  <2>1. /\ fg = "running" /\ fg' = "unmasked"
        /\ UNCHANGED <<ring, callback_processing_index>>
    BY <1>5 DEF RunCallback, Foreground
  <2>2. /\ head = callback_processing_index
        /\ FirstSlot = callback_processing_index
        /\ NextServed' = NextIndex(head)
    BY <2>1 DEF NextServed, FirstSlot
  <2>3. head \in Between(head, callback_index)
    BY <1>0, <1>1, <2>1, <2>2 DEF InOrder, Aligned
  <2>4. Dist(NextIndex(head), callback_index) = size - 1
    BY <1>1, <2>3, BetweenShrinks
  <2>5. size \in 1 .. Depth
    <3>1. head # callback_index
      BY <1>1, <2>3, BetweenFront
    <3>2. size # 0
      BY <1>1, <3>1, DistType
    <3>3. QED
      BY <1>1, <3>2, DepthType
  <2>6. Fifo' = Segment(pAtaCallbackQueue, NextIndex(head), size - 1)
    BY <2>1, <2>2, <2>4 DEF ring
  <2>7. Fifo # <<>> /\ Fifo' = Tail(Fifo)
    BY <1>1, <2>5, <2>6, SegmentShrinks
  <2>8. QED
    BY <2>7
<1>6. CASE RetireFlag
  BY <1>2, <1>6 DEF RetireFlag, Foreground, NextServed
<1>7. CASE AdvanceIndex
  BY <1>2, <1>7 DEF AdvanceIndex, Foreground, ring, NextServed
<1>8. CASE Rediscover \/ BeginCompletion
  BY <1>2, <1>8 DEF Rediscover, BeginCompletion, Foreground, Sata, ring,
     NextServed
<1>9. CASE EndCompletion
  <2>1. /\ Dist(FirstSlot, callback_index) <= Depth - 2
        /\ UNCHANGED <<callback_processing_index, fg>>
    BY <1>0, <1>9 DEF EndCompletion, Sata, InOrder
  <2>2. "command" \in Kinds /\ pAtaCallbackQueue[callback_index] \in Kinds
    BY DEF Kinds, TypeOK
  <2>3. CASE \E k \in Kinds : QueueAdd(k)
    BY <1>3, <2>1, <2>3
  <2>4. CASE UNCHANGED ring
    BY <1>2, <2>1, <2>4 DEF ring, NextServed
  <2>5. QED
    BY <1>9, <2>2, <2>3, <2>4 DEF EndCompletion
<1>10. CASE FatalError \/ LinkChange \/ RxError
  <2>1. (\E guard \in BOOLEAN : NotifyError(guard)) \/ UNCHANGED ring
    BY <1>10 DEF FatalError, LinkChange, RxError, TypeOK
  <2>2. UNCHANGED <<callback_processing_index, fg>>
    BY <1>10 DEF FatalError, LinkChange, RxError, Sata
  <2>3. CASE \E guard \in BOOLEAN : OneErrorAtMost(guard) /\ QueueAdd("error")
    <3>1. QueueAdd("error") /\ "error" \in Kinds
      BY <2>3 DEF Kinds
    <3>2. {i \in Slots : callback_pending[i]} = {}
      BY <2>3 DEF OneErrorAtMost, CallbacksPending
    <3>3. FirstSlot = callback_index
      BY <1>1, <3>2, <1>0, BetweenFront, FirstType DEF InOrder, Aligned
    <3>4. Dist(FirstSlot, callback_index) = 0
      BY <1>1, <3>3, DistType
    <3>5. QED
      BY <1>3, <2>2, <3>1, <3>4, DepthType
  <2>4. CASE UNCHANGED ring
    BY <1>2, <2>2, <2>4 DEF ring, NextServed
  <2>5. QED
    BY <2>1, <2>3, <2>4 DEF NotifyError
<1>11. CASE \/ IssueCommand \/ RecoverLocalCommand \/ Configure
            \/ Deconfigure
  BY <1>2, <1>11 DEF IssueCommand, RecoverLocalCommand, Configure,
     Deconfigure, Usb, ring, NextServed
<1>12. CASE BusReset \/ MassStorageReset
  BY <1>2, <1>12 DEF BusReset, MassStorageReset, Usb, ring, NextServed,
     Restarts, TypeOK
<1>13. CASE UNCHANGED vars
  BY <1>2, <1>13 DEF vars, ring, NextServed
<1>14. QED
  BY <1>4, <1>5, <1>6, <1>7, <1>8, <1>9, <1>10, <1>11, <1>12, <1>13
     DEF Next, ServeQueue, Restarts

(* So every step of the ring is one that the queue allows, or none.        *)
LEMMA QueueStep ==
  ASSUME TypeOK, RingInv, TypeOK', RingInv', [Next]_vars
  PROVE  [Queue!Next]_<<fifo, shifted>>
<1> USE DEF Queue!Next, fifo
<1>1. CASE shifted'
  <2>1. CASE shifted
    BY <1>1, <2>1
  <2>2. CASE ~shifted
    BY <1>1, <2>2 DEF Queue!Lose, TypeOK
  <2>3. QED
    BY <2>1, <2>2
<1>2. CASE ~shifted' /\ Restarts
  <2>1. Fifo' \in {<<>>, <<"error">>}
    BY <1>2, FifoRestart DEF RingInv
  <2>2. shifted' = FALSE
    BY <1>2 DEF TypeOK
  <2>3. QED
    BY <2>1, <2>2 DEF Queue!Flush
<1>3. CASE ~shifted' /\ ~Restarts
  <2>1. ~shifted /\ shifted' = shifted
    BY <1>3, ShiftStays
  <2>2. Fifo' = Segment(pAtaCallbackQueue', NextServed',
                        Dist(NextServed', callback_index'))
    BY <1>3, NextFifoIsSegment DEF RingInv
  <2>3. \/ UNCHANGED Fifo
        \/ \E k \in Kinds : Fifo' = Append(Fifo, k)
        \/ Fifo # <<>> /\ Fifo' = Tail(Fifo)
    BY <1>3, <2>1, <2>2, FifoStep
  <2>4. QED
    BY <2>1, <2>3 DEF Queue!Enqueue, Queue!Serve, Queue!Kinds, Kinds
<1>4. QED
  BY <1>1, <1>2, <1>3

(* The ring implements a queue, whatever its depth: callbacks are served   *)
(* in the order in which they were queued, once each, or discarded by a    *)
(* reset, or lost with the place of the server in the windows that the     *)
(* foreground leaves open (ahci.c:296-344, main.c:226-252).                *)
THEOREM RingIsFifo == Spec => Queue!Safe
<1>1. TypeOK /\ RingInv /\ TypeOK' /\ RingInv' /\ [Next]_vars
        => [Queue!Next]_Queue!vars
  BY QueueStep DEF Queue!vars, fifo
<1>2. QED
  BY <1>1, FifoInit, RingInit, RingStep, TypeCorrect, PTL DEF Spec, Queue!Safe

=============================================================================
