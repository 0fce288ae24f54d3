-------------------- MODULE TouchHandlerRefinement_proofs --------------------
(***************************************************************************)
(* GestureRefinement for a device with one key code per contact: the       *)
(* TouchEvents process_event hands to the callback implement the           *)
(* GestureStream contract, step by step.                                   *)
(*                                                                         *)
(* The refinement mapping is TouchHandler's GS instance: the phase is       *)
(* Idle, Pressed or Scrolling as touch_active_ and scroll_mode_ say, and    *)
(* the kinds are those of the gesture.  A TouchDown must find the handler   *)
(* idle and a touch-up find it active; that holds because the key events    *)
(* of the queue alternate, the first one opposite to touch_active_ (the    *)
(* device reports a press only with the finger up and a lift only with it  *)
(* down).  With two key codes per contact they do not alternate, and the  *)
(* two_buttons run shows the refinement fails.                             *)
(***************************************************************************)
EXTENDS TouchHandlerSync_proofs

\* The device reports one key code per contact.
OneButton == Len(ButtonCodes) = 1

\* s[i] and s[j] are touch keys with none between them.
NextKey(s, i, j) ==
  /\ i < j /\ On(s[i], "key") /\ On(s[j], "key")
  /\ \A m \in DOMAIN s : i < m /\ m < j => ~On(s[m], "key")

\* s[i] is the first touch key of s.
FirstKey(s, i) == On(s[i], "key") /\ \A m \in DOMAIN s : m < i => ~On(s[m], "key")

\* The queued touch keys alternate, starting opposite to touch_active_.
KeysAlternate ==
  /\ \A i, j \in DOMAIN evq : NextKey(evq, i, j) => evq[i].value # evq[j].value
  /\ \A i \in DOMAIN evq : FirstKey(evq, i) => evq[i].value # Held["key"]

\* A scroll is a state of an active contact.
ScrollActive == scroll_mode => touch_active

RefInv == SyncInv /\ KeysAlternate /\ ScrollActive

-----------------------------------------------------------------------------
(* Consecutive and first keys when event_loop reads the head.              *)

\* Two consecutive keys of the tail are consecutive in the queue.
LEMMA NextKeyTail ==
  ASSUME NEW s \in Seq(InputEvent), s # <<>>, NEW i \in DOMAIN Tail(s),
         NEW j \in DOMAIN Tail(s), NextKey(Tail(s), i, j)
  PROVE  NextKey(s, i + 1, j + 1)
<1>1. /\ Len(s) \in Nat \ {0} /\ DOMAIN s = 1..Len(s)
      /\ DOMAIN Tail(s) = 1..(Len(s) - 1)
      /\ \A k \in 1..(Len(s) - 1) : Tail(s)[k] = s[k + 1]
  BY TailIndices
<1>2. i + 1 < j + 1 /\ On(s[i + 1], "key") /\ On(s[j + 1], "key")
  BY <1>1 DEF NextKey
<1>3. ASSUME NEW m \in DOMAIN s, i + 1 < m, m < j + 1 PROVE ~On(s[m], "key")
  <2>1. m - 1 \in DOMAIN Tail(s) /\ i < m - 1 /\ m - 1 < j /\ Tail(s)[m - 1] = s[m]
    BY <1>1, <1>3
  <2>2. QED
    BY <2>1 DEF NextKey
<1>4. QED
  BY <1>2, <1>3 DEF NextKey

\* The first key of the tail follows the head if the head is a key, and is
\* the first key of the queue otherwise.
LEMMA FirstKeyTail ==
  ASSUME NEW s \in Seq(InputEvent), s # <<>>, NEW i \in DOMAIN Tail(s),
         FirstKey(Tail(s), i)
  PROVE  /\ i + 1 \in DOMAIN s /\ Tail(s)[i] = s[i + 1]
         /\ On(Head(s), "key") => NextKey(s, 1, i + 1)
         /\ ~On(Head(s), "key") => FirstKey(s, i + 1)
<1>1. /\ Len(s) \in Nat \ {0} /\ DOMAIN s = 1..Len(s)
      /\ DOMAIN Tail(s) = 1..(Len(s) - 1)
      /\ \A k \in 1..(Len(s) - 1) : Tail(s)[k] = s[k + 1]
      /\ Head(s) = s[1]
  BY TailIndices
<1>2. i + 1 \in DOMAIN s /\ Tail(s)[i] = s[i + 1] /\ On(s[i + 1], "key") /\ 1 < i + 1
  BY <1>1 DEF FirstKey
<1>3. ASSUME NEW m \in DOMAIN s, 1 < m, m < i + 1 PROVE ~On(s[m], "key")
  <2>1. m - 1 \in DOMAIN Tail(s) /\ m - 1 < i /\ Tail(s)[m - 1] = s[m]
    BY <1>1, <1>3
  <2>2. QED
    BY <2>1 DEF FirstKey
<1>4. On(Head(s), "key") => NextKey(s, 1, i + 1)
  BY <1>1, <1>2, <1>3 DEF NextKey
<1>5. ~On(Head(s), "key") => FirstKey(s, i + 1)
  <2>1. ASSUME ~On(Head(s), "key"), NEW m \in DOMAIN s, m < i + 1
        PROVE  ~On(s[m], "key")
    <3>1. CASE m = 1
      BY <1>1, <2>1, <3>1
    <3>2. CASE m # 1
      BY <1>1, <1>3, <2>1, <3>2
    <3>3. QED
      BY <3>1, <3>2
  <2>2. QED
    BY <1>2, <2>1 DEF FirstKey
<1>6. QED
  BY <1>2, <1>4, <1>5

-----------------------------------------------------------------------------
(* Consecutive and first keys when the device appends a frame.             *)

\* t holds at most one touch key.
AtMostOneKey(t) == \A a, b \in DOMAIN t : On(t[a], "key") /\ On(t[b], "key") => a = b

\* Each index of a concatenation is one of the first part or of the second.
LEMMA ConcatAt ==
  ASSUME NEW s \in Seq(InputEvent), NEW t \in Seq(InputEvent), NEW k \in DOMAIN (s \o t)
  PROVE  /\ k \in Nat /\ Len(s) \in Nat
         /\ k <= Len(s) => k \in DOMAIN s /\ (s \o t)[k] = s[k]
         /\ k > Len(s) => k - Len(s) \in DOMAIN t /\ (s \o t)[k] = t[k - Len(s)]
<1>1. /\ Len(s) \in Nat /\ Len(t) \in Nat
      /\ DOMAIN s = 1..Len(s) /\ DOMAIN t = 1..Len(t)
      /\ DOMAIN (s \o t) = 1..(Len(s) + Len(t))
      /\ \A i \in 1..Len(s) : (s \o t)[i] = s[i]
      /\ \A i \in 1..Len(t) : (s \o t)[Len(s) + i] = t[i]
  BY ConcatIndices
<1>2. k > Len(s) => (s \o t)[Len(s) + (k - Len(s))] = t[k - Len(s)]
  BY <1>1
<1>3. QED
  BY <1>1, <1>2

\* The queue's indices keep their events in the concatenation.
LEMMA ConcatKeep ==
  ASSUME NEW s \in Seq(InputEvent), NEW t \in Seq(InputEvent), NEW k \in DOMAIN s
  PROVE  k \in DOMAIN (s \o t) /\ (s \o t)[k] = s[k] /\ k <= Len(s)
BY ConcatIndices

\* Two consecutive keys after a frame with at most one key: both queued
\* before, or the queue's last key and the frame's key.
LEMMA NextKeyConcat ==
  ASSUME NEW s \in Seq(InputEvent), NEW t \in Seq(InputEvent), AtMostOneKey(t),
         NEW i \in DOMAIN (s \o t), NEW j \in DOMAIN (s \o t), NextKey(s \o t, i, j)
  PROVE  \/ i \in DOMAIN s /\ j \in DOMAIN s /\ NextKey(s, i, j)
            /\ (s \o t)[i] = s[i] /\ (s \o t)[j] = s[j]
         \/ i \in DOMAIN s /\ LastOn(s, "key", i) /\ j - Len(s) \in DOMAIN t
            /\ (s \o t)[i] = s[i] /\ (s \o t)[j] = t[j - Len(s)]
<1>1. /\ i \in Nat /\ j \in Nat /\ Len(s) \in Nat
      /\ i <= Len(s) => i \in DOMAIN s /\ (s \o t)[i] = s[i]
      /\ i > Len(s) => i - Len(s) \in DOMAIN t /\ (s \o t)[i] = t[i - Len(s)]
      /\ j <= Len(s) => j \in DOMAIN s /\ (s \o t)[j] = s[j]
      /\ j > Len(s) => j - Len(s) \in DOMAIN t /\ (s \o t)[j] = t[j - Len(s)]
  BY ConcatAt
<1>2. i < j /\ On((s \o t)[i], "key") /\ On((s \o t)[j], "key")
  BY DEF NextKey
<1>3. CASE j <= Len(s)
  <2>1. ASSUME NEW m \in DOMAIN s, i < m, m < j PROVE ~On(s[m], "key")
    <3>1. m \in DOMAIN (s \o t) /\ (s \o t)[m] = s[m]
      BY ConcatKeep
    <3>2. QED
      BY <2>1, <3>1 DEF NextKey
  <2>2. QED
    BY <1>1, <1>2, <1>3, <2>1 DEF NextKey
<1>4. CASE j > Len(s)
  <2>1. i <= Len(s)
    <3>1. SUFFICES ASSUME i > Len(s) PROVE FALSE
      OBVIOUS
    <3>2. i - Len(s) \in DOMAIN t /\ j - Len(s) \in DOMAIN t /\ i - Len(s) # j - Len(s)
      BY <1>1, <1>2, <1>4, <3>1
    <3>3. On(t[i - Len(s)], "key") /\ On(t[j - Len(s)], "key")
      BY <1>1, <1>2, <1>4, <3>1
    <3>4. QED
      BY <3>2, <3>3 DEF AtMostOneKey
  <2>2. ASSUME NEW m \in DOMAIN s, m > i PROVE ~On(s[m], "key")
    <3>1. m \in DOMAIN (s \o t) /\ (s \o t)[m] = s[m] /\ m <= Len(s)
      BY ConcatKeep
    <3>2. m < j
      BY <1>1, <1>4, <3>1
    <3>3. QED
      BY <2>2, <3>1, <3>2 DEF NextKey
  <2>3. QED
    BY <1>1, <1>2, <1>4, <2>1, <2>2 DEF LastOn
<1>5. QED
  BY <1>1, <1>3, <1>4

\* The first key after a frame: the queue's first key, or the frame's key
\* when the queue had none.
LEMMA FirstKeyConcat ==
  ASSUME NEW s \in Seq(InputEvent), NEW t \in Seq(InputEvent),
         NEW i \in DOMAIN (s \o t), FirstKey(s \o t, i)
  PROVE  \/ i \in DOMAIN s /\ FirstKey(s, i) /\ (s \o t)[i] = s[i]
         \/ ~Has(s, "key") /\ i - Len(s) \in DOMAIN t /\ (s \o t)[i] = t[i - Len(s)]
<1>1. /\ i \in Nat /\ Len(s) \in Nat
      /\ i <= Len(s) => i \in DOMAIN s /\ (s \o t)[i] = s[i]
      /\ i > Len(s) => i - Len(s) \in DOMAIN t /\ (s \o t)[i] = t[i - Len(s)]
  BY ConcatAt
<1>2. ASSUME NEW m \in DOMAIN s, m < i PROVE ~On(s[m], "key")
  <2>1. m \in DOMAIN (s \o t) /\ (s \o t)[m] = s[m]
    BY ConcatKeep
  <2>2. QED
    BY <1>2, <2>1 DEF FirstKey
<1>3. CASE i <= Len(s)
  BY <1>1, <1>2, <1>3 DEF FirstKey
<1>4. CASE i > Len(s)
  <2>1. ASSUME NEW m \in DOMAIN s PROVE ~On(s[m], "key")
    <3>1. m <= Len(s)
      BY ConcatKeep
    <3>2. QED
      BY <1>1, <1>2, <1>4, <3>1
  <2>2. QED
    BY <1>1, <1>4, <2>1 DEF Has
<1>5. QED
  BY <1>3, <1>4

-----------------------------------------------------------------------------
(* The keys keep alternating.                                              *)

\* event_loop reads the head: the handler's key state becomes the head's
\* value if the head is a key.
LEMMA ReadAlt ==
  ASSUME TypeOK, KeysAlternate, evq # <<>>, evq' = Tail(evq),
         Held'["key"] = IF On(Head(evq), "key") THEN Head(evq).value ELSE Held["key"]
  PROVE  KeysAlternate'
<1>1. evq \in Seq(InputEvent)
  BY DEF TypeOK
<1>2. /\ Len(evq) \in Nat \ {0} /\ DOMAIN evq = 1..Len(evq)
      /\ DOMAIN Tail(evq) = 1..(Len(evq) - 1)
      /\ \A k \in 1..(Len(evq) - 1) : Tail(evq)[k] = evq[k + 1]
      /\ Head(evq) = evq[1]
  BY <1>1, TailIndices
<1>3. ASSUME NEW i \in DOMAIN Tail(evq), NEW j \in DOMAIN Tail(evq),
             NextKey(Tail(evq), i, j)
      PROVE  Tail(evq)[i].value # Tail(evq)[j].value
  <2>1. NextKey(evq, i + 1, j + 1)
    BY <1>1, <1>3, NextKeyTail
  <2>2. i + 1 \in DOMAIN evq /\ j + 1 \in DOMAIN evq
        /\ Tail(evq)[i] = evq[i + 1] /\ Tail(evq)[j] = evq[j + 1]
    BY <1>2
  <2>3. QED
    BY <2>1, <2>2 DEF KeysAlternate
<1>4. ASSUME NEW i \in DOMAIN Tail(evq), FirstKey(Tail(evq), i)
      PROVE  Tail(evq)[i].value # Held'["key"]
  <2>1. /\ i + 1 \in DOMAIN evq /\ Tail(evq)[i] = evq[i + 1]
        /\ On(Head(evq), "key") => NextKey(evq, 1, i + 1)
        /\ ~On(Head(evq), "key") => FirstKey(evq, i + 1)
    BY <1>1, <1>4, FirstKeyTail
  <2>2. CASE On(Head(evq), "key")
    <3>1. 1 \in DOMAIN evq
      BY <1>2
    <3>2. evq[1].value # evq[i + 1].value
      BY <2>1, <2>2, <3>1 DEF KeysAlternate
    <3>3. QED
      BY <1>2, <2>1, <2>2, <3>2
  <2>3. CASE ~On(Head(evq), "key")
    BY <2>1, <2>3 DEF KeysAlternate
  <2>4. QED
    BY <2>2, <2>3
<1>5. QED
  BY <1>3, <1>4 DEF KeysAlternate

\* The device appends t with at most one key, carrying v, a new contact
\* state if t has a key.
LEMMA AppendAlt ==
  ASSUME TypeOK, InSync, KeysAlternate, NEW t \in Seq(InputEvent), AtMostOneKey(t),
         evq' = evq \o t, UNCHANGED touch_active, NEW v, Uniform(t, "key", v),
         Has(t, "key") => v # Dev["key"]
  PROVE  KeysAlternate'
<1>1. Held'["key"] = Held["key"]
  BY DEF Held
<1>2. evq \in Seq(InputEvent)
  BY DEF TypeOK
<1>3. Synced(evq, "key", Dev["key"], Held["key"])
  BY DEF InSync, Chans
<1>4. ASSUME NEW i \in DOMAIN evq', NEW j \in DOMAIN evq', NextKey(evq', i, j)
      PROVE  evq'[i].value # evq'[j].value
  <2>1. \/ i \in DOMAIN evq /\ j \in DOMAIN evq /\ NextKey(evq, i, j)
           /\ evq'[i] = evq[i] /\ evq'[j] = evq[j]
        \/ i \in DOMAIN evq /\ LastOn(evq, "key", i) /\ j - Len(evq) \in DOMAIN t
           /\ evq'[i] = evq[i] /\ evq'[j] = t[j - Len(evq)]
    BY <1>2, <1>4, NextKeyConcat
  <2>2. CASE i \in DOMAIN evq /\ j \in DOMAIN evq /\ NextKey(evq, i, j)
             /\ evq'[i] = evq[i] /\ evq'[j] = evq[j]
    BY <2>2 DEF KeysAlternate
  <2>3. CASE i \in DOMAIN evq /\ LastOn(evq, "key", i) /\ j - Len(evq) \in DOMAIN t
             /\ evq'[i] = evq[i] /\ evq'[j] = t[j - Len(evq)]
    <3>1. On(t[j - Len(evq)], "key")
      BY <1>4, <2>3 DEF NextKey
    <3>2. t[j - Len(evq)].value = v /\ Has(t, "key")
      BY <2>3, <3>1 DEF Uniform, Has
    <3>3. Has(evq, "key")
      BY <2>3 DEF Has, LastOn
    <3>4. evq[i].value = Dev["key"]
      BY <1>3, <2>3, <3>3 DEF Synced
    <3>5. QED
      BY <2>3, <3>2, <3>4
  <2>4. QED
    BY <2>1, <2>2, <2>3
<1>5. ASSUME NEW i \in DOMAIN evq', FirstKey(evq', i)
      PROVE  evq'[i].value # Held'["key"]
  <2>1. \/ i \in DOMAIN evq /\ FirstKey(evq, i) /\ evq'[i] = evq[i]
        \/ ~Has(evq, "key") /\ i - Len(evq) \in DOMAIN t /\ evq'[i] = t[i - Len(evq)]
    BY <1>2, <1>5, FirstKeyConcat
  <2>2. CASE i \in DOMAIN evq /\ FirstKey(evq, i) /\ evq'[i] = evq[i]
    BY <1>1, <2>2 DEF KeysAlternate
  <2>3. CASE ~Has(evq, "key") /\ i - Len(evq) \in DOMAIN t /\ evq'[i] = t[i - Len(evq)]
    <3>1. On(t[i - Len(evq)], "key")
      BY <1>5, <2>3 DEF FirstKey
    <3>2. t[i - Len(evq)].value = v /\ Has(t, "key")
      BY <2>3, <3>1 DEF Uniform, Has
    <3>3. Held["key"] = Dev["key"]
      BY <1>3, <2>3 DEF Synced
    <3>4. QED
      BY <1>1, <2>3, <3>2, <3>3
  <2>4. QED
    BY <2>1, <2>2, <2>3
<1>6. QED
  BY <1>4, <1>5 DEF KeysAlternate

\* A sequence without keys has at most one.
LEMMA NoKeyOne ==
  ASSUME NEW t, ~Has(t, "key")
  PROVE  AtMostOneKey(t)
BY DEF Has, AtMostOneKey

\* Joining a keyless part keeps at most one key.
LEMMA ConcatOneKey ==
  ASSUME NEW a \in Seq(InputEvent), NEW b \in Seq(InputEvent),
         AtMostOneKey(a), AtMostOneKey(b), ~Has(a, "key") \/ ~Has(b, "key")
  PROVE  AtMostOneKey(a \o b)
<1> SUFFICES ASSUME NEW p \in DOMAIN (a \o b), NEW q \in DOMAIN (a \o b),
                    On((a \o b)[p], "key"), On((a \o b)[q], "key")
             PROVE  p = q
  BY DEF AtMostOneKey
<1>1. /\ p \in Nat /\ Len(a) \in Nat
      /\ p <= Len(a) => p \in DOMAIN a /\ (a \o b)[p] = a[p]
      /\ p > Len(a) => p - Len(a) \in DOMAIN b /\ (a \o b)[p] = b[p - Len(a)]
  BY ConcatAt
<1>2. /\ q \in Nat
      /\ q <= Len(a) => q \in DOMAIN a /\ (a \o b)[q] = a[q]
      /\ q > Len(a) => q - Len(a) \in DOMAIN b /\ (a \o b)[q] = b[q - Len(a)]
  BY ConcatAt
<1>3. CASE p <= Len(a) /\ q <= Len(a)
  BY <1>1, <1>2, <1>3 DEF AtMostOneKey
<1>4. CASE p > Len(a) /\ q > Len(a)
  <2>1. p - Len(a) = q - Len(a)
    BY <1>1, <1>2, <1>4 DEF AtMostOneKey
  <2>2. QED
    BY <1>1, <1>2, <2>1
<1>5. CASE p <= Len(a) /\ q > Len(a)
  <2>1. Has(a, "key") /\ Has(b, "key")
    BY <1>1, <1>2, <1>5 DEF Has
  <2>2. QED
    BY <2>1
<1>6. CASE p > Len(a) /\ q <= Len(a)
  <2>1. Has(a, "key") /\ Has(b, "key")
    BY <1>1, <1>2, <1>6 DEF Has
  <2>2. QED
    BY <2>1
<1>7. QED
  BY <1>1, <1>2, <1>3, <1>4, <1>5, <1>6

\* With one key code a press or a lift reports one key.
LEMMA KeyEventsOne ==
  ASSUME OneButton, NEW v \in {0, 1}
  PROVE  AtMostOneKey(KeyEvents(v))
BY DEF OneButton, KeyEvents, AtMostOneKey

\* With one key code a frame holds at most one key.
LEMMA FrameOneKey ==
  ASSUME OneButton, NEW nx \in XVals, NEW ny \in YVals, NEW v \in {0, 1},
         NEW o \in FrameOrders
  PROVE  AtMostOneKey(Frame(KeyEvents(v), AbsEvents(nx, ny), o))
<1> DEFINE K == KeyEvents(v)
           A == AbsEvents(nx, ny)
           Z == <<SynReport>>
<1>1. K \in Seq(InputEvent) /\ A \in Seq(InputEvent) /\ Z \in Seq(InputEvent)
  BY KeyChannels, AbsChannels, SynChannels
<1>2. AtMostOneKey(K)
  BY KeyEventsOne
<1>3. ~Has(A, "key") /\ ~Has(Z, "key")
  BY AbsChannels, SynChannels DEF Chans
<1>4. AtMostOneKey(A) /\ AtMostOneKey(Z)
  BY <1>3, NoKeyOne
<1>5. K \o A \in Seq(InputEvent) /\ A \o K \in Seq(InputEvent)
  BY <1>1, ConcatIndices
<1>6. AtMostOneKey(K \o A)
  BY <1>1, <1>2, <1>3, <1>4, ConcatOneKey
<1>7. AtMostOneKey(A \o K)
  BY <1>1, <1>2, <1>3, <1>4, ConcatOneKey
<1>8. AtMostOneKey(K \o A \o Z)
  BY <1>1, <1>3, <1>4, <1>5, <1>6, ConcatOneKey
<1>9. AtMostOneKey(A \o K \o Z)
  BY <1>1, <1>3, <1>4, <1>5, <1>7, ConcatOneKey
<1>10. QED
  BY <1>8, <1>9 DEF Frame

\* A press reports the finger down, a lift up: the frame's key is a new
\* contact state.
LEMMA ContactAlt ==
  ASSUME OneButton, TypeOK, InSync, KeysAlternate, NEW nx \in XVals, NEW ny \in YVals,
         NEW o \in FrameOrders, Press(nx, ny, o) \/ Lift(nx, ny, o)
  PROVE  KeysAlternate'
<1> DEFINE v == IF finger' THEN 1 ELSE 0
           t == Frame(KeyEvents(v), AbsEvents(nx, ny), o)
<1>1. v \in {0, 1}
  OBVIOUS
<1>2. /\ evq' = evq \o t /\ UNCHANGED touch_active
      /\ finger' = ~finger /\ finger \in BOOLEAN
  BY DEF Press, Lift, handler, TypeOK
<1>3. v # Dev["key"]
  <2>1. CASE finger
    <3>1. ~finger'
      BY <1>2, <2>1
    <3>2. QED
      BY <2>1, <3>1 DEF Dev, v
  <2>2. CASE ~finger
    <3>1. finger'
      BY <1>2, <2>2
    <3>2. QED
      BY <2>2, <3>1 DEF Dev, v
  <2>3. QED
    BY <2>1, <2>2
<1>4. t \in Seq(InputEvent) /\ Uniform(t, "key", v)
  BY <1>1, FrameChannels
<1>5. AtMostOneKey(t)
  BY <1>1, FrameOneKey
<1>6. QED
  BY <1>2, <1>3, <1>4, <1>5, AppendAlt

\* A drag reports no key.
LEMMA DragAlt ==
  ASSUME TypeOK, InSync, KeysAlternate, NEW nx \in XVals, NEW ny \in YVals, Drag(nx, ny)
  PROVE  KeysAlternate'
<1> DEFINE t == AbsEvents(nx, ny) \o <<SynReport>>
<1>1. evq' = evq \o t /\ UNCHANGED touch_active
  BY DEF Drag, handler
<1>2. AbsEvents(nx, ny) \in Seq(InputEvent) /\ <<SynReport>> \in Seq(InputEvent)
      /\ ~Has(AbsEvents(nx, ny), "key") /\ ~Has(<<SynReport>>, "key")
  BY AbsChannels, SynChannels DEF Chans
<1>3. t \in Seq(InputEvent)
  BY <1>2, ConcatIndices
<1>4. ~Has(t, "key")
  BY <1>2, ChannelConcat
<1>5. AtMostOneKey(t) /\ Uniform(t, "key", 0)
  BY <1>4, NoKeyOne, NoneUniform
<1>6. QED
  BY <1>1, <1>3, <1>4, <1>5, AppendAlt

\* process_event consumes one event whatever its type.
LEMMA ProcessAlt ==
  ASSUME TypeOK, KeysAlternate, ProcessEvent
  PROVE  KeysAlternate'
<1>1. CASE ProcessAbs
  <2>1. /\ evq # <<>> /\ evq' = Tail(evq) /\ UNCHANGED touch_active
        /\ Head(evq).type = "EV_ABS"
    BY <1>1 DEF ProcessAbs, ev
  <2>2. ~On(Head(evq), "key")
    BY <2>1 DEF On, IsTouchKey
  <2>3. Held'["key"] = Held["key"]
    BY <2>1 DEF Held
  <2>4. QED
    BY <2>1, <2>2, <2>3, ReadAlt
<1>2. CASE TouchDown \/ TouchUpScroll \/ TouchUpTap \/ TouchUpDrag
  <2>1. /\ evq # <<>> /\ evq' = Tail(evq) /\ On(Head(evq), "key")
        /\ \A c \in Chans : Held'[c] = IF On(Head(evq), c) THEN Head(evq).value ELSE Held[c]
    BY <1>2, KeyRead
  <2>2. Held'["key"] = Head(evq).value
    BY <2>1 DEF Chans
  <2>3. QED
    BY <2>1, <2>2, ReadAlt
<1>3. CASE SynIdle \/ SynScrollStep \/ SynScrollHold \/ SynMove \/ SynStill
  <2>1. /\ IsSyn /\ evq' = Tail(evq) /\ UNCHANGED touch_active
    BY <1>3 DEF SynIdle, SynScrollStep, SynScrollHold, SynMove, SynStill, handler
  <2>2. evq # <<>> /\ ~On(Head(evq), "key")
    BY <2>1 DEF IsSyn, ev, On, IsTouchKey
  <2>3. Held'["key"] = Held["key"]
    BY <2>1 DEF Held
  <2>4. QED
    BY <2>1, <2>2, <2>3, ReadAlt
<1>4. QED
  BY <1>1, <1>2, <1>3 DEF ProcessEvent

\* A step leaving the queue and touch_active_ alone.
LEMMA FrameAlt ==
  ASSUME KeysAlternate, UNCHANGED <<evq, touch_active>>
  PROVE  KeysAlternate'
<1>1. Held'["key"] = Held["key"]
  BY DEF Held
<1>2. QED
  BY <1>1 DEF KeysAlternate

LEMMA StepAlt ==
  ASSUME OneButton, TypeOK, InSync, KeysAlternate, [Next]_vars
  PROVE  KeysAlternate'
<1>1. CASE Device
  <2>1. CASE \E nx \in XVals, ny \in YVals, o \in FrameOrders : Press(nx, ny, o)
    BY <2>1, ContactAlt
  <2>2. CASE \E nx \in XVals, ny \in YVals : Drag(nx, ny)
    BY <2>2, DragAlt
  <2>3. CASE \E nx \in XVals, ny \in YVals, o \in FrameOrders : Lift(nx, ny, o)
    BY <2>3, ContactAlt
  <2>4. QED
    BY <1>1, <2>1, <2>2, <2>3 DEF Device
<1>2. CASE Configure
  <2>1. UNCHANGED <<evq, touch_active>>
    BY <1>2 DEF Configure, SetScreenResolution, SetCoordinateMapping, handler
  <2>2. QED
    BY <2>1, FrameAlt
<1>3. CASE ProcessEvent
  BY <1>3, ProcessAlt
<1>4. CASE PollEmpty \/ UNCHANGED vars
  <2>1. UNCHANGED <<evq, touch_active>>
    BY <1>4 DEF PollEmpty, vars, handler
  <2>2. QED
    BY <2>1, FrameAlt
<1>5. QED
  BY <1>1, <1>2, <1>3, <1>4 DEF Next

\* Every branch that sets scroll_mode_ needs touch_active_, and every branch
\* that clears touch_active_ leaves scroll_mode_ false.
LEMMA StepScroll ==
  ASSUME ScrollActive, [Next]_vars
  PROVE  ScrollActive'
<1>1. CASE UNCHANGED <<touch_active, scroll_mode>>
  BY <1>1 DEF ScrollActive
<1>2. CASE TouchDown
  BY <1>2 DEF TouchDown, ScrollActive
<1>3. CASE TouchUpScroll
  BY <1>3 DEF TouchUpScroll, ScrollActive
<1>4. CASE TouchUpTap \/ TouchUpDrag
  BY <1>4 DEF TouchUpTap, TouchUpDrag, ScrollActive
<1>5. CASE SynScrollStep \/ SynScrollHold
  BY <1>5 DEF SynScrollStep, SynScrollHold, ScrollActive
<1>6. CASE Device \/ Configure \/ PollEmpty \/ UNCHANGED vars \/ ProcessAbs
           \/ SynIdle \/ SynMove \/ SynStill
  <2>1. UNCHANGED <<touch_active, scroll_mode>>
    BY <1>6 DEF Device, Press, Drag, Lift, Configure, SetScreenResolution,
                SetCoordinateMapping, PollEmpty, vars, handler, ProcessAbs,
                SynIdle, SynMove, SynStill
  <2>2. QED
    BY <1>1, <2>1
<1>7. QED
  BY <1>2, <1>3, <1>4, <1>5, <1>6 DEF Next, ProcessEvent

-----------------------------------------------------------------------------
(* The refinement mapping.                                                 *)

\* The kinds GestureStream sees.
Kinds == [i \in DOMAIN gesture |-> gesture[i].type]

\* A key at the head is the opposite of touch_active_: a TOUCH_DOWN finds
\* the handler idle and a touch-up finds it active.
LEMMA HeadKeyOpposite ==
  ASSUME TypeOK, KeysAlternate, evq # <<>>, On(Head(evq), "key")
  PROVE  Head(evq).value # Held["key"]
<1>1. evq \in Seq(InputEvent)
  BY DEF TypeOK
<1>2. Len(evq) \in Nat \ {0} /\ DOMAIN evq = 1..Len(evq) /\ Head(evq) = evq[1]
  BY <1>1, TailIndices
<1>3. 1 \in DOMAIN evq /\ FirstKey(evq, 1)
  BY <1>2 DEF FirstKey
<1>4. QED
  BY <1>2, <1>3 DEF KeysAlternate

LEMMA DownFindsIdle ==
  ASSUME TypeOK, KeysAlternate, TouchDown
  PROVE  ~touch_active
<1>1. evq # <<>> /\ On(Head(evq), "key") /\ Head(evq).value = 1
  BY DEF TouchDown, ev, On
<1>2. Held["key"] # 1
  BY <1>1, HeadKeyOpposite
<1>3. QED
  BY <1>2 DEF Held

LEMMA UpFindsActive ==
  ASSUME TypeOK, KeysAlternate, TouchUpScroll \/ TouchUpTap \/ TouchUpDrag
  PROVE  touch_active
<1>1. evq # <<>> /\ On(Head(evq), "key") /\ Head(evq).value = 0
  BY DEF TouchUpScroll, TouchUpTap, TouchUpDrag, ev, On
<1>2. Held["key"] # 0
  BY <1>1, HeadKeyOpposite
<1>3. QED
  BY <1>2 DEF Held

\* The kinds of a gesture extended by one event.
LEMMA KindsAppend ==
  ASSUME NEW g \in Seq(TouchEvent), NEW e
  PROVE  [i \in DOMAIN Append(g, e) |-> Append(g, e)[i].type]
           = Append([i \in DOMAIN g |-> g[i].type], e.type)
<1>1. /\ Len(g) \in Nat /\ DOMAIN g = 1..Len(g)
      /\ DOMAIN Append(g, e) = 1..(Len(g) + 1)
      /\ \A i \in 1..Len(g) : Append(g, e)[i] = g[i]
      /\ Append(g, e)[Len(g) + 1] = e
  BY AppendProperties, LenProperties
<1>2. [i \in DOMAIN g |-> g[i].type] \in Seq(UNION {{g[i].type} : i \in DOMAIN g})
  BY <1>1
<1>3. /\ DOMAIN Append([i \in DOMAIN g |-> g[i].type], e.type) = 1..(Len(g) + 1)
      /\ \A n \in 1..Len(g) : Append([i \in DOMAIN g |-> g[i].type], e.type)[n] = g[n].type
      /\ Append([i \in DOMAIN g |-> g[i].type], e.type)[Len(g) + 1] = e.type
  BY <1>1, <1>2, AppendProperties
<1>4. QED
  BY <1>1, <1>3

\* Emit: the gesture restarts at TOUCH_DOWN and grows by one otherwise.
LEMMA EmitKinds ==
  ASSUME TypeOK, NEW type, Emit(type)
  PROVE  Kinds' = IF type = "TOUCH_DOWN" THEN <<type>> ELSE Append(Kinds, type)
<1> DEFINE e == [type |-> type, x |-> MapX(current_x), y |-> MapY(current_y),
                 rx |-> current_x, ry |-> current_y]
<1>1. gesture' = IF type = "TOUCH_DOWN" THEN <<e>> ELSE Append(gesture, e)
  BY DEF Emit
<1>2. CASE type = "TOUCH_DOWN"
  <2>1. gesture' = <<e>>
    BY <1>1, <1>2
  <2>2. QED
    BY <1>2, <2>1 DEF Kinds
<1>3. CASE type # "TOUCH_DOWN"
  <2>1. gesture' = Append(gesture, e) /\ gesture \in Seq(TouchEvent)
    BY <1>1, <1>3 DEF TypeOK
  <2>2. [i \in DOMAIN Append(gesture, e) |-> Append(gesture, e)[i].type]
          = Append(Kinds, e.type)
    BY <2>1, KindsAppend DEF Kinds
  <2>3. QED
    BY <1>3, <2>1, <2>2 DEF Kinds
<1>4. QED
  BY <1>2, <1>3

\* The phase GestureStream sees.
PhaseOf == IF ~touch_active THEN "Idle" ELSE IF scroll_mode THEN "Scrolling" ELSE "Pressed"

\* The mapped variables, and GestureStream's actions on them.
LEMMA MappedActions ==
  /\ GS!vars = <<PhaseOf, Kinds>>
  /\ GS!Init <=> PhaseOf = "Idle" /\ Kinds = <<>>
  /\ GS!Press <=> PhaseOf = "Idle" /\ PhaseOf' = "Pressed" /\ Kinds' = <<"TOUCH_DOWN">>
  /\ GS!Drag <=> PhaseOf = "Pressed" /\ Kinds' = Append(Kinds, "TOUCH_MOVE")
                 /\ PhaseOf' = PhaseOf
  /\ GS!Latch <=> PhaseOf = "Pressed" /\ PhaseOf' = "Scrolling" /\ Kinds' = Kinds
  /\ GS!Scroll <=> /\ PhaseOf \in {"Pressed", "Scrolling"} /\ PhaseOf' = "Scrolling"
                   /\ \E k \in GS!ScrollKinds : Kinds' = Append(Kinds, k)
  /\ GS!Click <=> PhaseOf = "Pressed" /\ PhaseOf' = "Idle"
                  /\ Kinds' = Append(Kinds, "TOUCH_UP")
  /\ GS!Lift <=> PhaseOf # "Idle" /\ PhaseOf' = "Idle" /\ Kinds' = Kinds
BY DEF GS!vars, GS!Init, GS!Press, GS!Drag, GS!Latch, GS!Scroll, GS!Click, GS!Lift,
       PhaseOf, Kinds

\* Each step of process_event, of the device and of the main thread is a
\* GestureStream step or leaves the phase and the gesture alone.
LEMMA RefStep ==
  ASSUME TypeOK, KeysAlternate, ScrollActive, [Next]_vars
  PROVE  [GS!Next]_(GS!vars)
<1>1. CASE TouchDown
  <2>1. ~touch_active /\ touch_active' /\ ~scroll_mode'
    BY <1>1, DownFindsIdle DEF TouchDown
  <2>2. Kinds' = <<"TOUCH_DOWN">>
    BY <1>1, EmitKinds DEF TouchDown
  <2>3. GS!Press
    BY <2>1, <2>2, MappedActions DEF PhaseOf
  <2>4. QED
    BY <2>3 DEF GS!Next
<1>2. CASE TouchUpTap
  <2>1. touch_active /\ ~scroll_mode /\ ~touch_active'
    BY <1>2, UpFindsActive DEF TouchUpTap
  <2>2. Kinds' = Append(Kinds, "TOUCH_UP")
    BY <1>2, EmitKinds DEF TouchUpTap
  <2>3. GS!Click
    BY <2>1, <2>2, MappedActions DEF PhaseOf
  <2>4. QED
    BY <2>3 DEF GS!Next
<1>3. CASE TouchUpScroll \/ TouchUpDrag
  <2>1. touch_active /\ ~touch_active' /\ gesture' = gesture
    BY <1>3, UpFindsActive DEF TouchUpScroll, TouchUpDrag
  <2>2. Kinds' = Kinds
    BY <2>1 DEF Kinds
  <2>3. GS!Lift
    BY <2>1, <2>2, MappedActions DEF PhaseOf
  <2>4. QED
    BY <2>3 DEF GS!Next
<1>4. CASE SynMove
  <2>1. touch_active /\ ~scroll_mode /\ touch_active' /\ ~scroll_mode'
    BY <1>4 DEF SynMove, Scrolling
  <2>2. Kinds' = Append(Kinds, "TOUCH_MOVE")
    BY <1>4, EmitKinds DEF SynMove
  <2>3. GS!Drag
    BY <2>1, <2>2, MappedActions DEF PhaseOf
  <2>4. QED
    BY <2>3 DEF GS!Next
<1>5. CASE SynScrollStep
  <2> DEFINE k == IF scroll_distance > 0 THEN "SCROLL_DOWN" ELSE "SCROLL_UP"
  <2>1. touch_active /\ touch_active' /\ scroll_mode'
    BY <1>5 DEF SynScrollStep
  <2>2. Kinds' = Append(Kinds, k)
    BY <1>5, EmitKinds DEF SynScrollStep
  <2>3. k \in GS!ScrollKinds
    BY DEF GS!ScrollKinds
  <2>4. GS!Scroll
    BY <2>1, <2>2, <2>3, MappedActions DEF PhaseOf
  <2>5. QED
    BY <2>4 DEF GS!Next
<1>6. CASE SynScrollHold /\ ~scroll_mode
  <2>1. touch_active /\ ~scroll_mode /\ touch_active' /\ scroll_mode' /\ gesture' = gesture
    BY <1>6 DEF SynScrollHold
  <2>2. Kinds' = Kinds
    BY <2>1 DEF Kinds
  <2>3. GS!Latch
    BY <2>1, <2>2, MappedActions DEF PhaseOf
  <2>4. QED
    BY <2>3 DEF GS!Next
<1>7. CASE SynScrollHold /\ scroll_mode
  <2>1. touch_active' = touch_active /\ scroll_mode' = scroll_mode /\ gesture' = gesture
    BY <1>7 DEF SynScrollHold
  <2>2. PhaseOf' = PhaseOf /\ Kinds' = Kinds
    BY <2>1 DEF PhaseOf, Kinds
  <2>3. UNCHANGED GS!vars
    BY <2>2 DEF GS!vars, PhaseOf, Kinds
  <2>4. QED
    BY <2>3
<1>8. CASE Device \/ Configure \/ PollEmpty \/ UNCHANGED vars \/ ProcessAbs
           \/ SynIdle \/ SynStill
  <2>1. UNCHANGED <<touch_active, scroll_mode, gesture>>
    BY <1>8 DEF Device, Press, Drag, Lift, Configure, SetScreenResolution,
                SetCoordinateMapping, PollEmpty, vars, handler, ProcessAbs,
                SynIdle, SynStill
  <2>2. PhaseOf' = PhaseOf /\ Kinds' = Kinds
    BY <2>1 DEF PhaseOf, Kinds
  <2>3. UNCHANGED GS!vars
    BY <2>2 DEF GS!vars, PhaseOf, Kinds
  <2>4. QED
    BY <2>3
<1>9. QED
  BY <1>1, <1>2, <1>3, <1>4, <1>5, <1>6, <1>7, <1>8 DEF Next, ProcessEvent

-----------------------------------------------------------------------------
(* The theorem.                                                            *)

LEMMA InitRef ==
  ASSUME Init
  PROVE  /\ KeysAlternate /\ ScrollActive
         /\ GS!Init
<1>1. KeysAlternate /\ ScrollActive
  BY DEF Init, KeysAlternate, ScrollActive
<1>2. PhaseOf = "Idle" /\ Kinds = <<>>
  BY DEF Init, PhaseOf, Kinds
<1>3. QED
  BY <1>1, <1>2, MappedActions

\* GestureRefinement, for every screen, mapping and coordinate set, when the
\* driver reports one key code per contact: every step process_event takes
\* on the evdev queue is a GestureStream step on touch_active_,
\* scroll_mode_ and the TouchEvents handed to the callback, or leaves them
\* alone.  The queued keys alternating is what makes every TOUCH_DOWN find
\* the handler idle and every touch-up find it active.
THEOREM GestureRefinementThm ==
  ASSUME OneButton
  PROVE  Spec => GestureRefinement
<1>1. Init => KeysAlternate /\ ScrollActive
  BY InitRef
<1>2. TypeOK /\ InSync /\ KeysAlternate /\ ScrollActive /\ [Next]_vars
        => (KeysAlternate /\ ScrollActive)'
  BY StepAlt, StepScroll
<1>3. Init => GS!Init
  BY InitRef
<1>4. TypeOK /\ KeysAlternate /\ ScrollActive /\ [Next]_vars => [GS!Next]_(GS!vars)
  BY RefStep
<1>5. Spec => [](KeysAlternate /\ ScrollActive)
  BY <1>1, <1>2, TypeCorrect, SyncInvariant, PTL DEF Spec, SyncInv
<1>6. QED
  BY <1>3, <1>4, <1>5, TypeCorrect, PTL DEF Spec, GestureRefinement, GS!Spec

=============================================================================
