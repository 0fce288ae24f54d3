----------------------- MODULE TouchHandlerSync_proofs -----------------------
(***************************************************************************)
(* DrainedInSync for every value of the constants: once event_loop has     *)
(* read every queued event, process_event has left touch_active_ and       *)
(* current_x_/current_y_ equal to the device's contact and position.       *)
(*                                                                         *)
(* DrainedInSync says nothing while events are queued, so it is not        *)
(* inductive.  The strengthening InSync looks at three channels of the     *)
(* queue: the touch keys (BTN_TOUCH/BTN_LEFT), ABS_X and ABS_Y.  On each    *)
(* channel, the last event still queued carries the device's value; if     *)
(* none is queued, the handler already holds it.  Reading an event moves   *)
(* its value into the handler exactly when it is the channel's last one;   *)
(* a frame the device appends carries one value per channel, the new one.  *)
(***************************************************************************)
EXTENDS TouchHandler_proofs

\* The channels of the queue process_event takes state from.
Chans == {"key", "x", "y"}

\* Event e belongs to channel c.
On(e, c) ==
  \/ c = "key" /\ IsTouchKey(e)
  \/ c = "x" /\ e.type = "EV_ABS" /\ e.code = "ABS_X"
  \/ c = "y" /\ e.type = "EV_ABS" /\ e.code = "ABS_Y"

\* What the device holds on each channel, and what the handler holds.
Dev == [key |-> IF finger THEN 1 ELSE 0, x |-> pos_x, y |-> pos_y]
Held == [key |-> IF touch_active THEN 1 ELSE 0, x |-> current_x, y |-> current_y]

\* Some event of s is on channel c.
Has(s, c) == \E k \in DOMAIN s : On(s[k], c)

\* s[k] is the last event of s on channel c.
LastOn(s, c, k) == On(s[k], c) /\ \A j \in DOMAIN s : j > k => ~On(s[j], c)

\* Every event of s on channel c carries d.
Uniform(s, c, d) == \A k \in DOMAIN s : On(s[k], c) => s[k].value = d

\* Draining s leaves channel c at d, from h held now.
Synced(s, c, d, h) ==
  IF Has(s, c) THEN \A k \in DOMAIN s : LastOn(s, c, k) => s[k].value = d
               ELSE h = d

InSync == \A c \in Chans : Synced(evq, c, Dev[c], Held[c])

SyncInv == TypeOK /\ InSync

-----------------------------------------------------------------------------
(* The queue operations on a channel.                                      *)

\* The indices of a non-empty queue and of its tail.
LEMMA TailIndices ==
  ASSUME NEW S, NEW s \in Seq(S), s # <<>>
  PROVE  /\ Len(s) \in Nat \ {0} /\ DOMAIN s = 1..Len(s)
         /\ DOMAIN Tail(s) = 1..(Len(s) - 1)
         /\ \A i \in 1..(Len(s) - 1) : Tail(s)[i] = s[i + 1]
         /\ Head(s) = s[1]
<1>1. Len(s) \in Nat \ {0} /\ DOMAIN s = 1..Len(s)
  BY EmptySeq, LenProperties
<1>2. Tail(s) \in Seq(S) /\ Len(Tail(s)) = Len(s) - 1
      /\ \A i \in 1..Len(Tail(s)) : Tail(s)[i] = s[i + 1]
  BY HeadTailProperties
<1>3. DOMAIN Tail(s) = 1..(Len(s) - 1)
  BY <1>2, LenProperties
<1>4. QED
  BY <1>1, <1>2, <1>3

\* A channel has an event in a non-empty queue iff in its head or its tail.
LEMMA HasTail ==
  ASSUME NEW S, NEW s \in Seq(S), s # <<>>, NEW c
  PROVE  Has(s, c) <=> On(Head(s), c) \/ Has(Tail(s), c)
<1>1. /\ Len(s) \in Nat \ {0} /\ DOMAIN s = 1..Len(s)
      /\ DOMAIN Tail(s) = 1..(Len(s) - 1)
      /\ \A i \in 1..(Len(s) - 1) : Tail(s)[i] = s[i + 1]
      /\ Head(s) = s[1]
  BY TailIndices
<1>2. ASSUME NEW k \in DOMAIN s, On(s[k], c), k # 1
      PROVE  Has(Tail(s), c)
  <2>1. k - 1 \in DOMAIN Tail(s) /\ Tail(s)[k - 1] = s[k]
    BY <1>1, <1>2
  <2>2. QED
    BY <1>2, <2>1 DEF Has
<1>3. ASSUME NEW k \in DOMAIN Tail(s), On(Tail(s)[k], c)
      PROVE  Has(s, c)
  <2>1. k + 1 \in DOMAIN s /\ Tail(s)[k] = s[k + 1]
    BY <1>1
  <2>2. QED
    BY <1>3, <2>1 DEF Has
<1>4. 1 \in DOMAIN s
  BY <1>1
<1>5. QED
  BY <1>1, <1>2, <1>3, <1>4 DEF Has

\* The last event of the tail on a channel is the last one of the queue.
LEMMA LastOnTail ==
  ASSUME NEW S, NEW s \in Seq(S), s # <<>>, NEW c, NEW k \in DOMAIN Tail(s)
  PROVE  LastOn(Tail(s), c, k) <=> LastOn(s, c, k + 1)
<1>1. /\ Len(s) \in Nat \ {0} /\ DOMAIN s = 1..Len(s)
      /\ DOMAIN Tail(s) = 1..(Len(s) - 1)
      /\ \A i \in 1..(Len(s) - 1) : Tail(s)[i] = s[i + 1]
  BY TailIndices
<1>2. k \in Nat /\ k + 1 \in DOMAIN s /\ Tail(s)[k] = s[k + 1]
  BY <1>1
<1>3. ASSUME LastOn(Tail(s), c, k), NEW j \in DOMAIN s, j > k + 1
      PROVE  ~On(s[j], c)
  <2>1. j - 1 \in DOMAIN Tail(s) /\ j - 1 > k /\ Tail(s)[j - 1] = s[j]
    BY <1>1, <1>2, <1>3
  <2>2. QED
    BY <1>3, <2>1 DEF LastOn
<1>4. ASSUME LastOn(s, c, k + 1), NEW j \in DOMAIN Tail(s), j > k
      PROVE  ~On(Tail(s)[j], c)
  <2>1. j + 1 \in DOMAIN s /\ j + 1 > k + 1 /\ Tail(s)[j] = s[j + 1]
    BY <1>1, <1>2, <1>4
  <2>2. QED
    BY <1>4, <2>1 DEF LastOn
<1>5. QED
  BY <1>2, <1>3, <1>4 DEF LastOn

\* event_loop reads the head of the queue: the handler takes its value on
\* channel c exactly when the channel has nothing after it.
LEMMA SyncTail ==
  ASSUME NEW S, NEW s \in Seq(S), s # <<>>, NEW c, NEW d, NEW h,
         Synced(s, c, d, h)
  PROVE  Synced(Tail(s), c, d, IF On(Head(s), c) THEN Head(s).value ELSE h)
<1>1. /\ Len(s) \in Nat \ {0} /\ DOMAIN s = 1..Len(s)
      /\ DOMAIN Tail(s) = 1..(Len(s) - 1)
      /\ \A i \in 1..(Len(s) - 1) : Tail(s)[i] = s[i + 1]
      /\ Head(s) = s[1]
  BY TailIndices
<1>2. Has(s, c) <=> On(Head(s), c) \/ Has(Tail(s), c)
  BY HasTail
<1>3. CASE Has(Tail(s), c)
  <2> SUFFICES ASSUME NEW k \in DOMAIN Tail(s), LastOn(Tail(s), c, k)
               PROVE  Tail(s)[k].value = d
    BY <1>3 DEF Synced
  <2>1. LastOn(s, c, k + 1) /\ k + 1 \in DOMAIN s /\ Tail(s)[k] = s[k + 1]
    BY <1>1, LastOnTail
  <2>2. QED
    BY <1>2, <1>3, <2>1 DEF Synced
<1>4. CASE ~Has(Tail(s), c) /\ On(Head(s), c)
  <2>1. ASSUME NEW j \in DOMAIN s, j > 1 PROVE ~On(s[j], c)
    <3>1. j - 1 \in DOMAIN Tail(s) /\ Tail(s)[j - 1] = s[j]
      BY <1>1, <2>1
    <3>2. QED
      BY <1>4, <3>1 DEF Has
  <2>2. LastOn(s, c, 1) /\ 1 \in DOMAIN s
    BY <1>1, <1>4, <2>1 DEF LastOn
  <2>3. Head(s).value = d
    BY <1>1, <1>2, <1>4, <2>2 DEF Synced
  <2>4. QED
    BY <1>4, <2>3 DEF Synced
<1>5. CASE ~Has(Tail(s), c) /\ ~On(Head(s), c)
  BY <1>2, <1>5 DEF Synced
<1>6. QED
  BY <1>3, <1>4, <1>5

\* The indices of a concatenation.
LEMMA ConcatIndices ==
  ASSUME NEW S, NEW s \in Seq(S), NEW t \in Seq(S)
  PROVE  /\ s \o t \in Seq(S)
         /\ Len(s) \in Nat /\ Len(t) \in Nat
         /\ DOMAIN s = 1..Len(s) /\ DOMAIN t = 1..Len(t)
         /\ DOMAIN (s \o t) = 1..(Len(s) + Len(t))
         /\ \A i \in 1..Len(s) : (s \o t)[i] = s[i]
         /\ \A i \in 1..Len(t) : (s \o t)[Len(s) + i] = t[i]
<1>1. /\ s \o t \in Seq(S) /\ Len(s \o t) = Len(s) + Len(t)
      /\ \A i \in 1..(Len(s) + Len(t)) :
           (s \o t)[i] = IF i <= Len(s) THEN s[i] ELSE t[i - Len(s)]
  BY ConcatProperties
<1>2. /\ Len(s) \in Nat /\ Len(t) \in Nat
      /\ DOMAIN s = 1..Len(s) /\ DOMAIN t = 1..Len(t)
      /\ DOMAIN (s \o t) = 1..Len(s \o t)
  BY <1>1, LenProperties
<1>3. QED
  BY <1>1, <1>2

\* Appending t whose every event on channel c carries d2 leaves the queue
\* synced at d2, provided t has such an event or d2 is the old value.
LEMMA SyncConcat ==
  ASSUME NEW S, NEW s \in Seq(S), NEW t \in Seq(S), NEW c, NEW d, NEW d2, NEW h,
         Synced(s, c, d, h), Uniform(t, c, d2), Has(t, c) \/ d2 = d
  PROVE  Synced(s \o t, c, d2, h)
<1>1. /\ Len(s) \in Nat /\ Len(t) \in Nat
      /\ DOMAIN s = 1..Len(s) /\ DOMAIN t = 1..Len(t)
      /\ DOMAIN (s \o t) = 1..(Len(s) + Len(t))
      /\ \A i \in 1..Len(s) : (s \o t)[i] = s[i]
      /\ \A i \in 1..Len(t) : (s \o t)[Len(s) + i] = t[i]
  BY ConcatIndices
<1>2. CASE Has(t, c)
  <2>1. PICK m \in DOMAIN t : On(t[m], c)
    BY <1>2 DEF Has
  <2>2. Len(s) + m \in DOMAIN (s \o t) /\ (s \o t)[Len(s) + m] = t[m]
    BY <1>1, <2>1
  <2>3. Has(s \o t, c)
    BY <2>1, <2>2 DEF Has
  <2>4. ASSUME NEW k \in DOMAIN (s \o t), LastOn(s \o t, c, k)
        PROVE  (s \o t)[k].value = d2
    <3>1. k > Len(s)
      <4>1. Len(s) + m > k => ~On((s \o t)[Len(s) + m], c)
        BY <2>2, <2>4 DEF LastOn
      <4>2. Len(s) + m <= k
        BY <2>1, <2>2, <4>1
      <4>3. QED
        BY <1>1, <2>1, <4>2
    <3>2. k - Len(s) \in DOMAIN t /\ (s \o t)[k] = t[k - Len(s)]
      <4>1. k - Len(s) \in 1..Len(t)
        BY <1>1, <3>1
      <4>2. (s \o t)[Len(s) + (k - Len(s))] = t[k - Len(s)]
        BY <1>1, <4>1
      <4>3. QED
        BY <1>1, <4>1, <4>2
    <3>3. On(t[k - Len(s)], c)
      BY <2>4, <3>2 DEF LastOn
    <3>4. QED
      BY <3>2, <3>3 DEF Uniform
  <2>5. QED
    BY <2>3, <2>4 DEF Synced
<1>3. CASE ~Has(t, c)
  <2>1. d2 = d
    BY <1>3
  <2>2. ASSUME NEW k \in DOMAIN (s \o t), k > Len(s)
        PROVE  ~On((s \o t)[k], c)
    <3>1. k - Len(s) \in 1..Len(t)
      BY <1>1, <2>2
    <3>2. (s \o t)[k] = t[k - Len(s)]
      <4>1. (s \o t)[Len(s) + (k - Len(s))] = t[k - Len(s)]
        BY <1>1, <3>1
      <4>2. QED
        BY <1>1, <3>1, <4>1
    <3>3. QED
      BY <1>1, <1>3, <3>1, <3>2 DEF Has
  <2>3. Has(s \o t, c) <=> Has(s, c)
    <3>1. ASSUME NEW k \in DOMAIN (s \o t), On((s \o t)[k], c) PROVE Has(s, c)
      <4>1. k \in DOMAIN s /\ (s \o t)[k] = s[k]
        BY <1>1, <2>2, <3>1
      <4>2. QED
        BY <3>1, <4>1 DEF Has
    <3>2. ASSUME NEW k \in DOMAIN s, On(s[k], c) PROVE Has(s \o t, c)
      <4>1. k \in DOMAIN (s \o t) /\ (s \o t)[k] = s[k]
        BY <1>1
      <4>2. QED
        BY <3>2, <4>1 DEF Has
    <3>3. QED
      BY <3>1, <3>2 DEF Has
  <2>4. ASSUME NEW k \in DOMAIN (s \o t), LastOn(s \o t, c, k)
        PROVE  k \in DOMAIN s /\ LastOn(s, c, k) /\ (s \o t)[k] = s[k]
    <3>1. k \in DOMAIN s /\ (s \o t)[k] = s[k]
      BY <1>1, <2>2, <2>4 DEF LastOn
    <3>2. ASSUME NEW j \in DOMAIN s, j > k PROVE ~On(s[j], c)
      <4>1. j \in DOMAIN (s \o t) /\ (s \o t)[j] = s[j]
        BY <1>1
      <4>2. QED
        BY <2>4, <3>2, <4>1 DEF LastOn
    <3>3. QED
      BY <2>4, <3>1, <3>2 DEF LastOn
  <2>5. QED
    BY <2>1, <2>3, <2>4 DEF Synced
<1>4. QED
  BY <1>2, <1>3

-----------------------------------------------------------------------------
(* What the frames the device reports carry on each channel.               *)

\* A channel of a concatenation.
LEMMA ChannelConcat ==
  ASSUME NEW s \in Seq(InputEvent), NEW t \in Seq(InputEvent), NEW c, NEW d
  PROVE  /\ Has(s \o t, c) <=> Has(s, c) \/ Has(t, c)
         /\ Uniform(s, c, d) /\ Uniform(t, c, d) => Uniform(s \o t, c, d)
<1>1. /\ Len(s) \in Nat /\ Len(t) \in Nat
      /\ DOMAIN s = 1..Len(s) /\ DOMAIN t = 1..Len(t)
      /\ DOMAIN (s \o t) = 1..(Len(s) + Len(t))
      /\ \A i \in 1..Len(s) : (s \o t)[i] = s[i]
      /\ \A i \in 1..Len(t) : (s \o t)[Len(s) + i] = t[i]
  BY ConcatIndices
<1>2. \A k \in DOMAIN (s \o t) :
        \/ k \in DOMAIN s /\ (s \o t)[k] = s[k]
        \/ k - Len(s) \in DOMAIN t /\ (s \o t)[k] = t[k - Len(s)]
  <2> SUFFICES ASSUME NEW k \in DOMAIN (s \o t), k > Len(s)
               PROVE  k - Len(s) \in DOMAIN t /\ (s \o t)[k] = t[k - Len(s)]
    BY <1>1
  <2>1. k - Len(s) \in 1..Len(t)
    BY <1>1
  <2>2. (s \o t)[Len(s) + (k - Len(s))] = t[k - Len(s)]
    BY <1>1, <2>1
  <2>3. QED
    BY <1>1, <2>1, <2>2
<1>3. Has(s, c) \/ Has(t, c) => Has(s \o t, c)
  <2>1. ASSUME NEW k \in DOMAIN t, On(t[k], c) PROVE Has(s \o t, c)
    <3>1. Len(s) + k \in DOMAIN (s \o t) /\ (s \o t)[Len(s) + k] = t[k]
      BY <1>1
    <3>2. QED
      BY <2>1, <3>1 DEF Has
  <2>2. ASSUME NEW k \in DOMAIN s, On(s[k], c) PROVE Has(s \o t, c)
    <3>1. k \in DOMAIN (s \o t) /\ (s \o t)[k] = s[k]
      BY <1>1
    <3>2. QED
      BY <2>2, <3>1 DEF Has
  <2>3. QED
    BY <2>1, <2>2 DEF Has
<1>4. QED
  BY <1>2, <1>3 DEF Has, Uniform

\* A channel with no event carries any value.
LEMMA NoneUniform ==
  ASSUME NEW s, NEW c, NEW d, ~Has(s, c)
  PROVE  Uniform(s, c, d)
BY DEF Has, Uniform

\* The key events of a frame: all on the key channel, all carrying v.
LEMMA KeyChannels ==
  ASSUME NEW v \in {0, 1}
  PROVE  /\ KeyEvents(v) \in Seq(InputEvent)
         /\ Has(KeyEvents(v), "key") /\ Uniform(KeyEvents(v), "key", v)
         /\ ~Has(KeyEvents(v), "x") /\ ~Has(KeyEvents(v), "y")
<1>1. Len(ButtonCodes) \in Nat \ {0} /\ \A i \in 1..Len(ButtonCodes) : ButtonCodes[i] \in {"BTN_TOUCH", "BTN_LEFT"}
  BY ConstantsAssumption, EmptySeq, LenProperties, ElementOfSeq
<1>2. DOMAIN KeyEvents(v) = 1..Len(ButtonCodes)
      /\ \A i \in 1..Len(ButtonCodes) :
           KeyEvents(v)[i] = [type |-> "EV_KEY", code |-> ButtonCodes[i], value |-> v]
  BY DEF KeyEvents
<1>3. KeyEvents(v) \in Seq(InputEvent)
  BY <1>1 DEF KeyEvents, InputEvent
<1>4. 1 \in DOMAIN KeyEvents(v) /\ On(KeyEvents(v)[1], "key")
  BY <1>1, <1>2 DEF On, IsTouchKey
<1>5. QED
  BY <1>2, <1>3, <1>4 DEF Has, Uniform, On

\* The ABS events of a frame: a changed coordinate on its own channel.
LEMMA AbsChannels ==
  ASSUME NEW nx \in XVals, NEW ny \in YVals
  PROVE  /\ AbsEvents(nx, ny) \in Seq(InputEvent)
         /\ ~Has(AbsEvents(nx, ny), "key")
         /\ Has(AbsEvents(nx, ny), "x") \/ nx = pos_x
         /\ Uniform(AbsEvents(nx, ny), "x", nx)
         /\ Has(AbsEvents(nx, ny), "y") \/ ny = pos_y
         /\ Uniform(AbsEvents(nx, ny), "y", ny)
<1> DEFINE X == IF nx # pos_x THEN <<[type |-> "EV_ABS", code |-> "ABS_X", value |-> nx]>>
                              ELSE <<>>
           Y == IF ny # pos_y THEN <<[type |-> "EV_ABS", code |-> "ABS_Y", value |-> ny]>>
                              ELSE <<>>
<1>1. nx \in Nat /\ ny \in Nat
  BY ConstantsAssumption
<1>2. /\ X \in Seq(InputEvent) /\ ~Has(X, "key") /\ ~Has(X, "y")
      /\ Has(X, "x") \/ nx = pos_x
      /\ Uniform(X, "x", nx)
  <2>1. CASE nx # pos_x
    <3>1. X = <<[type |-> "EV_ABS", code |-> "ABS_X", value |-> nx]>>
      BY <2>1 DEF X
    <3>2. DOMAIN X = {1} /\ X[1].value = nx
      BY <3>1
    <3>3. On(X[1], "x") /\ ~On(X[1], "key") /\ ~On(X[1], "y")
      BY <3>1 DEF On, IsTouchKey
    <3>4. X \in Seq(InputEvent)
      <4>1. [type |-> "EV_ABS", code |-> "ABS_X", value |-> nx] \in InputEvent
        BY <1>1 DEF InputEvent
      <4>2. QED
        BY <3>1, <4>1
    <3>5. QED
      BY <3>2, <3>3, <3>4 DEF Has, Uniform
  <2>2. CASE nx = pos_x
    <3>1. X = <<>>
      BY <2>2 DEF X
    <3>2. QED
      BY <2>2, <3>1 DEF Has, Uniform
  <2>3. QED
    BY <2>1, <2>2
<1>3. /\ Y \in Seq(InputEvent) /\ ~Has(Y, "key") /\ ~Has(Y, "x")
      /\ Has(Y, "y") \/ ny = pos_y
      /\ Uniform(Y, "y", ny)
  <2>1. CASE ny # pos_y
    <3>1. Y = <<[type |-> "EV_ABS", code |-> "ABS_Y", value |-> ny]>>
      BY <2>1 DEF Y
    <3>2. DOMAIN Y = {1} /\ Y[1].value = ny
      BY <3>1
    <3>3. On(Y[1], "y") /\ ~On(Y[1], "key") /\ ~On(Y[1], "x")
      BY <3>1 DEF On, IsTouchKey
    <3>4. Y \in Seq(InputEvent)
      <4>1. [type |-> "EV_ABS", code |-> "ABS_Y", value |-> ny] \in InputEvent
        BY <1>1 DEF InputEvent
      <4>2. QED
        BY <3>1, <4>1
    <3>5. QED
      BY <3>2, <3>3, <3>4 DEF Has, Uniform
  <2>2. CASE ny = pos_y
    <3>1. Y = <<>>
      BY <2>2 DEF Y
    <3>2. QED
      BY <2>2, <3>1 DEF Has, Uniform
  <2>3. QED
    BY <2>1, <2>2
<1>4. AbsEvents(nx, ny) = X \o Y
  BY DEF AbsEvents, X, Y
<1>5. Uniform(X, "y", ny) /\ Uniform(Y, "x", nx)
  BY <1>2, <1>3, NoneUniform
<1>6. X \in Seq(InputEvent) /\ Y \in Seq(InputEvent) /\ X \o Y \in Seq(InputEvent)
  BY <1>2, <1>3, ConcatIndices
<1>7. Has(X \o Y, "key") <=> Has(X, "key") \/ Has(Y, "key")
  BY <1>6, ChannelConcat
<1>8. /\ Has(X \o Y, "x") <=> Has(X, "x") \/ Has(Y, "x")
      /\ Uniform(X, "x", nx) /\ Uniform(Y, "x", nx) => Uniform(X \o Y, "x", nx)
  <2>1. Has(X \o Y, "x") <=> Has(X, "x") \/ Has(Y, "x")
    BY <1>6, ChannelConcat
  <2>2. Uniform(X, "x", nx) /\ Uniform(Y, "x", nx) => Uniform(X \o Y, "x", nx)
    BY <1>6, ChannelConcat
  <2>3. QED
    BY <2>1, <2>2
<1>9. /\ Has(X \o Y, "y") <=> Has(X, "y") \/ Has(Y, "y")
      /\ Uniform(X, "y", ny) /\ Uniform(Y, "y", ny) => Uniform(X \o Y, "y", ny)
  BY <1>6, ChannelConcat
<1>10. QED
  BY <1>2, <1>3, <1>4, <1>5, <1>6, <1>7, <1>8, <1>9

\* SYN_REPORT is on no channel.
LEMMA SynChannels ==
  /\ <<SynReport>> \in Seq(InputEvent)
  /\ \A c \in Chans : ~Has(<<SynReport>>, c)
BY DEF SynReport, InputEvent, Has, On, IsTouchKey, Chans

\* A channel of a concatenation of three.
LEMMA ChannelConcat3 ==
  ASSUME NEW a \in Seq(InputEvent), NEW b \in Seq(InputEvent),
         NEW z \in Seq(InputEvent), NEW c, NEW d
  PROVE  /\ a \o b \o z \in Seq(InputEvent)
         /\ Has(a \o b \o z, c) <=> Has(a, c) \/ Has(b, c) \/ Has(z, c)
         /\ Uniform(a, c, d) /\ Uniform(b, c, d) /\ Uniform(z, c, d)
              => Uniform(a \o b \o z, c, d)
<1>1. a \o b \in Seq(InputEvent)
  BY ConcatIndices
<1>2. a \o b \o z \in Seq(InputEvent)
  BY <1>1, ConcatIndices
<1>3. /\ Has(a \o b, c) <=> Has(a, c) \/ Has(b, c)
      /\ Uniform(a, c, d) /\ Uniform(b, c, d) => Uniform(a \o b, c, d)
  BY ChannelConcat
<1>4. /\ Has(a \o b \o z, c) <=> Has(a \o b, c) \/ Has(z, c)
      /\ Uniform(a \o b, c, d) /\ Uniform(z, c, d) => Uniform(a \o b \o z, c, d)
  BY <1>1, ChannelConcat
<1>5. QED
  BY <1>2, <1>3, <1>4

\* A press or lift frame: the keys carry v, a changed coordinate its value.
LEMMA FrameChannels ==
  ASSUME NEW nx \in XVals, NEW ny \in YVals, NEW v \in {0, 1}, NEW o \in FrameOrders
  PROVE  /\ Frame(KeyEvents(v), AbsEvents(nx, ny), o) \in Seq(InputEvent)
         /\ Has(Frame(KeyEvents(v), AbsEvents(nx, ny), o), "key")
         /\ Uniform(Frame(KeyEvents(v), AbsEvents(nx, ny), o), "key", v)
         /\ Has(Frame(KeyEvents(v), AbsEvents(nx, ny), o), "x") \/ nx = pos_x
         /\ Uniform(Frame(KeyEvents(v), AbsEvents(nx, ny), o), "x", nx)
         /\ Has(Frame(KeyEvents(v), AbsEvents(nx, ny), o), "y") \/ ny = pos_y
         /\ Uniform(Frame(KeyEvents(v), AbsEvents(nx, ny), o), "y", ny)
<1> DEFINE K == KeyEvents(v)
           A == AbsEvents(nx, ny)
           Z == <<SynReport>>
<1>1. K \in Seq(InputEvent) /\ A \in Seq(InputEvent) /\ Z \in Seq(InputEvent)
  BY KeyChannels, AbsChannels, SynChannels
<1>2. /\ Has(K, "key") /\ Uniform(K, "key", v) /\ ~Has(K, "x") /\ ~Has(K, "y")
      /\ Uniform(K, "x", nx) /\ Uniform(K, "y", ny)
  BY KeyChannels, NoneUniform
<1>3. /\ ~Has(A, "key") /\ Uniform(A, "key", v)
      /\ Has(A, "x") \/ nx = pos_x
      /\ Uniform(A, "x", nx)
      /\ Has(A, "y") \/ ny = pos_y
      /\ Uniform(A, "y", ny)
  BY AbsChannels, NoneUniform
<1>4. /\ ~Has(Z, "key") /\ ~Has(Z, "x") /\ ~Has(Z, "y")
      /\ Uniform(Z, "key", v) /\ Uniform(Z, "x", nx) /\ Uniform(Z, "y", ny)
  BY SynChannels, NoneUniform DEF Chans
<1>5. Frame(K, A, o) = K \o A \o Z \/ Frame(K, A, o) = A \o K \o Z
  BY DEF Frame
<1>6. ASSUME NEW p \in Seq(InputEvent), NEW q \in Seq(InputEvent),
             \/ p = K /\ q = A
             \/ p = A /\ q = K
      PROVE  /\ p \o q \o Z \in Seq(InputEvent)
             /\ Has(p \o q \o Z, "key") /\ Uniform(p \o q \o Z, "key", v)
             /\ Has(p \o q \o Z, "x") \/ nx = pos_x
             /\ Uniform(p \o q \o Z, "x", nx)
             /\ Has(p \o q \o Z, "y") \/ ny = pos_y
             /\ Uniform(p \o q \o Z, "y", ny)
  <2>1. p \o q \o Z \in Seq(InputEvent)
    BY <1>1, ChannelConcat3
  <2>2. /\ Has(p \o q \o Z, "key") <=> Has(p, "key") \/ Has(q, "key") \/ Has(Z, "key")
        /\ Uniform(p, "key", v) /\ Uniform(q, "key", v) /\ Uniform(Z, "key", v)
             => Uniform(p \o q \o Z, "key", v)
    BY <1>1, ChannelConcat3
  <2>3. /\ Has(p \o q \o Z, "x") <=> Has(p, "x") \/ Has(q, "x") \/ Has(Z, "x")
        /\ Uniform(p, "x", nx) /\ Uniform(q, "x", nx) /\ Uniform(Z, "x", nx)
             => Uniform(p \o q \o Z, "x", nx)
    BY <1>1, ChannelConcat3
  <2>4. /\ Has(p \o q \o Z, "y") <=> Has(p, "y") \/ Has(q, "y") \/ Has(Z, "y")
        /\ Uniform(p, "y", ny) /\ Uniform(q, "y", ny) /\ Uniform(Z, "y", ny)
             => Uniform(p \o q \o Z, "y", ny)
    BY <1>1, ChannelConcat3
  <2>5. QED
    BY <1>2, <1>3, <1>4, <1>6, <2>1, <2>2, <2>3, <2>4
<1>7. QED
  BY <1>1, <1>5, <1>6

-----------------------------------------------------------------------------
(* Reading and reporting keep the queue in sync.                           *)

\* process_event consumes the head: the handler takes the head's value on
\* its channel and keeps the others.
LEMMA ReadSync ==
  ASSUME TypeOK, InSync, evq # <<>>, evq' = Tail(evq),
         UNCHANGED <<finger, pos_x, pos_y>>,
         \A c \in Chans : Held'[c] = IF On(Head(evq), c) THEN Head(evq).value ELSE Held[c]
  PROVE  InSync'
<1> SUFFICES ASSUME NEW c \in Chans PROVE Synced(evq', c, Dev'[c], Held'[c])
  BY DEF InSync
<1>1. Dev' = Dev
  BY DEF Dev
<1>2. Synced(evq, c, Dev[c], Held[c]) /\ evq \in Seq(InputEvent)
  BY DEF InSync, TypeOK
<1>3. Synced(Tail(evq), c, Dev[c],
             IF On(Head(evq), c) THEN Head(evq).value ELSE Held[c])
  BY <1>2, SyncTail
<1>4. QED
  BY <1>1, <1>3

\* The device appends t: on each channel t carries the device's new value,
\* and has an event there unless the value did not change.
LEMMA AppendSync ==
  ASSUME TypeOK, InSync, NEW t \in Seq(InputEvent), evq' = evq \o t,
         UNCHANGED <<touch_active, current_x, current_y>>,
         \A c \in Chans : Uniform(t, c, Dev'[c]) /\ (Has(t, c) \/ Dev'[c] = Dev[c])
  PROVE  InSync'
<1> SUFFICES ASSUME NEW c \in Chans PROVE Synced(evq', c, Dev'[c], Held'[c])
  BY DEF InSync
<1>1. Held' = Held
  BY DEF Held
<1>2. Synced(evq, c, Dev[c], Held[c]) /\ evq \in Seq(InputEvent)
  BY DEF InSync, TypeOK
<1>3. Synced(evq \o t, c, Dev'[c], Held[c])
  BY <1>2, SyncConcat
<1>4. QED
  BY <1>1, <1>3

\* The finger touches or leaves the screen: the frame's keys carry the new
\* contact, its ABS events the new position.
LEMMA ContactSync ==
  ASSUME TypeOK, InSync, NEW nx \in XVals, NEW ny \in YVals, NEW o \in FrameOrders,
         Press(nx, ny, o) \/ Lift(nx, ny, o)
  PROVE  InSync'
<1> DEFINE v == IF finger' THEN 1 ELSE 0
<1>1. v \in {0, 1}
  OBVIOUS
<1>2. /\ evq' = evq \o Frame(KeyEvents(v), AbsEvents(nx, ny), o)
      /\ UNCHANGED <<touch_active, current_x, current_y>>
      /\ pos_x' = nx /\ pos_y' = ny
  BY DEF Press, Lift, handler
<1>3. /\ Dev'["key"] = v /\ Dev'["x"] = nx /\ Dev'["y"] = ny
      /\ Dev["x"] = pos_x /\ Dev["y"] = pos_y
  BY <1>2 DEF Dev
<1>4. \A c \in Chans : /\ Uniform(Frame(KeyEvents(v), AbsEvents(nx, ny), o), c, Dev'[c])
                       /\ Has(Frame(KeyEvents(v), AbsEvents(nx, ny), o), c) \/ Dev'[c] = Dev[c]
  BY <1>1, <1>3, FrameChannels DEF Chans
<1>5. Frame(KeyEvents(v), AbsEvents(nx, ny), o) \in Seq(InputEvent)
  BY <1>1, FrameChannels
<1>6. QED
  BY <1>2, <1>4, <1>5, AppendSync

\* The finger moves: the frame holds only the changed coordinates.
LEMMA DragSync ==
  ASSUME TypeOK, InSync, NEW nx \in XVals, NEW ny \in YVals, Drag(nx, ny)
  PROVE  InSync'
<1> DEFINE t == AbsEvents(nx, ny) \o <<SynReport>>
<1>1. /\ evq' = evq \o t
      /\ UNCHANGED <<touch_active, current_x, current_y, finger>>
      /\ pos_x' = nx /\ pos_y' = ny
  BY DEF Drag, handler
<1>2. /\ Dev'["key"] = Dev["key"] /\ Dev'["x"] = nx /\ Dev'["y"] = ny
      /\ Dev["x"] = pos_x /\ Dev["y"] = pos_y
  BY <1>1 DEF Dev
<1>3. AbsEvents(nx, ny) \in Seq(InputEvent) /\ <<SynReport>> \in Seq(InputEvent)
  BY AbsChannels, SynChannels
<1>4. t \in Seq(InputEvent)
  BY <1>3, ConcatIndices
<1>5. \A c \in Chans :
        /\ Has(t, c) <=> Has(AbsEvents(nx, ny), c) \/ Has(<<SynReport>>, c)
        /\ \A d : Uniform(AbsEvents(nx, ny), c, d) /\ Uniform(<<SynReport>>, c, d)
                    => Uniform(t, c, d)
  BY <1>3, ChannelConcat
<1>6. \A c \in Chans : ~Has(<<SynReport>>, c) /\ \A d : Uniform(<<SynReport>>, c, d)
  BY SynChannels, NoneUniform
<1>7. /\ ~Has(AbsEvents(nx, ny), "key")
      /\ Has(AbsEvents(nx, ny), "x") \/ nx = pos_x
      /\ Uniform(AbsEvents(nx, ny), "x", nx)
      /\ Has(AbsEvents(nx, ny), "y") \/ ny = pos_y
      /\ Uniform(AbsEvents(nx, ny), "y", ny)
  BY AbsChannels
<1>8. Uniform(AbsEvents(nx, ny), "key", Dev'["key"])
  BY <1>7, NoneUniform
<1>9. \A c \in Chans : Uniform(t, c, Dev'[c]) /\ (Has(t, c) \/ Dev'[c] = Dev[c])
  BY <1>2, <1>5, <1>6, <1>7, <1>8 DEF Chans
<1>10. QED
  BY <1>1, <1>4, <1>9, AppendSync

\* EV_ABS: the coordinate read is the head's value on its own channel.
LEMMA AbsSync ==
  ASSUME TypeOK, InSync, ProcessAbs
  PROVE  InSync'
<1>1. Head(evq) \in InputEvent /\ Head(evq).type = "EV_ABS"
  BY TailType DEF ProcessAbs, ev
<1>2. /\ ~On(Head(evq), "key")
      /\ On(Head(evq), "x") <=> Head(evq).code = "ABS_X"
      /\ On(Head(evq), "y") <=> Head(evq).code = "ABS_Y"
  BY <1>1 DEF On, IsTouchKey
<1>3. /\ evq # <<>> /\ evq' = Tail(evq) /\ UNCHANGED <<finger, pos_x, pos_y, touch_active>>
      /\ current_x' = IF Head(evq).code = "ABS_X" THEN Head(evq).value ELSE current_x
      /\ current_y' = IF Head(evq).code = "ABS_Y" THEN Head(evq).value ELSE current_y
  BY DEF ProcessAbs, ev, device
<1>4. \A c \in Chans : Held'[c] = IF On(Head(evq), c) THEN Head(evq).value ELSE Held[c]
  BY <1>2, <1>3 DEF Chans, Held
<1>5. QED
  BY <1>3, <1>4, ReadSync

\* EV_KEY: every branch of the key handling consumes a touch key and sets
\* touch_active_ to its value.
LEMMA KeyRead ==
  ASSUME TypeOK, TouchDown \/ TouchUpScroll \/ TouchUpTap \/ TouchUpDrag
  PROVE  /\ evq # <<>> /\ evq' = Tail(evq) /\ On(Head(evq), "key")
         /\ UNCHANGED <<finger, pos_x, pos_y>>
         /\ \A c \in Chans : Held'[c] = IF On(Head(evq), c) THEN Head(evq).value ELSE Held[c]
<1>1. /\ evq # <<>> /\ IsTouchKey(Head(evq))
      /\ (touch_active' <=> Head(evq).value = 1)
      /\ evq' = Tail(evq)
      /\ UNCHANGED <<finger, pos_x, pos_y, current_x, current_y>>
  <2>1. CASE TouchDown
    BY <2>1 DEF TouchDown, ev, device
  <2>2. CASE TouchUpScroll
    <3>1. /\ evq # <<>> /\ IsTouchKey(Head(evq)) /\ Head(evq).value = 0
          /\ touch_active' = FALSE /\ evq' = Tail(evq)
          /\ UNCHANGED <<finger, pos_x, pos_y, current_x, current_y>>
      BY <2>2 DEF TouchUpScroll, ev, device
    <3>2. (touch_active' <=> Head(evq).value = 1)
      BY <3>1
    <3>3. QED
      BY <3>1, <3>2
  <2>3. CASE TouchUpTap
    <3>1. /\ evq # <<>> /\ IsTouchKey(Head(evq)) /\ Head(evq).value = 0
          /\ touch_active' = FALSE /\ evq' = Tail(evq)
          /\ UNCHANGED <<finger, pos_x, pos_y, current_x, current_y>>
      BY <2>3 DEF TouchUpTap, ev, device
    <3>2. (touch_active' <=> Head(evq).value = 1)
      BY <3>1
    <3>3. QED
      BY <3>1, <3>2
  <2>4. CASE TouchUpDrag
    <3>1. /\ evq # <<>> /\ IsTouchKey(Head(evq)) /\ Head(evq).value = 0
          /\ touch_active' = FALSE /\ evq' = Tail(evq)
          /\ UNCHANGED <<finger, pos_x, pos_y, current_x, current_y>>
      BY <2>4 DEF TouchUpDrag, ev, device
    <3>2. (touch_active' <=> Head(evq).value = 1)
      BY <3>1
    <3>3. QED
      BY <3>1, <3>2
  <2>5. QED
    BY <2>1, <2>2, <2>3, <2>4
<1>2. Head(evq) \in InputEvent
  BY <1>1, TailType
<1>3. Head(evq).value \in {0, 1} /\ Head(evq).type = "EV_KEY"
  BY <1>1, <1>2 DEF InputEvent, IsTouchKey
<1>4. On(Head(evq), "key") /\ ~On(Head(evq), "x") /\ ~On(Head(evq), "y")
  BY <1>1, <1>3 DEF On
<1>5. Held'["key"] = Head(evq).value
  <2>1. CASE Head(evq).value = 1
    BY <1>1, <2>1 DEF Held
  <2>2. CASE Head(evq).value = 0
    BY <1>1, <2>2 DEF Held
  <2>3. QED
    BY <1>3, <2>1, <2>2
<1>6. Held'["x"] = Held["x"] /\ Held'["y"] = Held["y"]
  BY <1>1 DEF Held
<1>7. \A c \in Chans : Held'[c] = IF On(Head(evq), c) THEN Head(evq).value ELSE Held[c]
  BY <1>4, <1>5, <1>6 DEF Chans
<1>8. QED
  BY <1>1, <1>4, <1>7

\* EV_KEY: every branch of the key handling sets touch_active_ to the
\* key's value.
LEMMA KeySync ==
  ASSUME TypeOK, InSync, TouchDown \/ TouchUpScroll \/ TouchUpTap \/ TouchUpDrag
  PROVE  InSync'
BY KeyRead, ReadSync

\* SYN_REPORT: on no channel, and no branch touches touch_active_ or the
\* current position.
LEMMA SynSync ==
  ASSUME TypeOK, InSync, SynIdle \/ SynScrollStep \/ SynScrollHold \/ SynMove \/ SynStill
  PROVE  InSync'
<1>1. /\ IsSyn /\ evq' = Tail(evq)
      /\ UNCHANGED <<finger, pos_x, pos_y, touch_active, current_x, current_y>>
  BY DEF SynIdle, SynScrollStep, SynScrollHold, SynMove, SynStill, handler, device
<1>2. evq # <<>> /\ Head(evq).type = "EV_SYN"
  BY <1>1 DEF IsSyn, ev
<1>3. \A c \in Chans : ~On(Head(evq), c)
  BY <1>2 DEF Chans, On, IsTouchKey
<1>4. \A c \in Chans : Held'[c] = IF On(Head(evq), c) THEN Head(evq).value ELSE Held[c]
  BY <1>1, <1>3 DEF Chans, Held
<1>5. QED
  BY <1>1, <1>2, <1>4, ReadSync

\* A step that leaves the queue, the device and the handler's contact and
\* position alone keeps the queue in sync.
LEMMA FrameSync ==
  ASSUME InSync, UNCHANGED <<evq, finger, pos_x, pos_y, touch_active, current_x, current_y>>
  PROVE  InSync'
<1>1. Dev' = Dev /\ Held' = Held
  BY DEF Dev, Held
<1>2. QED
  BY <1>1 DEF InSync

-----------------------------------------------------------------------------
(* The invariant.                                                          *)

LEMMA InitSync ==
  ASSUME Init
  PROVE  InSync
<1>1. \A c \in Chans : ~Has(evq, c)
  BY DEF Init, Has
<1>2. \A c \in Chans : Held[c] = Dev[c]
  BY DEF Init, Held, Dev, Chans
<1>3. QED
  BY <1>1, <1>2 DEF InSync, Synced

LEMMA StepSync ==
  ASSUME TypeOK, InSync, [Next]_vars
  PROVE  InSync'
<1>1. CASE Device
  <2>1. CASE \E nx \in XVals, ny \in YVals, o \in FrameOrders : Press(nx, ny, o)
    BY <2>1, ContactSync
  <2>2. CASE \E nx \in XVals, ny \in YVals : Drag(nx, ny)
    BY <2>2, DragSync
  <2>3. CASE \E nx \in XVals, ny \in YVals, o \in FrameOrders : Lift(nx, ny, o)
    BY <2>3, ContactSync
  <2>4. QED
    BY <1>1, <2>1, <2>2, <2>3 DEF Device
<1>2. CASE Configure
  <2>1. UNCHANGED <<evq, finger, pos_x, pos_y, touch_active, current_x, current_y>>
    BY <1>2 DEF Configure, SetScreenResolution, SetCoordinateMapping, handler, device
  <2>2. QED
    BY <2>1, FrameSync
<1>3. CASE ProcessAbs
  BY <1>3, AbsSync
<1>4. CASE TouchDown \/ TouchUpScroll \/ TouchUpTap \/ TouchUpDrag
  BY <1>4, KeySync
<1>5. CASE SynIdle \/ SynScrollStep \/ SynScrollHold \/ SynMove \/ SynStill
  BY <1>5, SynSync
<1>6. CASE PollEmpty \/ UNCHANGED vars
  <2>1. UNCHANGED <<evq, finger, pos_x, pos_y, touch_active, current_x, current_y>>
    BY <1>6 DEF PollEmpty, vars, handler, device
  <2>2. QED
    BY <2>1, FrameSync
<1>7. QED
  BY <1>1, <1>2, <1>3, <1>4, <1>5, <1>6 DEF Next, ProcessEvent

\* The queue stays in sync with the device: for the touch keys, ABS_X and
\* ABS_Y, the last event event_loop has still to read carries the device's
\* value, and when none is queued process_event already holds it.
THEOREM SyncInvariant == Spec => []SyncInv
<1>1. Init => InSync
  BY InitSync
<1>2. TypeOK /\ InSync /\ [Next]_vars => InSync'
  BY StepSync
<1>3. QED
  BY <1>1, <1>2, TypeCorrect, PTL DEF Spec, SyncInv

\* DrainedInSync: whenever event_loop has read every reported event,
\* process_event has left touch_active_ equal to whether the finger is down
\* and current_x_/current_y_ at the finger's position, whatever the frames'
\* order, the number of key codes per frame and the coordinates.
THEOREM DrainedInSyncInv == Spec => []DrainedInSync
<1>1. SyncInv => DrainedInSync
  <2> SUFFICES ASSUME SyncInv, evq = <<>>
               PROVE  touch_active = finger /\ current_x = pos_x /\ current_y = pos_y
    BY DEF DrainedInSync
  <2>1. \A c \in Chans : Held[c] = Dev[c]
    <3>1. \A c \in Chans : ~Has(evq, c)
      BY DEF Has
    <3>2. QED
      BY <3>1 DEF SyncInv, InSync, Synced
  <2>2. (IF touch_active THEN 1 ELSE 0) = (IF finger THEN 1 ELSE 0)
        /\ current_x = pos_x /\ current_y = pos_y
    BY <2>1 DEF Chans, Held, Dev
  <2>3. touch_active \in BOOLEAN /\ finger \in BOOLEAN
    BY DEF SyncInv, TypeOK
  <2>4. QED
    BY <2>2, <2>3
<1>2. QED
  BY <1>1, SyncInvariant, PTL

=============================================================================
