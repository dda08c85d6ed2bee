---------------------------- MODULE DecoderProofs ----------------------------
(***************************************************************************)
(* What Decoder guarantees for any number of buffers, packets and commands *)
(* and for any delay of the codec.                                         *)
(*                                                                         *)
(* The packets on their way stand at six places in a row (Place): the      *)
(* frame pulled last, the frames queued, the codec, the end it drains for, *)
(* the thread's input and the packets queued.  What an action moves goes   *)
(* from one place to another, over places that are empty by then, so that  *)
(* the places stay apart (Apart); inside a queue the order is Sorted.      *)
(***************************************************************************)
EXTENDS Decoder, FiniteSetTheorems, TLAPS

FrameBuffers == [buf : Frames, pkt : Nat \ {0}, kind : {"data", "end", "empty"}]

(* What is left of a command.                                              *)
Plans == {<<>>, <<"STARTED">>, <<"PAUSED">>, <<"STOPPED">>, <<"start", "STARTED">>,
          <<"pause", "PAUSED">>, <<"pause", "flush", "frames", "start", "STARTED">>,
          <<"flush", "frames", "start", "STARTED">>, <<"frames", "start", "STARTED">>,
          <<"stop", "interrupt", "interrupt", "join", "flush", "frames", "STOPPED">>,
          <<"interrupt", "interrupt", "join", "flush", "frames", "STOPPED">>,
          <<"interrupt", "join", "flush", "frames", "STOPPED">>, <<"join", "flush", "frames", "STOPPED">>,
          <<"flush", "frames", "STOPPED">>, <<"frames", "STOPPED">>}

(* A flush is to come, or the stop is about to be done.                    *)
Quieting == {<<"pause", "flush", "frames", "start", "STARTED">>,
             <<"flush", "frames", "start", "STARTED">>, <<"frames", "start", "STARTED">>,
             <<"stop", "interrupt", "interrupt", "join", "flush", "frames", "STOPPED">>,
             <<"interrupt", "interrupt", "join", "flush", "frames", "STOPPED">>,
             <<"interrupt", "join", "flush", "frames", "STOPPED">>,
             <<"join", "flush", "frames", "STOPPED">>, <<"flush", "frames", "STOPPED">>,
             <<"frames", "STOPPED">>, <<"STOPPED">>}

AfterJoin == {<<"flush", "frames", "STOPPED">>, <<"frames", "STOPPED">>, <<"STOPPED">>}

ControlType ==
    /\ started \in BOOLEAN /\ running \in BOOLEAN /\ loopState \in {"IDLE", "LOOP", "EXIT"}
    /\ tpc \in {"born", "setloop", "top", "take", "acquire", "check", "copy", "send", "receive", "exit", "dead"}
    /\ todo \in Plans /\ phase \in {"PREPARED", "STARTED", "PAUSED", "STOPPED"}
    /\ dpc \in {"top", "topES", "acquire", "fill", "pull", "pullES"}

DataType ==
    /\ stream \in Streams /\ eosFlag \in BOOLEAN
    /\ freeP \in Int /\ freeF \subseteq Frames /\ ready \subseteq Frames /\ sunk \subseteq Frames
    /\ pktQ \in Seq(Nat \ {0}) /\ codec \in Seq(Nat \ {0}) /\ frmQ \in Seq(FrameBuffers)
    /\ input \in Nat /\ drain \in Nat /\ output \in Frames \cup {None}
    /\ pushed \in Nat /\ pulled \in Nat /\ mark \in Nat /\ stale \in Nat

TypeOK == ControlType /\ DataType

dataVars == <<stream, eosFlag, freeP, freeF, ready, sunk, pktQ, codec, frmQ, input, drain, output,
              pushed, pulled, mark, stale>>

(* What the thread has in its hands where it is.                           *)
HandInv ==
    /\ tpc \in {"send", "copy"} => input # None /\ output # None
    /\ tpc = "receive" => input = None /\ output # None
    /\ tpc = "copy" => stream.bypass
    /\ tpc \in {"send", "receive"} => ~stream.bypass
    /\ stream.bypass => codec = <<>> /\ drain = None
    /\ tpc = "dead" => input = None /\ output = None
    /\ phase = "STOPPED" \/ todo \in AfterJoin => tpc = "dead"
    /\ phase = "STOPPED" => todo = <<>>
    /\ todo \in Quieting => phase = "PAUSED"

Bufs(q) == {q[i].buf : i \in DOMAIN q}

(* Every packet buffer and every frame buffer is somewhere.                *)
CountInv ==
    /\ freeP + Len(pktQ) + (IF input = None THEN 0 ELSE 1)
             + (IF dpc \in {"fill", "pullES", "topES"} THEN 1 ELSE 0) = PacketCount
    /\ Frames \subseteq freeF \cup sunk \cup Bufs(frmQ) \cup {output}

NumbersOf(q) == [i \in DOMAIN q |-> Number(q[i])]

Vals(q) == {q[i] : i \in DOMAIN q}

Place(k) == CASE k = 1 -> {pulled}
              [] k = 2 -> Vals(NumbersOf(frmQ))
              [] k = 3 -> Vals(codec)
              [] k = 4 -> {drain}
              [] k = 5 -> {input}
              [] OTHER -> Vals(pktQ)

Apart == \A k, l \in 1..6 : k < l => \A m \in Place(k), n \in Place(l) : Before(m, n)

Sorted(q) == \A i, j \in DOMAIN q : i < j => Before(q[i], q[j])

OrderInv ==
    /\ Apart
    /\ Sorted(NumbersOf(frmQ)) /\ Sorted(codec) /\ Sorted(pktQ)
    /\ \A k \in 1..6 : \A n \in Place(k) : n \in 0..pushed

(* Audio whose codec was marked ended before: the end it drains for never  *)
(* comes out.                                                              *)
Stuck == drain # None /\ eosFlag /\ ~stream.video /\ codec = <<>>

Ends == IF drain = None THEN 0 ELSE 1

(* What the codec keeps between the calls of the loop, when a packet gives *)
(* one frame.                                                              *)
KeepInv ==
    stream.rich = {} =>
        /\ tpc = "receive" => Stuck \/ Len(codec) + Ends <= stream.delay + 1
        /\ tpc # "receive" => Stuck \/ Len(codec) + Ends <= stream.delay

(* After the flush of the packets the deliver thread brings one at most.   *)
FlushInv ==
    todo # <<>> /\ Head(todo) = "frames" =>
        Len(pktQ) + (IF dpc \in {"acquire", "fill"} THEN 1 ELSE 0) <= 1

(* The packets of before the flush that may still come out.                *)
Old == {n \in 1..mark : \/ \E k \in {2, 3, 5, 6} : n \in Place(k)
                        \/ n = drain /\ ~Stuck}

StaleInv ==
    /\ mark <= pushed
    /\ stream.rich = {} => stale + Cardinality(Old) <= stream.delay + 2

Inv == TypeOK /\ HandInv /\ CountInv /\ OrderInv
IInv == Inv /\ KeepInv /\ FlushInv /\ StaleInv

-----------------------------------------------------------------------------
USE DecoderAssumption DEF None

(* Queues and the order in them.                                           *)

LEMMA Taken ==
  ASSUME NEW S, NEW q \in Seq(S), q # <<>>
  PROVE  /\ Head(q) \in S /\ Head(q) \in Vals(q) /\ Tail(q) \in Seq(S)
         /\ Len(Tail(q)) = Len(q) - 1
         /\ Vals(q) = Vals(Tail(q)) \cup {Head(q)}
         /\ Sorted(q) => Sorted(Tail(q)) /\ \A n \in Vals(Tail(q)) : Before(Head(q), n)
<1>1. /\ DOMAIN q = 1..Len(q) /\ Len(q) \in Nat /\ Len(q) >= 1
      /\ Head(q) = q[1] /\ q[1] \in S /\ Tail(q) \in Seq(S)
      /\ Len(Tail(q)) = Len(q) - 1 /\ DOMAIN Tail(q) = 1..(Len(q) - 1)
      /\ \A i \in 1..(Len(q) - 1) : Tail(q)[i] = q[i + 1]
  OBVIOUS
<1>2. Vals(q) = Vals(Tail(q)) \cup {Head(q)}
  <2>1. ASSUME NEW n \in Vals(q) PROVE n \in Vals(Tail(q)) \cup {Head(q)}
    <3>1. PICK i \in 1..Len(q) : n = q[i]
      BY <1>1 DEF Vals
    <3>2. CASE i = 1
      BY <1>1, <3>1, <3>2
    <3>3. CASE i # 1
      <4>1. i - 1 \in 1..(Len(q) - 1) /\ Tail(q)[i - 1] = q[i]
        BY <1>1, <3>3
      <4> QED
        BY <1>1, <3>1, <4>1 DEF Vals
    <3> QED
      BY <3>2, <3>3
  <2>2. ASSUME NEW n \in Vals(Tail(q)) PROVE n \in Vals(q)
    BY <1>1 DEF Vals
  <2>3. Head(q) \in Vals(q)
    BY <1>1 DEF Vals
  <2> QED
    BY <2>1, <2>2, <2>3
<1>3. ASSUME Sorted(q) PROVE Sorted(Tail(q)) /\ \A n \in Vals(Tail(q)) : Before(Head(q), n)
  BY <1>1, <1>3 DEF Sorted, Vals
<1> QED
  BY <1>1, <1>2, <1>3

LEMMA Added ==
  ASSUME NEW S, NEW q \in Seq(S), NEW e \in S
  PROVE  /\ Append(q, e) \in Seq(S) /\ Len(Append(q, e)) = Len(q) + 1
         /\ Vals(Append(q, e)) = Vals(q) \cup {e}
         /\ Sorted(q) /\ (\A m \in Vals(q) : Before(m, e)) => Sorted(Append(q, e))
<1> DEFINE r == Append(q, e)
<1>1. /\ DOMAIN q = 1..Len(q) /\ Len(q) \in Nat /\ DOMAIN r = 1..(Len(q) + 1)
      /\ r \in Seq(S) /\ Len(r) = Len(q) + 1
      /\ r[Len(q) + 1] = e /\ \A i \in 1..Len(q) : r[i] = q[i]
  OBVIOUS
<1> HIDE DEF r
<1>2. Vals(r) = Vals(q) \cup {e}
  <2>1. Len(q) + 1 \in DOMAIN r
    BY <1>1
  <2> QED
    BY <1>1, <2>1 DEF Vals
<1>3. ASSUME Sorted(q), \A m \in Vals(q) : Before(m, e) PROVE Sorted(r)
  BY <1>1, <1>3 DEF Sorted, Vals
<1>4. r \in Seq(S) /\ Len(r) = Len(q) + 1 /\ Vals(r) = Vals(q) \cup {e}
      /\ (Sorted(q) /\ (\A m \in Vals(q) : Before(m, e)) => Sorted(r))
  BY <1>1, <1>2, <1>3
<1> QED
  BY <1>4 DEF r

LEMMA NumberType ==
  \A f \in FrameBuffers : Number(f) \in Nat
BY DEF FrameBuffers, Number

LEMMA SameQueue ==
  ASSUME NEW S, NEW a \in Seq(S), NEW b \in Seq(S), Len(a) = Len(b), \A i \in 1..Len(a) : a[i] = b[i]
  PROVE  a = b
OBVIOUS

LEMMA NumbersSame ==
  ASSUME NEW q \in Seq(FrameBuffers)
  PROVE  /\ NumbersOf(q) \in Seq(Nat) /\ Len(NumbersOf(q)) = Len(q)
         /\ \A i \in 1..Len(q) : NumbersOf(q)[i] = Number(q[i])
<1>1. \A i \in 1..Len(q) : Number(q[i]) \in Nat
  <2>1. \A i \in 1..Len(q) : q[i] \in FrameBuffers
    OBVIOUS
  <2> QED
    BY <2>1, NumberType
<1>2. NumbersOf(q) = [i \in 1..Len(q) |-> Number(q[i])] /\ Len(q) \in Nat
  BY DEF NumbersOf
<1> QED
  BY <1>1, <1>2

LEMMA NumbersTaken ==
  ASSUME NEW q \in Seq(FrameBuffers), q # <<>>
  PROVE  /\ NumbersOf(q) # <<>> /\ Head(NumbersOf(q)) = Number(Head(q))
         /\ NumbersOf(Tail(q)) = Tail(NumbersOf(q))
<1>1. /\ NumbersOf(q) \in Seq(Nat) /\ Len(NumbersOf(q)) = Len(q)
      /\ \A i \in 1..Len(q) : NumbersOf(q)[i] = Number(q[i])
  BY NumbersSame
<1>2. /\ Tail(q) \in Seq(FrameBuffers) /\ Len(Tail(q)) = Len(q) - 1 /\ Len(q) \in Nat /\ Len(q) >= 1
      /\ Head(q) = q[1] /\ \A i \in 1..(Len(q) - 1) : Tail(q)[i] = q[i + 1]
  OBVIOUS
<1>3. /\ NumbersOf(Tail(q)) \in Seq(Nat) /\ Len(NumbersOf(Tail(q))) = Len(q) - 1
      /\ \A i \in 1..(Len(q) - 1) : NumbersOf(Tail(q))[i] = Number(q[i + 1])
  <2> DEFINE t == Tail(q)
  <2>1. t \in Seq(FrameBuffers) /\ Len(t) = Len(q) - 1 /\ \A i \in 1..(Len(q) - 1) : t[i] = q[i + 1]
    BY <1>2
  <2> HIDE DEF t
  <2>2. /\ NumbersOf(t) \in Seq(Nat) /\ Len(NumbersOf(t)) = Len(q) - 1
        /\ \A i \in 1..(Len(q) - 1) : NumbersOf(t)[i] = Number(q[i + 1])
    BY <2>1, NumbersSame
  <2> QED
    BY <2>2 DEF t
<1> DEFINE a == NumbersOf(q)
           b == NumbersOf(Tail(q))
<1> HIDE DEF a, b
<1>4. a # <<>> /\ Head(a) = a[1] /\ Tail(a) \in Seq(Nat) /\ Len(Tail(a)) = Len(q) - 1
      /\ \A i \in 1..(Len(q) - 1) : Tail(a)[i] = a[i + 1]
  BY <1>1, <1>2 DEF a
<1>5. b = Tail(a)
  <2>1. b \in Seq(Nat) /\ Len(b) = Len(Tail(a)) /\ Tail(a) \in Seq(Nat)
    BY <1>3, <1>4 DEF b
  <2>2. \A i \in 1..Len(b) : b[i] = Tail(a)[i]
    BY <1>1, <1>2, <1>3, <1>4 DEF a, b
  <2> QED
    BY <2>1, <2>2, SameQueue
<1> QED
  BY <1>1, <1>2, <1>4, <1>5 DEF a, b

LEMMA NumbersAdded ==
  ASSUME NEW q \in Seq(FrameBuffers), NEW f \in FrameBuffers
  PROVE  NumbersOf(Append(q, f)) = Append(NumbersOf(q), Number(f))
<1> DEFINE r == Append(q, f)
           a == NumbersOf(q)
           b == NumbersOf(r)
<1>1. a \in Seq(Nat) /\ Len(a) = Len(q) /\ \A i \in 1..Len(q) : a[i] = Number(q[i])
  BY NumbersSame
<1>2. /\ r \in Seq(FrameBuffers) /\ Len(r) = Len(q) + 1 /\ Len(q) \in Nat
      /\ r[Len(q) + 1] = f /\ \A i \in 1..Len(q) : r[i] = q[i]
  OBVIOUS
<1> HIDE DEF r
<1>3. b \in Seq(Nat) /\ Len(b) = Len(q) + 1 /\ \A i \in 1..(Len(q) + 1) : b[i] = Number(r[i])
  BY <1>2, NumbersSame
<1>4. Number(f) \in Nat
  BY DEF FrameBuffers, Number
<1> HIDE DEF a, b
<1>5. b = Append(a, Number(f))
  BY <1>1, <1>2, <1>3, <1>4
<1> QED
  BY <1>5 DEF a, b, r

LEMMA BeforeSame ==
  ASSUME stream' = stream
  PROVE  /\ \A m, n : Before(m, n)' <=> Before(m, n)
         /\ \A q : Sorted(q)' <=> Sorted(q)
BY DEF Before, Sorted

lineVars == <<stream, pulled, frmQ, codec, drain, input, pktQ, pushed>>

LEMMA PlaceSame ==
  ASSUME UNCHANGED lineVars
  PROVE  \A k \in 1..6 : Place(k)' = Place(k)
BY DEF lineVars, Place

LEMMA OrderSame ==
  ASSUME OrderInv, UNCHANGED lineVars
  PROVE  OrderInv'
<1>1. stream' = stream /\ pushed' = pushed /\ frmQ' = frmQ /\ codec' = codec /\ pktQ' = pktQ
  BY DEF lineVars
<1>2. Apart'
  BY <1>1, PlaceSame, BeforeSame DEF OrderInv, Apart
<1>3. (\A k \in 1..6 : \A n \in Place(k) : n \in 0..pushed)'
  BY <1>1, PlaceSame DEF OrderInv
<1>4. (Sorted(NumbersOf(frmQ)) /\ Sorted(codec) /\ Sorted(pktQ))'
  BY <1>1, BeforeSame DEF OrderInv
<1> QED
  BY <1>2, <1>3, <1>4 DEF OrderInv

(* A number moves from one place to another, or a place gives one up.      *)
LEMMA Moved ==
  ASSUME OrderInv, pushed \in Nat, stream' = stream, pushed' = pushed,
         NEW to \in 1..6, NEW from \in to..6, NEW e \in Place(from),
         \A k \in 1..6 : \A n \in Place(k)' : n = None \/ n \in Place(k) \/ (k = to /\ n = e),
         \A k \in (to + 1)..(from - 1) : \A n \in Place(k)' : n = None,
         from # to => \A n \in Place(from)' : Before(e, n)
  PROVE  Apart' /\ (\A k \in 1..6 : \A n \in Place(k) : n \in 0..pushed)'
<1>1. ASSUME NEW k \in 1..6, NEW l \in 1..6, k < l, NEW m \in Place(k)', NEW n \in Place(l)'
      PROVE  Before(m, n)
  <2>1. CASE m = None \/ n = None
    BY <2>1 DEF Before
  <2>2. CASE m \in Place(k) /\ n \in Place(l)
    BY <1>1, <2>2 DEF OrderInv, Apart
  <2>3. CASE k = to /\ m = e /\ n # None
    <3>1. CASE l < from
      BY <1>1, <2>3, <3>1
    <3>2. CASE l = from
      BY <1>1, <2>3, <3>2
    <3>3. CASE l > from
      BY <1>1, <2>3, <3>3 DEF OrderInv, Apart
    <3> QED
      BY <3>1, <3>2, <3>3
  <2>4. CASE l = to /\ n = e /\ m \in Place(k)
    BY <1>1, <2>4 DEF OrderInv, Apart
  <2> QED
    BY <1>1, <2>1, <2>2, <2>3, <2>4
<1>2. Apart'
  BY <1>1, BeforeSame DEF Apart
<1>3. ASSUME NEW k \in 1..6, NEW n \in Place(k)' PROVE n \in 0..pushed
  BY DEF OrderInv
<1> QED
  BY <1>2, <1>3

(* What is left after a step of a command.                                 *)
LEMMA Tails ==
  /\ Tail(<<"pause", "flush", "frames", "start", "STARTED">>) = <<"flush", "frames", "start", "STARTED">>
  /\ Tail(<<"flush", "frames", "start", "STARTED">>) = <<"frames", "start", "STARTED">>
  /\ Tail(<<"frames", "start", "STARTED">>) = <<"start", "STARTED">>
  /\ Tail(<<"start", "STARTED">>) = <<"STARTED">>
  /\ Tail(<<"stop", "interrupt", "interrupt", "join", "flush", "frames", "STOPPED">>)
        = <<"interrupt", "interrupt", "join", "flush", "frames", "STOPPED">>
  /\ Tail(<<"interrupt", "interrupt", "join", "flush", "frames", "STOPPED">>)
        = <<"interrupt", "join", "flush", "frames", "STOPPED">>
  /\ Tail(<<"interrupt", "join", "flush", "frames", "STOPPED">>) = <<"join", "flush", "frames", "STOPPED">>
  /\ Tail(<<"join", "flush", "frames", "STOPPED">>) = <<"flush", "frames", "STOPPED">>
  /\ Tail(<<"flush", "frames", "STOPPED">>) = <<"frames", "STOPPED">>
  /\ Tail(<<"frames", "STOPPED">>) = <<"STOPPED">>
  /\ Tail(<<"pause", "PAUSED">>) = <<"PAUSED">>
  /\ Tail(<<"STARTED">>) = <<>>
  /\ Tail(<<"PAUSED">>) = <<>>
  /\ Tail(<<"STOPPED">>) = <<>>
OBVIOUS

LEMMA Heads ==
  /\ Head(<<"pause", "flush", "frames", "start", "STARTED">>) = "pause" /\ <<"pause", "flush", "frames", "start", "STARTED">> # <<>>
  /\ Head(<<"flush", "frames", "start", "STARTED">>) = "flush" /\ <<"flush", "frames", "start", "STARTED">> # <<>>
  /\ Head(<<"frames", "start", "STARTED">>) = "frames" /\ <<"frames", "start", "STARTED">> # <<>>
  /\ Head(<<"start", "STARTED">>) = "start" /\ <<"start", "STARTED">> # <<>>
  /\ Head(<<"stop", "interrupt", "interrupt", "join", "flush", "frames", "STOPPED">>) = "stop"
  /\ <<"stop", "interrupt", "interrupt", "join", "flush", "frames", "STOPPED">> # <<>>
  /\ Head(<<"interrupt", "interrupt", "join", "flush", "frames", "STOPPED">>) = "interrupt"
  /\ <<"interrupt", "interrupt", "join", "flush", "frames", "STOPPED">> # <<>>
  /\ Head(<<"interrupt", "join", "flush", "frames", "STOPPED">>) = "interrupt"
  /\ <<"interrupt", "join", "flush", "frames", "STOPPED">> # <<>>
  /\ Head(<<"join", "flush", "frames", "STOPPED">>) = "join" /\ <<"join", "flush", "frames", "STOPPED">> # <<>>
  /\ Head(<<"flush", "frames", "STOPPED">>) = "flush" /\ <<"flush", "frames", "STOPPED">> # <<>>
  /\ Head(<<"frames", "STOPPED">>) = "frames" /\ <<"frames", "STOPPED">> # <<>>
  /\ Head(<<"pause", "PAUSED">>) = "pause" /\ <<"pause", "PAUSED">> # <<>>
  /\ Head(<<"STARTED">>) = "STARTED" /\ <<"STARTED">> # <<>>
  /\ Head(<<"PAUSED">>) = "PAUSED" /\ <<"PAUSED">> # <<>>
  /\ Head(<<"STOPPED">>) = "STOPPED" /\ <<"STOPPED">> # <<>>
OBVIOUS

LEMMA DataSame ==
  ASSUME DataType, UNCHANGED dataVars
  PROVE  DataType'
BY DEF DataType, dataVars

LEMMA InitInv ==
  ASSUME Init
  PROVE  Inv
<1> USE DEF Init
<1>1. TypeOK
  <2>1. ControlType
    BY DEF ControlType, Plans
  <2>2. PacketCount \in Int /\ <<>> \in Seq(Nat \ {0}) /\ <<>> \in Seq(FrameBuffers)
    OBVIOUS
  <2>3. DataType
    BY <2>2 DEF DataType
  <2> QED
    BY <2>1, <2>3 DEF TypeOK
<1>2. HandInv
  BY DEF HandInv, AfterJoin, Quieting
<1>3. CountInv
  BY DEF CountInv, Frames
<1>4. OrderInv
  <2>1. \A k \in 1..6 : \A n \in Place(k) : n = 0
    BY DEF Place, NumbersOf, Vals
  <2> QED
    BY <2>1 DEF OrderInv, Apart, Before, Sorted, NumbersOf
<1> QED
  BY <1>1, <1>2, <1>3, <1>4 DEF Inv

-----------------------------------------------------------------------------
(* The commands.                                                           *)

LEMMA SendInv ==
  ASSUME Inv, Send_
  PROVE  Inv'
<1> USE DEF Send_, PlayerStart, PlayerPause, PlayerSeek, PlayerStop, Command,
            pools, taskVars, linkVars, obsVars
<1>1. TypeOK'
  <2>1. ControlType'
    BY DEF Inv, TypeOK, ControlType, Plans
  <2>2. DataType'
    BY DataSame DEF Inv, TypeOK, dataVars
  <2> QED
    BY <2>1, <2>2 DEF TypeOK
<1>2. HandInv'
  BY Heads DEF Inv, HandInv, AfterJoin, Quieting
<1>3. CountInv'
  BY DEF Inv, CountInv
<1>4. OrderInv'
  BY OrderSame DEF Inv, lineVars
<1> QED
  BY <1>1, <1>2, <1>3, <1>4 DEF Inv

LEMMA PlanStep ==
  ASSUME todo \in Plans, todo # <<>>, Done
  PROVE  /\ todo' \in Plans
         /\ Head(todo) \in {"STARTED", "PAUSED", "STOPPED"} => todo' = <<>>
         /\ Head(todo) # "join" /\ todo' \in AfterJoin => todo \in AfterJoin
         /\ todo' \in Quieting => todo \in Quieting
         /\ Head(todo) = "STOPPED" => todo \in AfterJoin
         /\ Head(todo) = "flush" => todo' # <<>> /\ Head(todo') = "frames"
         /\ todo' # <<>> /\ Head(todo') = "frames" => Head(todo) = "flush"
<1> USE Tails, Heads DEF Done, AfterJoin, Quieting
<1>1. todo' = Tail(todo)
  OBVIOUS
<1>2. CASE todo = <<"pause", "flush", "frames", "start", "STARTED">>
  BY <1>1, <1>2 DEF Plans
<1>3. CASE todo = <<"flush", "frames", "start", "STARTED">>
  BY <1>1, <1>3 DEF Plans
<1>4. CASE todo = <<"frames", "start", "STARTED">>
  BY <1>1, <1>4 DEF Plans
<1>5. CASE todo = <<"start", "STARTED">>
  BY <1>1, <1>5 DEF Plans
<1>6. CASE todo = <<"stop", "interrupt", "interrupt", "join", "flush", "frames", "STOPPED">>
  BY <1>1, <1>6 DEF Plans
<1>7. CASE todo = <<"join", "flush", "frames", "STOPPED">>
  BY <1>1, <1>7 DEF Plans
<1>8. CASE todo = <<"flush", "frames", "STOPPED">>
  BY <1>1, <1>8 DEF Plans
<1>9. CASE todo = <<"frames", "STOPPED">>
  BY <1>1, <1>9 DEF Plans
<1>10. CASE todo = <<"pause", "PAUSED">>
  BY <1>1, <1>10 DEF Plans
<1>11. CASE todo = <<"STARTED">>
  BY <1>1, <1>11 DEF Plans
<1>12. CASE todo = <<"PAUSED">>
  BY <1>1, <1>12 DEF Plans
<1>13. CASE todo = <<"STOPPED">>
  BY <1>1, <1>13 DEF Plans
<1>14. CASE todo = <<"interrupt", "interrupt", "join", "flush", "frames", "STOPPED">>
  BY <1>1, <1>14 DEF Plans
<1>15. CASE todo = <<"interrupt", "join", "flush", "frames", "STOPPED">>
  BY <1>1, <1>15 DEF Plans
<1> QED
  BY <1>2, <1>3, <1>4, <1>5, <1>6, <1>7, <1>8, <1>9, <1>10, <1>11, <1>12, <1>13, <1>14, <1>15 DEF Plans

LEMMA PlayerStepInv ==
  ASSUME Inv, PlayerState \/ OnStart \/ OnPause \/ OnStop \/ RequestInterruption \/ Join
  PROVE  Inv'
<1> USE DEF PlayerState, OnStart, OnPause, OnStop, RequestInterruption, Join, Doing,
            pools, taskVars, linkVars, obsVars
<1>0. todo \in Plans /\ todo # <<>> /\ Done
  BY DEF Inv, TypeOK, ControlType
<1>1. TypeOK'
  <2>1. ControlType'
    BY <1>0, PlanStep DEF Inv, TypeOK, ControlType
  <2>2. DataType'
    BY DataSame DEF Inv, TypeOK, dataVars
  <2> QED
    BY <2>1, <2>2 DEF TypeOK
<1>2. HandInv'
  <2>1. todo \notin AfterJoin /\ todo' \in AfterJoin => Head(todo) = "join"
    BY <1>0, PlanStep
  <2>2. todo' \in Quieting => todo \in Quieting
    BY <1>0, PlanStep
  <2>3. Head(todo) \in {"STARTED", "PAUSED", "STOPPED"} => todo' = <<>>
    BY <1>0, PlanStep
  <2>4. Head(todo) = "STOPPED" => todo \in AfterJoin
    BY <1>0, PlanStep
  <2>5. <<>> \notin Quieting /\ <<>> \notin AfterJoin
    BY Heads DEF Quieting, AfterJoin
  <2> QED
    BY <1>0, <2>1, <2>2, <2>3, <2>4, <2>5 DEF Inv, HandInv
<1>3. CountInv'
  BY DEF Inv, CountInv
<1>4. OrderInv'
  BY OrderSame DEF Inv, lineVars
<1> QED
  BY <1>1, <1>2, <1>3, <1>4 DEF Inv

-----------------------------------------------------------------------------
(* The queue of frames.                                                    *)

LEMMA FrameTaken ==
  ASSUME NEW q \in Seq(FrameBuffers), q # <<>>
  PROVE  /\ Head(q) \in FrameBuffers /\ Tail(q) \in Seq(FrameBuffers)
         /\ Bufs(q) = Bufs(Tail(q)) \cup {Head(q).buf}
         /\ Vals(NumbersOf(q)) = Vals(NumbersOf(Tail(q))) \cup {Number(Head(q))}
         /\ Sorted(NumbersOf(q)) => /\ Sorted(NumbersOf(Tail(q)))
                                    /\ \A n \in Vals(NumbersOf(Tail(q))) : Before(Number(Head(q)), n)
<1>1. /\ NumbersOf(q) \in Seq(Nat) /\ NumbersOf(q) # <<>>
      /\ Head(NumbersOf(q)) = Number(Head(q)) /\ NumbersOf(Tail(q)) = Tail(NumbersOf(q))
  BY NumbersSame, NumbersTaken
<1>2. Head(q) \in FrameBuffers /\ Tail(q) \in Seq(FrameBuffers) /\ Vals(q) = Vals(Tail(q)) \cup {Head(q)}
  BY Taken
<1>3. \A r : Bufs(r) = {f.buf : f \in Vals(r)}
  BY DEF Bufs, Vals
<1>4. Bufs(q) = Bufs(Tail(q)) \cup {Head(q).buf}
  BY <1>2, <1>3
<1> DEFINE a == NumbersOf(q)
<1> HIDE DEF a
<1>5. /\ Vals(a) = Vals(Tail(a)) \cup {Head(a)}
      /\ Sorted(a) => Sorted(Tail(a)) /\ \A n \in Vals(Tail(a)) : Before(Head(a), n)
  BY <1>1, Taken DEF a
<1> QED
  BY <1>1, <1>2, <1>4, <1>5 DEF a

LEMMA FrameGiven ==
  ASSUME DataType, output # None, NEW n \in Nat \ {0}, NEW k \in {"data", "end", "empty"}, GiveFrame(n, k)
  PROVE  LET num == IF k = "empty" THEN None ELSE n IN
         /\ frmQ' \in Seq(FrameBuffers) /\ ready' \subseteq Frames /\ output' = None
         /\ Bufs(frmQ') = Bufs(frmQ) \cup {output}
         /\ Vals(NumbersOf(frmQ')) = Vals(NumbersOf(frmQ)) \cup {num}
         /\ Sorted(NumbersOf(frmQ)) /\ (\A m \in Vals(NumbersOf(frmQ)) : Before(m, num))
               => Sorted(NumbersOf(frmQ'))
<1> DEFINE f == Frame(output, n, k)
           num == IF k = "empty" THEN None ELSE n
           a == NumbersOf(frmQ)
<1>1. f \in FrameBuffers /\ f.buf = output /\ Number(f) = num /\ num \in Nat
  BY DEF Frame, FrameBuffers, Number, DataType
<1>2. /\ frmQ \in Seq(FrameBuffers) /\ frmQ' = Append(frmQ, f)
      /\ ready' \subseteq Frames /\ output' = None
  BY DEF GiveFrame, DataType
<1> HIDE DEF f
<1>3. frmQ' \in Seq(FrameBuffers) /\ Vals(frmQ') = Vals(frmQ) \cup {f}
  BY <1>1, <1>2, Added
<1>4. \A r : Bufs(r) = {x.buf : x \in Vals(r)}
  BY DEF Bufs, Vals
<1>5. Bufs(frmQ') = Bufs(frmQ) \cup {output}
  BY <1>1, <1>3, <1>4
<1>6. a \in Seq(Nat) /\ NumbersOf(frmQ') = Append(a, num)
  BY <1>1, <1>2, NumbersSame, NumbersAdded
<1> HIDE DEF a, num
<1>7. /\ Vals(Append(a, num)) = Vals(a) \cup {num}
      /\ Sorted(a) /\ (\A m \in Vals(a) : Before(m, num)) => Sorted(Append(a, num))
  BY <1>1, <1>6, Added
<1>8. /\ Vals(NumbersOf(frmQ')) = Vals(a) \cup {num}
      /\ Sorted(a) /\ (\A m \in Vals(a) : Before(m, num)) => Sorted(NumbersOf(frmQ'))
  BY <1>6, <1>7
<1> QED
  BY <1>2, <1>3, <1>5, <1>8 DEF a, num

-----------------------------------------------------------------------------
(* The flush.                                                              *)

LEMMA FlushPacketsInv ==
  ASSUME Inv, OnFlushPackets
  PROVE  Inv'
<1> USE DEF OnFlushPackets, Doing, taskVars, linkVars, obsVars
<1>0. todo \in Plans /\ todo # <<>> /\ Head(todo) = "flush" /\ pktQ \in Seq(Nat \ {0})
  BY DEF Inv, TypeOK, ControlType, DataType
<1>1. CASE pktQ = <<>>
  <2> USE <1>1
  <2>0. Done /\ UNCHANGED lineVars /\ UNCHANGED dataVars
    BY DEF lineVars, dataVars
  <2>1. ControlType'
    BY <1>0, <2>0, PlanStep DEF Inv, TypeOK, ControlType
  <2>2. DataType'
    BY <2>0, DataSame DEF Inv, TypeOK
  <2>3. HandInv'
    <3>1. todo \notin AfterJoin => todo' \notin AfterJoin
      BY <1>0, <2>0, PlanStep
    <3>2. todo' \in Quieting => todo \in Quieting
      BY <1>0, <2>0, PlanStep
    <3> QED
      BY <1>0, <3>1, <3>2 DEF Inv, HandInv
  <2>4. CountInv'
    BY <2>0 DEF Inv, CountInv, dataVars
  <2>5. OrderInv'
    BY <2>0, OrderSame DEF Inv
  <2> QED
    BY <2>1, <2>2, <2>3, <2>4, <2>5 DEF Inv, TypeOK
<1>2. CASE pktQ # <<>>
  <2> DEFINE e == Head(pktQ)
  <2>0. /\ pktQ' = Tail(pktQ) /\ freeP' = freeP + 1 /\ todo' = todo /\ started' = FALSE
        /\ UNCHANGED <<stream, running, loopState, phase, frmQ, freeF, ready, tpc, input, output, codec,
                       drain, eosFlag, dpc, sunk, pushed, pulled, mark, stale>>
    BY <1>2
  <2>1. /\ e \in Vals(pktQ) /\ pktQ' \in Seq(Nat \ {0}) /\ Len(pktQ') = Len(pktQ) - 1
        /\ Vals(pktQ) = Vals(pktQ') \cup {e}
        /\ Sorted(pktQ) => Sorted(Tail(pktQ)) /\ \A n \in Vals(pktQ') : Before(e, n)
    BY <1>0, <1>2, <2>0, Taken
  <2> HIDE DEF e
  <2>2. TypeOK'
    <3>1. ControlType'
      BY <2>0 DEF Inv, TypeOK, ControlType
    <3>2. freeP' \in Int
      BY <2>0 DEF Inv, TypeOK, DataType
    <3>3. DataType'
      BY <2>0, <2>1, <3>2 DEF Inv, TypeOK, DataType
    <3> QED
      BY <3>1, <3>3 DEF TypeOK
  <2>3. HandInv'
    BY <2>0 DEF Inv, HandInv
  <2>4. CountInv'
    <3>1. Len(pktQ) \in Nat /\ freeP \in Int
      BY <1>0 DEF Inv, TypeOK, DataType
    <3> QED
      BY <2>0, <2>1, <3>1 DEF Inv, CountInv
  <2>5. OrderInv'
    <3>1. \A k \in 1..6 : \A n \in Place(k)' : n \in Place(k)
      BY <2>0, <2>1 DEF Place
    <3>2. e \in Place(6)
      BY <2>1 DEF Place
    <3>3. Apart' /\ (\A k \in 1..6 : \A n \in Place(k) : n \in 0..pushed)'
      <4>1. OrderInv /\ pushed \in Nat /\ stream' = stream /\ pushed' = pushed
        BY <2>0 DEF Inv, TypeOK, DataType
      <4> QED
        BY <3>1, <3>2, <4>1, Moved
    <3>4. (Sorted(NumbersOf(frmQ)) /\ Sorted(codec) /\ Sorted(pktQ))'
      BY <2>0, <2>1, BeforeSame DEF Inv, OrderInv
    <3> QED
      BY <3>3, <3>4 DEF OrderInv
  <2> QED
    BY <2>2, <2>3, <2>4, <2>5 DEF Inv
<1> QED
  BY <1>1, <1>2

LEMMA FlushFramesInv ==
  ASSUME Inv, OnFlushFrames
  PROVE  Inv'
<1> USE DEF OnFlushFrames, Doing, taskVars, linkVars, obsVars
<1>0. todo \in Plans /\ todo # <<>> /\ Head(todo) = "frames" /\ frmQ \in Seq(FrameBuffers)
  BY DEF Inv, TypeOK, ControlType, DataType
<1>1. CASE frmQ = <<>>
  <2> USE <1>1
  <2>0. Done /\ UNCHANGED lineVars /\ mark' = pushed /\ stale' = 0
    BY DEF lineVars
  <2>1. ControlType'
    BY <1>0, <2>0, PlanStep DEF Inv, TypeOK, ControlType
  <2>2. DataType'
    BY <2>0 DEF Inv, TypeOK, DataType
  <2>3. HandInv'
    <3>1. todo \notin AfterJoin => todo' \notin AfterJoin
      BY <1>0, <2>0, PlanStep
    <3>2. todo' \in Quieting => todo \in Quieting
      BY <1>0, <2>0, PlanStep
    <3> QED
      BY <1>0, <3>1, <3>2 DEF Inv, HandInv
  <2>4. CountInv'
    BY <2>0 DEF Inv, CountInv
  <2>5. OrderInv'
    BY <2>0, OrderSame DEF Inv
  <2> QED
    BY <2>1, <2>2, <2>3, <2>4, <2>5 DEF Inv, TypeOK
<1>2. CASE frmQ # <<>>
  <2> DEFINE f == Head(frmQ)
  <2>0. /\ frmQ' = Tail(frmQ) /\ freeF' = freeF \cup {f.buf} /\ todo' = todo
        /\ UNCHANGED <<stream, started, running, loopState, phase, pktQ, freeP, ready, tpc, input, output, codec,
                       drain, eosFlag, dpc, sunk, pushed, pulled, mark, stale>>
    BY <1>2
  <2>1. /\ f \in FrameBuffers /\ frmQ' \in Seq(FrameBuffers)
        /\ Bufs(frmQ) = Bufs(frmQ') \cup {f.buf}
        /\ Vals(NumbersOf(frmQ)) = Vals(NumbersOf(frmQ')) \cup {Number(f)}
        /\ Sorted(NumbersOf(frmQ)) =>
              Sorted(NumbersOf(Tail(frmQ))) /\ \A n \in Vals(NumbersOf(frmQ')) : Before(Number(f), n)
    BY <1>0, <1>2, <2>0, FrameTaken
  <2> HIDE DEF f
  <2>2. TypeOK'
    <3>1. ControlType'
      BY <2>0 DEF Inv, TypeOK, ControlType
    <3>2. f.buf \in Frames
      BY <2>1 DEF FrameBuffers
    <3>3. DataType'
      BY <2>0, <2>1, <3>2 DEF Inv, TypeOK, DataType
    <3> QED
      BY <3>1, <3>3 DEF TypeOK
  <2>3. HandInv'
    BY <2>0 DEF Inv, HandInv
  <2>4. CountInv'
    BY <2>0, <2>1 DEF Inv, CountInv
  <2>5. OrderInv'
    <3>1. \A k \in 1..6 : \A n \in Place(k)' : n \in Place(k)
      BY <2>0, <2>1 DEF Place
    <3>2. Number(f) \in Place(2)
      BY <2>1 DEF Place
    <3>3. Apart' /\ (\A k \in 1..6 : \A n \in Place(k) : n \in 0..pushed)'
      <4>1. OrderInv /\ pushed \in Nat /\ stream' = stream /\ pushed' = pushed
        BY <2>0 DEF Inv, TypeOK, DataType
      <4> QED
        BY <3>1, <3>2, <4>1, Moved
    <3>4. (Sorted(NumbersOf(frmQ)) /\ Sorted(codec) /\ Sorted(pktQ))'
      BY <2>0, <2>1, BeforeSame DEF Inv, OrderInv
    <3> QED
      BY <3>3, <3>4 DEF OrderInv
  <2> QED
    BY <2>2, <2>3, <2>4, <2>5 DEF Inv
<1> QED
  BY <1>1, <1>2

-----------------------------------------------------------------------------
(* The thread, where it moves nothing, ...                                 *)

LEMMA QuietInv ==
  ASSUME Inv, Born \/ SetLoop \/ Check \/ ReceiveAgain \/ DeliverTop \/ NoPacket
  PROVE  Inv'
<1>0. /\ UNCHANGED lineVars /\ UNCHANGED dataVars
      /\ UNCHANGED <<started, running, todo, phase, stream>>
      /\ loopState' \in {loopState, "LOOP"}
  BY DEF Born, SetLoop, Check, ReceiveAgain, DeliverTop, NoPacket, lineVars, dataVars,
         ctlVars, pools, taskVars, linkVars, obsVars
<1> USE DEF Born, SetLoop, Check, ReceiveAgain, DeliverTop, NoPacket, taskVars, linkVars
<1>1. ControlType'
  BY <1>0 DEF Inv, TypeOK, ControlType
<1>2. DataType'
  BY <1>0, DataSame DEF Inv, TypeOK
<1>3. HandInv'
  BY <1>0 DEF Inv, HandInv, dataVars
<1>4. CountInv'
  BY <1>0 DEF Inv, CountInv, dataVars
<1>5. OrderInv'
  BY <1>0, OrderSame DEF Inv
<1> QED
  BY <1>1, <1>2, <1>3, <1>4, <1>5 DEF Inv, TypeOK

(* ... where it gives up its input, ...                                    *)
LEMMA LeaveInv ==
  ASSUME Inv, Top \/ Exit
  PROVE  Inv'
<1> USE DEF Top, Exit, ctlVars, linkVars, obsVars
<1>0. /\ UNCHANGED <<stream, started, running, loopState, todo, phase, pktQ, frmQ, ready, dpc, sunk,
                     pushed, pulled, mark, stale, codec, drain, eosFlag>>
      /\ \/ input' = None /\ freeP' = freeP + (IF input = None THEN 0 ELSE 1)
         \/ input' = input /\ freeP' = freeP
      /\ \/ output' = output /\ freeF' = freeF
         \/ output' = None /\ freeF' = freeF \cup ({output} \ {None})
      /\ tpc' \in {"top", "take", "exit", "dead"}
      /\ tpc' = "dead" => input' = None /\ output' = None
      /\ tpc # "dead"
  OBVIOUS
<1>1. ControlType'
  BY <1>0 DEF Inv, TypeOK, ControlType
<1>2. DataType'
  <2>1. freeP' \in Int /\ input' \in Nat /\ output' \in Frames \cup {None} /\ freeF' \subseteq Frames
    BY <1>0 DEF Inv, TypeOK, DataType
  <2> QED
    BY <1>0, <2>1 DEF Inv, TypeOK, DataType
<1>3. HandInv'
  BY <1>0 DEF Inv, HandInv
<1>4. CountInv'
  <2>1. Len(pktQ) \in Nat /\ freeP \in Int
    BY DEF Inv, TypeOK, DataType
  <2>2. 0 \notin Frames
    BY DEF Frames
  <2> QED
    BY <1>0, <2>1, <2>2 DEF Inv, CountInv
<1>5. OrderInv'
  <2>1. \A k \in 1..6 : \A n \in Place(k)' : n = None \/ n \in Place(k)
    BY <1>0 DEF Place
  <2>2. input \in Place(5)
    BY DEF Place
  <2>3. OrderInv /\ pushed \in Nat /\ stream' = stream /\ pushed' = pushed
    BY <1>0 DEF Inv, TypeOK, DataType
  <2>4. Apart' /\ (\A k \in 1..6 : \A n \in Place(k) : n \in 0..pushed)'
    BY <2>1, <2>2, <2>3, Moved
  <2>5. (Sorted(NumbersOf(frmQ)) /\ Sorted(codec) /\ Sorted(pktQ))'
    BY <1>0, BeforeSame DEF Inv, OrderInv
  <2> QED
    BY <2>4, <2>5 DEF OrderInv
<1> QED
  BY <1>1, <1>2, <1>3, <1>4, <1>5 DEF Inv, TypeOK

(* ... takes a packet, ...                                                 *)
LEMMA TakeInv ==
  ASSUME Inv, Take
  PROVE  Inv'
<1> USE DEF Take, ctlVars, pools, linkVars, obsVars
<1> DEFINE e == Head(pktQ)
<1>1. CASE input = None /\ pktQ # <<>>
  <2>0. /\ UNCHANGED <<stream, started, running, loopState, todo, phase, frmQ, freeP, freeF, ready, dpc,
                       sunk, pushed, pulled, mark, stale, output, codec, drain, eosFlag>>
        /\ input = None /\ input' = e /\ pktQ' = Tail(pktQ) /\ tpc = "take" /\ tpc' = "acquire"
        /\ pktQ \in Seq(Nat \ {0})
    BY <1>1 DEF Inv, TypeOK, DataType
  <2>1. /\ e \in Nat \ {0} /\ e \in Vals(pktQ) /\ pktQ' \in Seq(Nat \ {0}) /\ Len(pktQ') = Len(pktQ) - 1
        /\ Vals(pktQ) = Vals(pktQ') \cup {e}
        /\ Sorted(pktQ) => Sorted(Tail(pktQ)) /\ \A n \in Vals(pktQ') : Before(e, n)
    BY <1>1, <2>0, Taken
  <2> HIDE DEF e, Take
  <2>2. ControlType'
    BY <2>0 DEF Inv, TypeOK, ControlType
  <2>3. DataType'
    BY <2>0, <2>1 DEF Inv, TypeOK, DataType
  <2>4. HandInv'
    BY <2>0 DEF Inv, HandInv
  <2>5. CountInv'
    <3>1. Len(pktQ) \in Nat /\ freeP \in Int
      BY DEF Inv, TypeOK, DataType
    <3> QED
      BY <2>0, <2>1, <3>1 DEF Inv, CountInv
  <2>6. OrderInv'
    <3>1. \A k \in 1..6 : \A n \in Place(k)' : n \in Place(k) \/ (k = 5 /\ n = e)
      BY <2>0, <2>1 DEF Place
    <3>2. e \in Place(6) /\ \A n \in Place(6)' : Before(e, n)
      BY <2>0, <2>1 DEF Place, Inv, OrderInv
    <3>3. OrderInv /\ pushed \in Nat /\ stream' = stream /\ pushed' = pushed
      BY <2>0 DEF Inv, TypeOK, DataType
    <3>4. Apart' /\ (\A k \in 1..6 : \A n \in Place(k) : n \in 0..pushed)'
      <4>1. 5 \in 1..6 /\ 6 \in 5..6 /\ (5 + 1)..(6 - 1) = {}
        OBVIOUS
      <4> QED
        BY <3>1, <3>2, <3>3, <4>1, Moved
    <3>5. (Sorted(NumbersOf(frmQ)) /\ Sorted(codec) /\ Sorted(pktQ))'
      BY <2>0, <2>1, BeforeSame DEF Inv, OrderInv
    <3> QED
      BY <3>4, <3>5 DEF OrderInv
  <2> QED
    BY <2>2, <2>3, <2>4, <2>5, <2>6 DEF Inv, TypeOK
<1>2. CASE ~(input = None /\ pktQ # <<>>)
  <2>0. /\ UNCHANGED lineVars /\ UNCHANGED dataVars
        /\ UNCHANGED <<started, running, todo, phase, stream, loopState, dpc>> /\ tpc = "take" /\ tpc' = "acquire"
    BY <1>2 DEF lineVars, dataVars
  <2>1. ControlType'
    BY <2>0 DEF Inv, TypeOK, ControlType
  <2>2. DataType'
    BY <2>0, DataSame DEF Inv, TypeOK
  <2>3. HandInv'
    BY <2>0 DEF Inv, HandInv, dataVars
  <2>4. CountInv'
    BY <2>0 DEF Inv, CountInv, dataVars
  <2>5. OrderInv'
    BY <2>0, OrderSame DEF Inv
  <2> QED
    BY <2>1, <2>2, <2>3, <2>4, <2>5 DEF Inv, TypeOK
<1> QED
  BY <1>1, <1>2

(* ... and the buffers that move without a number.                         *)
LEMMA BuffersInv ==
  ASSUME Inv, AcquireFrame \/ AcquirePacket \/ ReleaseFrame
  PROVE  Inv'
<1> USE DEF AcquireFrame, AcquirePacket, ReleaseFrame, ctlVars, linkVars, obsVars, taskVars
<1>0. /\ UNCHANGED lineVars
      /\ UNCHANGED <<stream, started, running, loopState, todo, phase, frmQ, pktQ, input, codec, drain, eosFlag,
                     ready, mark, stale, pushed, pulled>>
  BY DEF lineVars
<1>1. ControlType'
  BY DEF Inv, TypeOK, ControlType
<1>2. DataType'
  <2>1. freeP' \in Int /\ output' \in Frames \cup {None} /\ freeF' \subseteq Frames /\ sunk' \subseteq Frames
    BY DEF Inv, TypeOK, DataType
  <2> QED
    BY <1>0, <2>1 DEF Inv, TypeOK, DataType
<1>3. HandInv'
  BY DEF Inv, HandInv
<1>4. CountInv'
  <2>1. Len(pktQ) \in Nat /\ freeP \in Int
    BY DEF Inv, TypeOK, DataType
  <2>2. Frames \subseteq (freeF \cup sunk \cup Bufs(frmQ) \cup {output})'
    <3>1. 0 \notin Frames
      BY DEF Frames
    <3> QED
      BY <1>0, <3>1 DEF Inv, CountInv
  <2> QED
    BY <1>0, <2>1, <2>2 DEF Inv, CountInv
<1>5. OrderInv'
  BY <1>0, OrderSame DEF Inv
<1> QED
  BY <1>1, <1>2, <1>3, <1>4, <1>5 DEF Inv, TypeOK
-----------------------------------------------------------------------------
(* The thread, where it gives a frame.                                     *)

LEMMA OrderGiven ==
  ASSUME Inv, output # None, NEW n \in Nat \ {0}, NEW k \in {"data", "end"}, GiveFrame(n, k),
         stream' = stream, pushed' = pushed, pulled' = pulled,
         NEW from \in 3..6, n \in Place(from),
         \A j \in 3..6 : \A m \in Place(j)' : m = None \/ m \in Place(j),
         \A j \in 3..(from - 1) : \A m \in Place(j)' : m = None,
         \A m \in Place(from)' : Before(n, m),
         (Sorted(codec) /\ Sorted(pktQ))'
  PROVE  OrderInv'
<1>0. OrderInv /\ DataType /\ pushed \in Nat
  BY DEF Inv, TypeOK, DataType
<1>1. /\ Vals(NumbersOf(frmQ')) = Vals(NumbersOf(frmQ)) \cup {n}
      /\ Sorted(NumbersOf(frmQ)) /\ (\A m \in Vals(NumbersOf(frmQ)) : Before(m, n))
            => Sorted(NumbersOf(frmQ'))
  BY <1>0, FrameGiven
<1>2. \A m \in Place(2) : Before(m, n)
  BY <1>0 DEF OrderInv, Apart
<1>3. Sorted(NumbersOf(frmQ))'
  <2>1. Sorted(NumbersOf(frmQ'))
    BY <1>0, <1>1, <1>2 DEF OrderInv, Place
  <2> QED
    BY <2>1, BeforeSame
<1>4. \A j \in 1..6 : \A m \in Place(j)' : m = None \/ m \in Place(j) \/ (j = 2 /\ m = n)
  <2>1. \A m \in Place(1)' : m \in Place(1)
    BY DEF Place
  <2>2. \A m \in Place(2)' : m \in Place(2) \/ m = n
    BY <1>1 DEF Place
  <2> QED
    BY <2>1, <2>2
<1>5. Apart' /\ (\A j \in 1..6 : \A m \in Place(j) : m \in 0..pushed)'
  <2>1. 2 \in 1..6 /\ from \in 2..6 /\ (2 + 1)..(from - 1) = 3..(from - 1)
    OBVIOUS
  <2> QED
    BY <1>0, <1>4, <2>1, Moved
<1> QED
  BY <1>3, <1>5 DEF OrderInv

LEMMA GivenInv ==
  ASSUME Inv, output # None, NEW n \in Nat \ {0}, NEW k \in {"data", "end", "empty"}, GiveFrame(n, k),
         UNCHANGED <<stream, started, ctlVars, pktQ, freeF, linkVars, obsVars>>,
         tpc # "dead", tpc' = "top",
         codec' \in Seq(Nat \ {0}), drain' \in Nat, eosFlag' \in BOOLEAN,
         stream.bypass => codec' = <<>> /\ drain' = None,
         \/ input' = input /\ freeP' = freeP
         \/ input # None /\ input' = None /\ freeP' = freeP + 1,
         OrderInv'
  PROVE  Inv'
<1> USE DEF ctlVars, linkVars, obsVars
<1>0. /\ frmQ' \in Seq(FrameBuffers) /\ ready' \subseteq Frames /\ output' = None
      /\ Bufs(frmQ') = Bufs(frmQ) \cup {output}
  BY FrameGiven DEF Inv, TypeOK
<1>1. ControlType'
  BY DEF Inv, TypeOK, ControlType
<1>2. DataType'
  <2>1. freeP' \in Int /\ input' \in Nat
    BY DEF Inv, TypeOK, DataType
  <2> QED
    BY <1>0, <2>1 DEF Inv, TypeOK, DataType
<1>3. HandInv'
  BY DEF Inv, HandInv
<1>4. CountInv'
  <2>1. Len(pktQ) \in Nat /\ freeP \in Int
    BY DEF Inv, TypeOK, DataType
  <2>2. Frames \subseteq (freeF \cup sunk \cup Bufs(frmQ) \cup {output})'
    BY <1>0 DEF Inv, CountInv
  <2> QED
    BY <2>1, <2>2 DEF Inv, CountInv
<1> QED
  BY <1>1, <1>2, <1>3, <1>4 DEF Inv, TypeOK

LEMMA CopyInv ==
  ASSUME Inv, Copy
  PROVE  Inv'
<1> USE DEF Copy, ctlVars, linkVars, obsVars
<1>0. PICK k \in {"data", "end"} : GiveFrame(input, k)
  OBVIOUS
<1>1. /\ output # None /\ input # None /\ input \in Nat /\ codec = <<>> /\ drain = None /\ tpc = "copy"
      /\ codec \in Seq(Nat \ {0})
  BY DEF Inv, HandInv, TypeOK, DataType
<1>2. OrderInv'
  <2>1. /\ \A j \in 3..6 : \A m \in Place(j)' : m = None \/ m \in Place(j)
        /\ \A j \in 3..4 : \A m \in Place(j)' : m = None
        /\ input \in Place(5) /\ \A m \in Place(5)' : Before(input, m)
    BY <1>1 DEF Place, Vals, Before
  <2>2. (Sorted(codec) /\ Sorted(pktQ))'
    BY BeforeSame DEF Inv, OrderInv
  <2>3. 5 \in 3..6 /\ 3..(5 - 1) = 3..4 /\ stream' = stream /\ pushed' = pushed /\ pulled' = pulled
    OBVIOUS
  <2> QED
    BY <1>0, <1>1, <2>1, <2>2, <2>3, OrderGiven
<1> QED
  <2>1. /\ UNCHANGED <<stream, started, ctlVars, pktQ, freeF, linkVars, obsVars>>
        /\ tpc # "dead" /\ tpc' = "top"
        /\ codec' \in Seq(Nat \ {0}) /\ drain' \in Nat /\ eosFlag' \in BOOLEAN
        /\ (stream.bypass => codec' = <<>> /\ drain' = None)
        /\ (input # None /\ input' = None /\ freeP' = freeP + 1)
    BY <1>1 DEF Inv, TypeOK, DataType
  <2> QED
    BY <1>0, <1>1, <1>2, <2>1, GivenInv

(* A frame of the codec, or its end.                                       *)
LEMMA ReceivedInv ==
  ASSUME Inv, tpc = "receive", tpc' = "top", eosFlag' \in BOOLEAN,
         \/ /\ HasFrame(codec) /\ codec' = Tail(codec)
            /\ GiveFrame(Head(codec), "data") /\ UNCHANGED drain
         \/ /\ ~HasFrame(codec) /\ drain # None /\ drain' = None
            /\ GiveFrame(drain, "end") /\ UNCHANGED codec,
         UNCHANGED <<stream, started, ctlVars, pktQ, freeP, freeF, linkVars, obsVars, input>>
  PROVE  Inv'
<1> USE DEF ctlVars, linkVars, obsVars
<1>0. /\ output # None /\ input = None /\ ~stream.bypass /\ codec \in Seq(Nat \ {0}) /\ drain \in Nat
      /\ Len(codec) \in Nat
  BY DEF Inv, HandInv, TypeOK, DataType
<1>1. /\ stream' = stream /\ pushed' = pushed /\ pulled' = pulled
      /\ UNCHANGED <<stream, started, ctlVars, pktQ, freeF, linkVars, obsVars>>
      /\ input' = input /\ freeP' = freeP /\ tpc # "dead"
  OBVIOUS
<1>2. CASE HasFrame(codec) /\ codec' = Tail(codec) /\ GiveFrame(Head(codec), "data") /\ UNCHANGED drain
  <2> DEFINE e == Head(codec)
  <2>1. codec # <<>>
    <3>1. stream.delay \in Nat
      BY DEF Inv, TypeOK, DataType
    <3>2. Len(codec) > 0
      BY <1>0, <1>2, <3>1 DEF HasFrame
    <3> QED
      BY <1>0, <3>2
  <2>2. /\ e \in Nat \ {0} /\ e \in Vals(codec) /\ codec' \in Seq(Nat \ {0})
        /\ Vals(codec) = Vals(codec') \cup {e}
        /\ Sorted(codec) => Sorted(Tail(codec)) /\ \A n \in Vals(codec') : Before(e, n)
    BY <1>0, <1>2, <2>1, Taken
  <2>3. GiveFrame(e, "data") /\ codec' = Tail(codec) /\ drain' = drain
    BY <1>2
  <2> HIDE DEF e
  <2>4. OrderInv'
    <3>1. /\ \A j \in 3..6 : \A m \in Place(j)' : m = None \/ m \in Place(j)
          /\ e \in Place(3)
      BY <1>1, <2>2, <2>3 DEF Place
    <3>2. \A m \in Place(3)' : Before(e, m)
      BY <2>2 DEF Place, Inv, OrderInv
    <3>3. (Sorted(codec) /\ Sorted(pktQ))'
      BY <1>1, <2>2, <2>3, BeforeSame DEF Inv, OrderInv
    <3>4. 3 \in 3..6 /\ 3..(3 - 1) = {} /\ e \in Nat \ {0}
      BY <2>2
    <3> QED
      BY <1>0, <1>1, <2>3, <3>1, <3>2, <3>3, <3>4, OrderGiven
  <2> QED
    BY <1>0, <1>1, <2>2, <2>3, <2>4, GivenInv
<1>3. CASE ~HasFrame(codec) /\ drain # None /\ drain' = None /\ GiveFrame(drain, "end") /\ UNCHANGED codec
  <2>1. codec = <<>>
    BY <1>0, <1>3 DEF HasFrame
  <2>2. OrderInv'
    <3>1. /\ \A j \in 3..6 : \A m \in Place(j)' : m = None \/ m \in Place(j)
          /\ \A j \in 3..3 : \A m \in Place(j)' : m = None
          /\ drain \in Place(4) /\ \A m \in Place(4)' : Before(drain, m)
      BY <1>1, <1>3, <2>1 DEF Place, Vals, Before
    <3>2. (Sorted(codec) /\ Sorted(pktQ))'
      BY <1>1, <1>3, BeforeSame DEF Inv, OrderInv
    <3>3. 4 \in 3..6 /\ 3..(4 - 1) = 3..3
      OBVIOUS
    <3> QED
      BY <1>0, <1>1, <1>3, <3>1, <3>2, <3>3, OrderGiven
  <2> QED
    BY <1>0, <1>1, <1>3, <2>2, GivenInv
<1> QED
  BY <1>2, <1>3
LEMMA ReceiveInv ==
  ASSUME Inv, ReceiveVideo \/ ReceiveAudio \/ ReceiveAudioEnd
  PROVE  Inv'
<1> USE DEF ctlVars, linkVars, obsVars
<1>0. (eosFlag \in BOOLEAN /\ output # None) \/ tpc # "receive"
  BY DEF Inv, TypeOK, DataType, HandInv
<1>1. CASE ReceiveVideo
  <2>1. /\ tpc = "receive" /\ tpc' = "top" /\ eosFlag' = eosFlag /\ eosFlag \in BOOLEAN
        /\ UNCHANGED <<stream, started, ctlVars, pktQ, freeP, freeF, linkVars, obsVars, input>>
        /\ \/ /\ HasFrame(codec) /\ codec' = Tail(codec)
              /\ GiveFrame(Head(codec), "data") /\ UNCHANGED drain
           \/ /\ ~HasFrame(codec) /\ drain # None /\ drain' = None
              /\ GiveFrame(drain, "end") /\ UNCHANGED codec
    BY <1>1 DEF ReceiveVideo, Inv, TypeOK, DataType
  <2> QED
    BY <2>1, ReceivedInv
<1>2. CASE ReceiveAudio
  <2>0. /\ tpc = "receive" /\ tpc' = "top" /\ HasFrame(codec) /\ codec' = Tail(codec) /\ drain' = drain
        /\ UNCHANGED <<stream, started, ctlVars, pktQ, freeP, freeF, linkVars, obsVars, input>>
    BY <1>2 DEF ReceiveAudio
  <2>1. CASE GiveFrame(Head(codec), "data") /\ eosFlag' = FALSE
    BY <2>0, <2>1, ReceivedInv
  <2>2. CASE UNCHANGED <<frmQ, ready, output, eosFlag>>
    <3> DEFINE e == Head(codec)
    <3>1. codec \in Seq(Nat \ {0}) /\ codec # <<>>
      <4>1. stream.delay \in Nat /\ codec \in Seq(Nat \ {0})
        BY DEF Inv, TypeOK, DataType
      <4>2. Len(codec) > 0
        BY <2>0, <4>1 DEF HasFrame
      <4> QED
        BY <4>1, <4>2
    <3>2. /\ e \in Vals(codec) /\ codec' \in Seq(Nat \ {0})
          /\ Vals(codec) = Vals(codec') \cup {e}
          /\ Sorted(codec) => Sorted(Tail(codec)) /\ \A n \in Vals(codec') : Before(e, n)
      BY <2>0, <3>1, Taken
    <3> HIDE DEF e
    <3>3. ControlType'
      BY <2>0 DEF Inv, TypeOK, ControlType
    <3>4. DataType'
      BY <2>0, <2>2, <3>2 DEF Inv, TypeOK, DataType
    <3>5. HandInv'
      BY <2>0, <2>2 DEF Inv, HandInv
    <3>6. CountInv'
      BY <2>0, <2>2 DEF Inv, CountInv
    <3>7. OrderInv'
      <4>1. \A k \in 1..6 : \A n \in Place(k)' : n \in Place(k)
        BY <2>0, <2>2, <3>2 DEF Place
      <4>2. e \in Place(3) /\ 3 \in 1..6 /\ 3 \in 3..6 /\ (3 + 1)..(3 - 1) = {}
        BY <3>2 DEF Place
      <4>3. OrderInv /\ pushed \in Nat /\ stream' = stream /\ pushed' = pushed
        BY <2>0 DEF Inv, TypeOK, DataType
      <4>4. Apart' /\ (\A k \in 1..6 : \A n \in Place(k) : n \in 0..pushed)'
        BY <4>1, <4>2, <4>3, Moved
      <4>5. (Sorted(NumbersOf(frmQ)) /\ Sorted(codec) /\ Sorted(pktQ))'
        BY <2>0, <2>2, <3>2, BeforeSame DEF Inv, OrderInv
      <4> QED
        BY <4>4, <4>5 DEF OrderInv
    <3> QED
      BY <3>3, <3>4, <3>5, <3>6, <3>7 DEF Inv, TypeOK
  <2> QED
    BY <1>2, <2>1, <2>2 DEF ReceiveAudio
<1>3. CASE ReceiveAudioEnd
  <2>0. /\ tpc = "receive" /\ tpc' = "top" /\ ~HasFrame(codec) /\ drain # None /\ codec' = codec
        /\ UNCHANGED <<stream, started, ctlVars, pktQ, freeP, freeF, linkVars, obsVars, input>>
        /\ output # None /\ eosFlag \in BOOLEAN
    BY <1>0, <1>3 DEF ReceiveAudioEnd
  <2>1. CASE ~eosFlag
    <3>1. GiveFrame(drain, "end") /\ drain' = None /\ eosFlag' \in BOOLEAN
      BY <1>3, <2>1 DEF ReceiveAudioEnd
    <3> QED
      BY <2>0, <3>1, ReceivedInv
  <2>2. CASE eosFlag /\ output \in ready
    <3>1. GiveFrame(drain, "empty") /\ drain' = drain /\ eosFlag' = eosFlag
      BY <1>3, <2>2 DEF ReceiveAudioEnd
    <3>2. /\ drain \in Nat /\ codec \in Seq(Nat \ {0}) /\ ~stream.bypass /\ DataType /\ OrderInv
          /\ pushed \in Nat /\ pushed' = pushed /\ stream' = stream
      BY <2>0 DEF Inv, TypeOK, DataType, HandInv
    <3>3. OrderInv'
      <4>1. /\ Vals(NumbersOf(frmQ')) = Vals(NumbersOf(frmQ)) \cup {None}
            /\ Sorted(NumbersOf(frmQ)) /\ (\A m \in Vals(NumbersOf(frmQ)) : Before(m, None))
                  => Sorted(NumbersOf(frmQ'))
        BY <2>0, <3>1, <3>2, FrameGiven
      <4>2. \A k \in 1..6 : \A n \in Place(k)' : n = None \/ n \in Place(k)
        <5>1. \A n \in Place(2)' : n = None \/ n \in Place(2)
          BY <4>1 DEF Place
        <5>2. \A k \in {1, 3, 4, 5, 6} : \A n \in Place(k)' : n \in Place(k)
          BY <2>0, <3>1 DEF Place
        <5> QED
          BY <5>1, <5>2
      <4>3. pulled \in Place(1) /\ 1 \in 1..6 /\ (1 + 1)..(1 - 1) = {}
        BY DEF Place
      <4>4. Apart' /\ (\A k \in 1..6 : \A n \in Place(k) : n \in 0..pushed)'
        BY <3>2, <4>2, <4>3, Moved
      <4>5. Sorted(NumbersOf(frmQ'))
        BY <3>2, <4>1 DEF OrderInv, Before
      <4>6. (Sorted(NumbersOf(frmQ)) /\ Sorted(codec) /\ Sorted(pktQ))'
        BY <2>0, <3>2, <4>5, BeforeSame DEF OrderInv
      <4> QED
        BY <4>4, <4>6 DEF OrderInv
    <3> QED
      BY <2>0, <3>1, <3>2, <3>3, GivenInv
  <2>3. CASE eosFlag /\ output \notin ready
    <3>1. UNCHANGED lineVars /\ UNCHANGED dataVars
      BY <1>3, <2>0, <2>3 DEF ReceiveAudioEnd, lineVars, dataVars
    <3>2. ControlType'
      BY <2>0 DEF Inv, TypeOK, ControlType
    <3>3. DataType'
      BY <3>1, DataSame DEF Inv, TypeOK
    <3>4. HandInv'
      BY <2>0, <3>1 DEF Inv, HandInv, dataVars
    <3>5. CountInv'
      BY <2>0, <3>1 DEF Inv, CountInv, dataVars
    <3>6. OrderInv'
      BY <3>1, OrderSame DEF Inv
    <3> QED
      BY <3>2, <3>3, <3>4, <3>5, <3>6 DEF Inv, TypeOK
  <2> QED
    BY <2>0, <2>1, <2>2, <2>3
<1> QED
  BY <1>1, <1>2, <1>3

(* The thread hands its packet to the codec.                               *)
LEMMA SendPacketInv ==
  ASSUME Inv, Send
  PROVE  Inv'
<1> USE DEF ctlVars, linkVars, obsVars
<1>0. /\ tpc = "send" /\ input \in Nat \ {0} /\ output # None /\ ~stream.bypass
      /\ codec \in Seq(Nat \ {0}) /\ drain \in Nat /\ freeP \in Int /\ Len(pktQ) \in Nat /\ pushed \in Nat
      /\ OrderInv
      /\ UNCHANGED <<stream, started, ctlVars, pktQ, frmQ, freeF, ready, linkVars, obsVars, output, eosFlag>>
  BY DEF Send, Inv, HandInv, TypeOK, DataType
<1>1. CASE Refuses
  <2>1. tpc' = "top" /\ UNCHANGED lineVars /\ UNCHANGED dataVars
    BY <1>0, <1>1 DEF Send, lineVars, dataVars
  <2>2. ControlType'
    BY <1>0, <2>1 DEF Inv, TypeOK, ControlType
  <2>3. DataType'
    BY <2>1, DataSame DEF Inv, TypeOK
  <2>4. HandInv'
    BY <1>0, <2>1 DEF Inv, HandInv, dataVars
  <2>5. CountInv'
    BY <1>0, <2>1 DEF Inv, CountInv, dataVars
  <2>6. OrderInv'
    BY <2>1, OrderSame DEF Inv
  <2> QED
    BY <2>2, <2>3, <2>4, <2>5, <2>6 DEF Inv, TypeOK
<1>2. CASE ~Refuses
  <2>1. Accept(input) /\ tpc' = "receive" /\ input' = None /\ freeP' = freeP + 1
    BY <1>2 DEF Send
  <2>2. /\ codec' \in Seq(Nat \ {0}) /\ drain' \in Nat
        /\ \/ codec' = codec /\ drain' = drain
           \/ codec' = codec /\ drain = None /\ drain' = input
           \/ drain = None /\ drain' = None /\ Sorted(codec') /\ Vals(codec') = Vals(codec) \cup {input}
    <3>1. CASE drain # None
      BY <1>0, <2>1, <3>1 DEF Accept
    <3>2. CASE drain = None /\ input \in stream.ends
      BY <1>0, <2>1, <3>2 DEF Accept
    <3>3. CASE drain = None /\ input \notin stream.ends
      <4> DEFINE one == Append(codec, input)
      <4>0. \A m \in Vals(codec) : Before(m, input)
        <5>1. 3 < 5 /\ 3 \in 1..6 /\ 5 \in 1..6 /\ input \in Place(5) /\ Place(3) = Vals(codec)
          BY DEF Place
        <5> QED
          BY <1>0, <5>1 DEF OrderInv, Apart
      <4>1. one \in Seq(Nat \ {0}) /\ Vals(one) = Vals(codec) \cup {input} /\ Sorted(one)
        BY <1>0, <4>0, Added DEF OrderInv
      <4>2. CASE input \notin stream.rich
        <5>1. codec' = one /\ drain' = drain
          <6>1. codec' = codec \o <<input>> /\ drain' = drain
            BY <2>1, <3>3, <4>2 DEF Accept
          <6> QED
            BY <1>0, <6>1
        <5> QED
          BY <3>3, <4>1, <5>1
      <4>3. CASE input \in stream.rich
        <5>1. codec' = Append(one, input) /\ drain' = drain
          <6>1. codec' = codec \o <<input, input>> /\ drain' = drain
            BY <2>1, <3>3, <4>3 DEF Accept
          <6> QED
            BY <1>0, <6>1
        <5> HIDE DEF one
        <5>2. \A m \in Vals(one) : Before(m, input)
          BY <4>0, <4>1, <4>3 DEF Before
        <5>3. /\ Append(one, input) \in Seq(Nat \ {0}) /\ Vals(Append(one, input)) = Vals(one) \cup {input}
              /\ Sorted(Append(one, input))
          BY <1>0, <4>1, <5>2, Added, SMTT(60)
        <5>4. Vals(codec') = Vals(codec) \cup {input} /\ codec' \in Seq(Nat \ {0}) /\ Sorted(codec')
          BY <4>1, <5>1, <5>3
        <5> QED
          BY <3>3, <5>1, <5>4
      <4> QED
        BY <4>2, <4>3
    <3> QED
      BY <3>1, <3>2, <3>3
  <2>3. ControlType'
    BY <1>0, <2>1 DEF Inv, TypeOK, ControlType
  <2>4. DataType'
    <3>1. freeP' \in Int /\ input' \in Nat
      BY <1>0, <2>1
    <3> QED
      BY <1>0, <2>2, <3>1 DEF Inv, TypeOK, DataType
  <2>5. HandInv'
    BY <1>0, <2>1, <2>2 DEF Inv, HandInv
  <2>6. CountInv'
    BY <1>0, <2>1 DEF Inv, CountInv
  <2>7. OrderInv'
    <3>1. input \in Place(5) /\ stream' = stream /\ pushed' = pushed
      BY <1>0 DEF Place
    <3>2. Apart' /\ (\A k \in 1..6 : \A n \in Place(k) : n \in 0..pushed)'
      <4>1. CASE codec' = codec /\ drain' = drain
        <5>1. \A k \in 1..6 : \A n \in Place(k)' : n = None \/ n \in Place(k)
          BY <1>0, <2>1, <4>1 DEF Place
        <5>2. 5 \in 1..6 /\ 5 \in 5..6 /\ (5 + 1)..(5 - 1) = {}
          OBVIOUS
        <5> QED
          BY <1>0, <3>1, <5>1, <5>2, Moved
      <4>2. CASE codec' = codec /\ drain = None /\ drain' = input
        <5>1. /\ \A k \in 1..6 : \A n \in Place(k)' : n = None \/ n \in Place(k) \/ (k = 4 /\ n = input)
              /\ \A n \in Place(5)' : Before(input, n)
          BY <1>0, <2>1, <4>2 DEF Place, Before
        <5>2. 4 \in 1..6 /\ 5 \in 4..6 /\ (4 + 1)..(5 - 1) = {}
          OBVIOUS
        <5> QED
          BY <1>0, <3>1, <5>1, <5>2, Moved
      <4>3. CASE drain = None /\ drain' = None /\ Vals(codec') = Vals(codec) \cup {input}
        <5>1. /\ \A k \in 1..6 : \A n \in Place(k)' : n = None \/ n \in Place(k) \/ (k = 3 /\ n = input)
              /\ \A n \in Place(5)' : Before(input, n)
              /\ \A k \in 4..4 : \A n \in Place(k)' : n = None
          BY <1>0, <2>1, <4>3 DEF Place, Before
        <5>2. 3 \in 1..6 /\ 5 \in 3..6 /\ (3 + 1)..(5 - 1) = 4..4
          OBVIOUS
        <5> QED
          BY <1>0, <3>1, <5>1, <5>2, Moved
      <4> QED
        BY <2>2, <4>1, <4>2, <4>3
    <3>3. (Sorted(NumbersOf(frmQ)) /\ Sorted(codec) /\ Sorted(pktQ))'
      BY <1>0, <2>2, BeforeSame DEF OrderInv
    <3> QED
      BY <3>2, <3>3 DEF OrderInv
  <2> QED
    BY <2>3, <2>4, <2>5, <2>6, <2>7 DEF Inv, TypeOK
<1> QED
  BY <1>1, <1>2
-----------------------------------------------------------------------------
(* The deliver thread.                                                     *)

LEMMA PushPacketInv ==
  ASSUME Inv, PushPacket
  PROVE  Inv'
<1> USE DEF PushPacket, ctlVars, pools, taskVars
<1>0. /\ pktQ \in Seq(Nat \ {0}) /\ pushed \in Nat /\ pushed' = pushed + 1
      /\ pktQ' = Append(pktQ, pushed + 1) /\ pushed + 1 \in Nat \ {0}
      /\ dpc = "fill" /\ dpc' = "pull" /\ OrderInv /\ stream' = stream
  BY DEF Inv, TypeOK, DataType
<1>1. \A k \in 1..6 : \A n \in Place(k) : Before(n, pushed + 1) /\ n \in 0..(pushed + 1)
  BY <1>0 DEF OrderInv, Before
<1>2. /\ pktQ' \in Seq(Nat \ {0}) /\ Len(pktQ') = Len(pktQ) + 1
      /\ Vals(pktQ') = Vals(pktQ) \cup {pushed + 1}
      /\ Sorted(pktQ) /\ (\A m \in Vals(pktQ) : Before(m, pushed + 1)) => Sorted(pktQ')
  BY <1>0, Added
<1>3. ControlType'
  BY DEF Inv, TypeOK, ControlType
<1>4. DataType'
  BY <1>0, <1>2 DEF Inv, TypeOK, DataType
<1>5. HandInv'
  BY DEF Inv, HandInv
<1>6. CountInv'
  <2>1. Len(pktQ) \in Nat /\ freeP \in Int
    BY DEF Inv, TypeOK, DataType
  <2> QED
    BY <1>2, <2>1 DEF Inv, CountInv
<1>7. OrderInv'
  <2>1. (\A k \in 1..5 : Place(k)' = Place(k)) /\ Place(6)' = Place(6) \cup {pushed + 1}
    BY <1>0, <1>2 DEF Place
  <2>2. (\A k \in 1..6 : \A n \in Place(k) : n \in 0..pushed)'
    <3>1. ASSUME NEW k \in 1..6, NEW n \in Place(k)' PROVE n \in 0..(pushed + 1)
      <4>1. n \in Place(k) \/ n = pushed + 1
        BY <2>1
      <4> QED
        BY <1>0, <1>1, <4>1
    <3> QED
      BY <1>0, <3>1
  <2>3. Apart'
    <3>1. ASSUME NEW k \in 1..6, NEW l \in 1..6, k < l, NEW m \in Place(k)', NEW n \in Place(l)'
          PROVE  Before(m, n)
      <4>1. m \in Place(k)
        BY <2>1, <3>1
      <4>2. n \in Place(l) \/ n = pushed + 1
        BY <2>1
      <4> QED
        BY <1>0, <1>1, <3>1, <4>1, <4>2 DEF OrderInv, Apart
    <3> QED
      BY <1>0, <3>1, BeforeSame DEF Apart
  <2>4. Sorted(pktQ)'
    <3>1. Vals(pktQ) = Place(6) /\ 6 \in 1..6
      BY DEF Place
    <3> QED
      BY <1>0, <1>1, <1>2, <3>1, BeforeSame DEF OrderInv
  <2>5. (Sorted(NumbersOf(frmQ)) /\ Sorted(codec))'
    BY <1>0, BeforeSame DEF OrderInv
  <2> QED
    BY <2>2, <2>3, <2>4, <2>5 DEF OrderInv
<1> QED
  BY <1>3, <1>4, <1>5, <1>6, <1>7 DEF Inv, TypeOK

LEMMA PullFrameInv ==
  ASSUME Inv, PullFrame
  PROVE  Inv'
<1> USE DEF ctlVars, pools, taskVars
<1>0. /\ UNCHANGED <<started, ctlVars, pktQ, pools, taskVars, pushed, mark>>
      /\ frmQ \in Seq(FrameBuffers) /\ OrderInv /\ pushed \in Nat /\ stale \in Nat
      /\ dpc \in {"pull", "pullES"} /\ dpc' = IF dpc = "pull" THEN "top" ELSE "topES"
  BY DEF PullFrame, Inv, TypeOK, DataType
<1>1. ControlType'
  BY <1>0 DEF Inv, TypeOK, ControlType
<1>2. HandInv'
  BY <1>0 DEF Inv, HandInv
<1>3. CASE frmQ = <<>>
  <2>1. UNCHANGED lineVars /\ UNCHANGED dataVars
    BY <1>0, <1>3 DEF PullFrame, lineVars, dataVars
  <2>2. DataType'
    BY <2>1, DataSame DEF Inv, TypeOK
  <2>3. CountInv'
    BY <1>0, <2>1 DEF Inv, CountInv, dataVars
  <2>4. OrderInv'
    BY <2>1, OrderSame DEF Inv
  <2> QED
    BY <1>1, <1>2, <2>2, <2>3, <2>4 DEF Inv, TypeOK
<1>4. CASE frmQ # <<>>
  <2> DEFINE f == Head(frmQ)
  <2>1. /\ frmQ' = Tail(frmQ) /\ sunk' = sunk \cup {f.buf}
        /\ pulled' = IF f.kind = "empty" THEN pulled ELSE f.pkt
        /\ stale' = stale + (IF f.kind # "empty" /\ f.pkt <= mark THEN 1 ELSE 0)
    BY <1>4 DEF PullFrame
  <2>2. /\ f \in FrameBuffers /\ frmQ' \in Seq(FrameBuffers)
        /\ Bufs(frmQ) = Bufs(frmQ') \cup {f.buf}
        /\ Vals(NumbersOf(frmQ)) = Vals(NumbersOf(frmQ')) \cup {Number(f)}
        /\ Sorted(NumbersOf(frmQ)) =>
              Sorted(NumbersOf(Tail(frmQ))) /\ \A n \in Vals(NumbersOf(frmQ')) : Before(Number(f), n)
    BY <1>0, <1>4, <2>1, FrameTaken
  <2> HIDE DEF f
  <2>3. /\ f.buf \in Frames /\ f.pkt \in Nat \ {0} /\ (f.kind # "empty" => Number(f) = f.pkt)
    BY <2>2 DEF FrameBuffers, Number
  <2>4. DataType'
    <3>1. pulled' \in Nat /\ sunk' \subseteq Frames /\ stale' \in Nat
      BY <1>0, <2>1, <2>3 DEF Inv, TypeOK, DataType
    <3> QED
      BY <1>0, <2>2, <3>1 DEF Inv, TypeOK, DataType
  <2>5. CountInv'
    BY <1>0, <2>1, <2>2 DEF Inv, CountInv
  <2>6. OrderInv'
    <3>1. \A k \in 1..6 : \A n \in Place(k)' : n \in Place(k) \/ (k = 1 /\ n = Number(f))
      <4>1. \A n \in Place(1)' : n \in Place(1) \/ n = Number(f)
        BY <2>1, <2>3 DEF Place
      <4>2. \A k \in 2..6 : \A n \in Place(k)' : n \in Place(k)
        BY <1>0, <2>2 DEF Place
      <4> QED
        BY <4>1, <4>2
    <3>2. Number(f) \in Place(2) /\ \A n \in Place(2)' : Before(Number(f), n)
      BY <1>0, <2>2 DEF Place, OrderInv
    <3>3. Apart' /\ (\A k \in 1..6 : \A n \in Place(k) : n \in 0..pushed)'
      <4>1. 1 \in 1..6 /\ 2 \in 1..6 /\ (1 + 1)..(2 - 1) = {} /\ stream' = stream /\ pushed' = pushed
        BY <1>0
      <4> QED
        BY <1>0, <3>1, <3>2, <4>1, Moved
    <3>4. (Sorted(NumbersOf(frmQ)) /\ Sorted(codec) /\ Sorted(pktQ))'
      BY <1>0, <2>1, <2>2, BeforeSame DEF OrderInv
    <3> QED
      BY <3>3, <3>4 DEF OrderInv
  <2> QED
    BY <1>1, <1>2, <2>4, <2>5, <2>6 DEF Inv, TypeOK
<1> QED
  BY <1>3, <1>4

-----------------------------------------------------------------------------
LEMMA NextInv ==
  ASSUME Inv, [Next]_vars
  PROVE  Inv'
<1>1. CASE UNCHANGED vars
  <2> USE <1>1 DEF vars
  <2>1. DataType'
    BY DataSame DEF Inv, TypeOK, dataVars
  <2>2. ControlType' /\ HandInv' /\ CountInv'
    BY DEF Inv, TypeOK, ControlType, HandInv, CountInv
  <2>3. OrderInv'
    BY OrderSame DEF Inv, lineVars
  <2> QED
    BY <2>1, <2>2, <2>3 DEF Inv, TypeOK
<1>2. CASE Next
  BY <1>2, SendInv, PlayerStepInv, FlushPacketsInv, FlushFramesInv, QuietInv, LeaveInv, TakeInv,
     BuffersInv, CopyInv, SendPacketInv, ReceiveInv, PushPacketInv, PullFrameInv
     DEF Next, Player, Task, Deliver
<1> QED
  BY <1>1, <1>2

(* The inductive invariant of the order and of the buffers.                *)
THEOREM Invariant == Spec => []Inv
<1>1. Inv /\ [Next]_vars => Inv'
  BY NextInv
<1> QED
  BY <1>1, InitInv, PTL DEF Spec

(* Two sorted queues whose numbers stay apart are one sorted queue.        *)
LEMMA Joined ==
  ASSUME NEW a \in Seq(Nat), NEW b \in Seq(Nat), Sorted(a), Sorted(b),
         \A m \in Vals(a), n \in Vals(b) : Before(m, n)
  PROVE  a \o b \in Seq(Nat) /\ Sorted(a \o b) /\ Vals(a \o b) = Vals(a) \cup Vals(b)
<1> DEFINE c == a \o b
<1>1. /\ c \in Seq(Nat) /\ Len(a) \in Nat /\ Len(b) \in Nat
      /\ DOMAIN a = 1..Len(a) /\ DOMAIN b = 1..Len(b) /\ DOMAIN c = 1..(Len(a) + Len(b))
      /\ \A i \in 1..Len(a) : c[i] = a[i]
      /\ \A i \in 1..Len(b) : c[Len(a) + i] = b[i]
  OBVIOUS
<1> HIDE DEF c
<1>2. \A i \in DOMAIN c : \/ i \in 1..Len(a) /\ c[i] = a[i]
                          \/ i > Len(a) /\ i - Len(a) \in 1..Len(b) /\ c[i] = b[i - Len(a)]
  <2> TAKE i \in DOMAIN c
  <2>1. CASE i <= Len(a)
    BY <1>1, <2>1
  <2>2. CASE i > Len(a)
    <3>1. i - Len(a) \in 1..Len(b) /\ Len(a) + (i - Len(a)) = i
      BY <1>1, <2>2
    <3> QED
      BY <1>1, <2>2, <3>1
  <2> QED
    BY <1>1, <2>1, <2>2
<1>3. Sorted(c)
  <2>1. ASSUME NEW i \in DOMAIN c, NEW j \in DOMAIN c, i < j PROVE Before(c[i], c[j])
    <3>1. CASE j \in 1..Len(a)
      <4>1. i \in 1..Len(a)
        BY <1>1, <2>1, <3>1
      <4> QED
        BY <1>1, <2>1, <3>1, <4>1 DEF Sorted
    <3>2. CASE i \in 1..Len(a) /\ j > Len(a) /\ j - Len(a) \in 1..Len(b) /\ c[j] = b[j - Len(a)]
      BY <1>1, <3>2 DEF Vals
    <3>3. CASE i > Len(a) /\ i - Len(a) \in 1..Len(b) /\ c[i] = b[i - Len(a)]
               /\ j > Len(a) /\ j - Len(a) \in 1..Len(b) /\ c[j] = b[j - Len(a)]
      BY <1>1, <2>1, <3>3 DEF Sorted
    <3> QED
      BY <1>1, <1>2, <2>1, <3>1, <3>2, <3>3
  <2> QED
    BY <2>1 DEF Sorted
<1>4. Vals(c) = Vals(a) \cup Vals(b)
  <2>1. \A n \in Vals(c) : n \in Vals(a) \cup Vals(b)
    BY <1>1, <1>2 DEF Vals
  <2>2. \A n \in Vals(a) : n \in Vals(c)
    BY <1>1 DEF Vals
  <2>3. \A n \in Vals(b) : n \in Vals(c)
    <3> TAKE n \in Vals(b)
    <3>1. PICK i \in 1..Len(b) : n = b[i]
      BY <1>1 DEF Vals
    <3>2. Len(a) + i \in DOMAIN c /\ c[Len(a) + i] = n
      BY <1>1, <3>1
    <3> QED
      BY <3>2 DEF Vals
  <2> QED
    BY <2>1, <2>2, <2>3
<1>5. c \in Seq(Nat) /\ Sorted(c) /\ Vals(c) = Vals(a) \cup Vals(b)
  BY <1>1, <1>3, <1>4
<1> QED
  BY <1>5 DEF c

LEMMA OneSorted ==
  ASSUME NEW n \in Nat
  PROVE  <<n>> \in Seq(Nat) /\ Sorted(<<n>>) /\ Vals(<<n>>) = {n}
BY DEF Sorted, Vals

(* FramesInOrder for any number of packets: frames come in the order of    *)
(* the packets, and none twice.                                            *)
THEOREM FramesComeInOrder == Spec => []FramesInOrder
<1>1. Inv => FramesInOrder
  <2> SUFFICES ASSUME Inv PROVE FramesInOrder
    OBVIOUS
  <2> DEFINE fr == NumbersOf(frmQ)
  <2>0. /\ OrderInv /\ pulled \in Nat /\ input \in Nat /\ codec \in Seq(Nat) /\ pktQ \in Seq(Nat)
        /\ fr \in Seq(Nat) /\ Sorted(fr) /\ Sorted(codec) /\ Sorted(pktQ)
    BY NumbersSame DEF Inv, TypeOK, DataType, OrderInv
  <2>1. /\ Place(1) = {pulled} /\ Place(2) = Vals(fr) /\ Place(3) = Vals(codec)
        /\ Place(5) = {input} /\ Place(6) = Vals(pktQ)
    BY DEF Place
  <2>2. \A k, l \in 1..6 : k < l => \A m \in Place(k), n \in Place(l) : Before(m, n)
    BY <2>0 DEF OrderInv, Apart
  <2> HIDE DEF fr
  <2> DEFINE a == <<pulled>> \o fr
             b == a \o codec
             c == b \o <<input>>
             d == c \o pktQ
  <2>3. a \in Seq(Nat) /\ Sorted(a) /\ Vals(a) = Place(1) \cup Place(2)
    <3>1. <<pulled>> \in Seq(Nat) /\ Sorted(<<pulled>>) /\ Vals(<<pulled>>) = {pulled}
      BY <2>0, OneSorted
    <3>2. \A m \in Vals(<<pulled>>), n \in Vals(fr) : Before(m, n)
      BY <2>1, <2>2, <3>1
    <3>3. a \in Seq(Nat) /\ Sorted(a) /\ Vals(a) = Vals(<<pulled>>) \cup Vals(fr)
      BY <2>0, <3>1, <3>2, Joined
    <3> QED
      BY <2>1, <3>1, <3>3
  <2> HIDE DEF a
  <2>4. b \in Seq(Nat) /\ Sorted(b) /\ Vals(b) = Place(1) \cup Place(2) \cup Place(3)
    <3>1. \A m \in Vals(a), n \in Vals(codec) : Before(m, n)
      BY <2>1, <2>2, <2>3
    <3>2. b \in Seq(Nat) /\ Sorted(b) /\ Vals(b) = Vals(a) \cup Vals(codec)
      BY <2>0, <2>3, <3>1, Joined
    <3> QED
      BY <2>1, <2>3, <3>2
  <2> HIDE DEF b
  <2>5. c \in Seq(Nat) /\ Sorted(c) /\ Vals(c) = Place(1) \cup Place(2) \cup Place(3) \cup Place(5)
    <3>1. <<input>> \in Seq(Nat) /\ Sorted(<<input>>) /\ Vals(<<input>>) = {input}
      BY <2>0, OneSorted
    <3>2. \A m \in Vals(b), n \in Vals(<<input>>) : Before(m, n)
      BY <2>1, <2>2, <2>4, <3>1
    <3>3. c \in Seq(Nat) /\ Sorted(c) /\ Vals(c) = Vals(b) \cup Vals(<<input>>)
      BY <2>4, <3>1, <3>2, Joined
    <3> QED
      BY <2>1, <2>4, <3>1, <3>3
  <2> HIDE DEF c
  <2>6. d \in Seq(Nat) /\ Sorted(d)
    <3>1. \A m \in Vals(c), n \in Vals(pktQ) : Before(m, n)
      BY <2>1, <2>2, <2>5
    <3> QED
      BY <2>0, <2>5, <3>1, Joined
  <2>7. Pipeline = d
    BY DEF Pipeline, Numbers, NumbersOf, a, b, c, fr
  <2> HIDE DEF d
  <2> QED
    BY <2>6, <2>7 DEF FramesInOrder, Sorted
<1> QED
  BY <1>1, Invariant, PTL

(* BuffersBack for any pools: after stop() every buffer is back or with    *)
(* the deliver thread and the sink.                                        *)
THEOREM BuffersComeBack == Spec => []BuffersBack
<1>1. Inv => BuffersBack
  <2> SUFFICES ASSUME Inv, phase = "STOPPED" PROVE BuffersBack
    BY DEF BuffersBack
  <2>1. input = None /\ output = None
    BY DEF Inv, HandInv
  <2>2. 0 \notin Frames /\ Bufs(frmQ) \subseteq Frames /\ freeF \subseteq Frames /\ sunk \subseteq Frames
    <3>1. \A i \in DOMAIN frmQ : frmQ[i] \in FrameBuffers
      BY DEF Inv, TypeOK, DataType
    <3> QED
      BY <3>1 DEF Inv, TypeOK, DataType, Frames, Bufs, FrameBuffers
  <2>3. freeP \in Int /\ Len(pktQ) \in Nat
    BY DEF Inv, TypeOK, DataType
  <2> QED
    BY <2>1, <2>2, <2>3 DEF Inv, CountInv, BuffersBack, Bufs
<1> QED
  BY <1>1, Invariant, PTL
-----------------------------------------------------------------------------
(* What is old when a flush ends.                                          *)

LEMMA KeepStep ==
  ASSUME Inv, Inv', KeepInv, [Next]_vars
  PROVE  KeepInv'
<1>0. /\ codec \in Seq(Nat \ {0}) /\ codec' \in Seq(Nat \ {0}) /\ stream.delay \in Nat /\ drain \in Nat
      /\ (tpc = "receive" => input = None)
  BY DEF Inv, TypeOK, DataType, HandInv
<1>1. CASE Next
  <2>1. CASE Send_ \/ Player \/ Deliver \/ ReleaseFrame
    <3>1. UNCHANGED <<stream, tpc, codec, drain, eosFlag>>
      BY <2>1 DEF Send_, PlayerStart, PlayerPause, PlayerSeek, PlayerStop, Command, Player, PlayerState,
         OnStart, OnPause, OnStop, RequestInterruption, Join, OnFlushPackets, OnFlushFrames, Deliver, DeliverTop, AcquirePacket,
         PushPacket, NoPacket, PullFrame, ReleaseFrame, pools, taskVars
    <3> QED
      BY <3>1 DEF KeepInv, Stuck, Ends
  <2>2. CASE Born \/ SetLoop \/ Top \/ Take \/ AcquireFrame \/ Check \/ Copy \/ Exit
    <3>1. UNCHANGED <<stream, codec, drain, eosFlag>> /\ tpc # "receive" /\ tpc' # "receive"
      BY <2>2 DEF Born, SetLoop, Top, Take, AcquireFrame, Check, Copy, Exit, pools
    <3> QED
      BY <3>1 DEF KeepInv, Stuck, Ends
  <2>3. CASE ReceiveAgain
    <3>1. /\ UNCHANGED <<stream, codec, drain, eosFlag>> /\ tpc' = "top" /\ drain = None
          /\ ~HasFrame(codec)
      BY <2>3 DEF ReceiveAgain, pools
    <3> QED
      BY <1>0, <3>1 DEF KeepInv, Stuck, Ends, HasFrame
  <2>4. CASE Send
    <3>1. CASE Refuses
      <4>1. UNCHANGED <<stream, codec, drain, eosFlag>> /\ tpc # "receive" /\ tpc' # "receive"
        BY <2>4, <3>1 DEF Send
      <4> QED
        BY <4>1 DEF KeepInv, Stuck, Ends
    <3>2. CASE ~Refuses
      <4>1. Accept(input) /\ tpc = "send" /\ tpc' = "receive" /\ UNCHANGED <<stream, eosFlag>>
        BY <2>4, <3>2 DEF Send
      <4>2. CASE drain # None
        BY <1>0, <4>1, <4>2 DEF KeepInv, Stuck, Ends, Accept
      <4>3. CASE drain = None /\ input \in stream.ends
        <5>1. codec' = codec
          BY <4>1, <4>3 DEF Accept
        <5>2. stream.rich = {} => Len(codec) <= stream.delay
          BY <4>1, <4>3 DEF KeepInv, Stuck, Ends
        <5> QED
          BY <1>0, <4>1, <5>1, <5>2 DEF KeepInv, Ends
      <4>4. CASE drain = None /\ input \notin stream.ends
        <5>1. stream.rich = {} => codec' = codec \o <<input>>
          BY <4>1, <4>4 DEF Accept
        <5>2. stream.rich = {} => Len(codec') = Len(codec) + 1
          <6>1. input \in Nat
            BY DEF Inv, TypeOK, DataType
          <6> QED
            BY <1>0, <5>1, <6>1
        <5>3. drain' = None
          BY <4>1, <4>4 DEF Accept
        <5>4. stream.rich = {} => Len(codec) <= stream.delay
          BY <4>1, <4>4 DEF KeepInv, Stuck, Ends
        <5> QED
          BY <1>0, <4>1, <5>2, <5>3, <5>4 DEF KeepInv, Ends
      <4> QED
        BY <4>2, <4>3, <4>4
    <3> QED
      BY <3>1, <3>2
  <2>5. CASE ReceiveVideo \/ ReceiveAudio \/ ReceiveAudioEnd
    <3>0. tpc = "receive" /\ tpc' = "top" /\ stream' = stream /\ Len(codec) \in Nat
      BY <1>0, <2>5 DEF ReceiveVideo, ReceiveAudio, ReceiveAudioEnd
    <3>1. CASE HasFrame(codec)
      <4>1. codec # <<>> /\ Len(codec) > 0
        BY <1>0, <3>0, <3>1 DEF HasFrame
      <4>2. codec' = Tail(codec) /\ drain' = drain
        BY <2>5, <3>1 DEF ReceiveVideo, ReceiveAudio, ReceiveAudioEnd
      <4>3. Len(codec') = Len(codec) - 1
        BY <1>0, <4>1, <4>2
      <4> QED
        BY <1>0, <3>0, <4>1, <4>2, <4>3 DEF KeepInv, Stuck, Ends
    <3>2. CASE ~HasFrame(codec)
      <4>1. codec = <<>> /\ codec' = <<>>
        <5>1. drain # None
          BY <2>5, <3>2 DEF ReceiveVideo, ReceiveAudio, ReceiveAudioEnd
        <5>2. codec = <<>>
          BY <1>0, <3>2, <5>1 DEF HasFrame
        <5> QED
          BY <2>5, <3>2, <5>2 DEF ReceiveVideo, ReceiveAudio, ReceiveAudioEnd
      <4>2. \/ drain' = None
            \/ drain' = drain /\ drain # None /\ eosFlag /\ eosFlag' = eosFlag /\ ~stream.video
        BY <2>5, <3>2 DEF ReceiveVideo, ReceiveAudio, ReceiveAudioEnd
      <4> QED
        BY <1>0, <3>0, <4>1, <4>2 DEF KeepInv, Stuck, Ends
    <3> QED
      BY <3>1, <3>2
  <2> QED
    BY <1>1, <2>1, <2>2, <2>3, <2>4, <2>5 DEF Next, Task
<1>2. CASE UNCHANGED vars
  BY <1>2 DEF vars, KeepInv, Stuck, Ends
<1> QED
  BY <1>1, <1>2

LEMMA FlushStep ==
  ASSUME Inv, FlushInv, [Next]_vars
  PROVE  FlushInv'
<1>0. /\ todo \in Plans /\ pktQ \in Seq(Nat \ {0}) /\ Len(pktQ) \in Nat
      /\ dpc \in {"top", "topES", "acquire", "fill", "pull", "pullES"}
  BY DEF Inv, TypeOK, ControlType, DataType
<1>1. CASE Send_
  <2>1. todo' # <<>> /\ Head(todo') # "frames"
    BY <1>1, Heads DEF Send_, PlayerStart, PlayerPause, PlayerSeek, PlayerStop, Command
  <2> QED
    BY <2>1 DEF FlushInv
<1>2. CASE Player
  <2>1. CASE UNCHANGED <<todo, dpc, pktQ>>
    BY <2>1 DEF FlushInv
  <2>2. CASE Doing("flush") /\ pktQ # <<>>
    <3>1. todo' = todo /\ Head(todo) = "flush"
      BY <1>2, <2>2 DEF Player, PlayerState, OnStart, OnPause, OnStop, RequestInterruption, Join, OnFlushPackets, OnFlushFrames, Doing
    <3> QED
      BY <3>1 DEF FlushInv
  <2>3. CASE Done /\ Doing("flush") /\ pktQ = <<>>
    <3>1. pktQ' = <<>> /\ dpc' = dpc
      BY <1>2, <2>3 DEF Player, PlayerState, OnStart, OnPause, OnStop, RequestInterruption, Join, OnFlushPackets, OnFlushFrames,
         Doing, linkVars
    <3> QED
      BY <3>1 DEF FlushInv
  <2>4. CASE Done /\ todo # <<>> /\ Head(todo) # "flush"
    BY <1>0, <2>4, PlanStep DEF FlushInv
  <2> QED
    BY <1>2, <2>1, <2>2, <2>3, <2>4 DEF Player, PlayerState, OnStart, OnPause, OnStop, RequestInterruption, Join,
       OnFlushPackets, OnFlushFrames, Doing, linkVars
<1>3. CASE Task
  <2>1. todo' = todo /\ dpc' = dpc
    BY <1>3 DEF Task, Born, SetLoop, Top, Take, AcquireFrame, Check, Copy, Send, ReceiveAgain, ReceiveVideo,
       ReceiveAudio, ReceiveAudioEnd, Exit, ctlVars, linkVars
  <2>2. pktQ' = pktQ \/ (pktQ # <<>> /\ pktQ' = Tail(pktQ))
    BY <1>3 DEF Task, Born, SetLoop, Top, Take, AcquireFrame, Check, Copy, Send, ReceiveAgain, ReceiveVideo,
       ReceiveAudio, ReceiveAudioEnd, Exit
  <2>3. Len(pktQ') <= Len(pktQ) /\ Len(pktQ') \in Nat
    BY <1>0, <2>2
  <2> QED
    BY <1>0, <2>1, <2>3 DEF FlushInv
<1>4. CASE Deliver
  <2>1. todo' = todo
    BY <1>4 DEF Deliver, DeliverTop, AcquirePacket, PushPacket, NoPacket, PullFrame, ctlVars
  <2>2. SUFFICES ASSUME todo # <<>>, Head(todo) = "frames" PROVE FlushInv'
    BY <2>1 DEF FlushInv
  <2>3. phase # "STARTED"
    BY <1>0, <2>2, Heads DEF Inv, HandInv, Plans, Quieting
  <2>4. Len(pktQ) + (IF dpc \in {"acquire", "fill"} THEN 1 ELSE 0) <= 1
    BY <2>2 DEF FlushInv
  <2>5. CASE AcquirePacket \/ NoPacket \/ PullFrame
    BY <1>0, <2>1, <2>4, <2>5 DEF FlushInv, AcquirePacket, NoPacket, PullFrame
  <2>6. CASE PushPacket
    <3>1. dpc = "fill" /\ dpc' = "pull" /\ pktQ' = Append(pktQ, pushed + 1) /\ pushed \in Nat
      BY <2>6 DEF PushPacket, Inv, TypeOK, DataType
    <3>2. Len(pktQ') = Len(pktQ) + 1
      BY <1>0, <3>1
    <3> QED
      BY <1>0, <2>4, <3>1, <3>2 DEF FlushInv
  <2> QED
    BY <1>4, <2>3, <2>5, <2>6 DEF Deliver, DeliverTop
<1>5. CASE ReleaseFrame \/ UNCHANGED vars
  <2>1. UNCHANGED <<todo, dpc, pktQ>>
    BY <1>5 DEF ReleaseFrame, vars, ctlVars
  <2> QED
    BY <2>1 DEF FlushInv
<1> QED
  BY <1>1, <1>2, <1>3, <1>4, <1>5 DEF Next
LEMMA OldFinite ==
  ASSUME mark \in Nat
  PROVE  IsFiniteSet(Old) /\ Cardinality(Old) \in Nat
<1>1. Old \in SUBSET (1..mark)
  BY DEF Old
<1>2. IsFiniteSet(1..mark)
  BY FS_Interval
<1>3. IsFiniteSet(Old)
  BY <1>1, <1>2, FS_Subset
<1> QED
  BY <1>3, FS_CardinalityType

LEMMA OldLess ==
  ASSUME Inv, StaleInv, UNCHANGED <<stream, stale, mark>>, pushed <= pushed', pushed' \in Nat,
         Old' \subseteq Old
  PROVE  StaleInv'
<1>0. mark \in Nat /\ stale \in Nat /\ pushed \in Nat /\ stream.delay \in Nat
  BY DEF Inv, TypeOK, DataType
<1>1. IsFiniteSet(Old) /\ Cardinality(Old) \in Nat
  BY <1>0, OldFinite
<1>2. IsFiniteSet(Old') /\ Cardinality(Old') <= Cardinality(Old)
  <2> DEFINE T == Old'
  <2>1. T \in SUBSET Old
    OBVIOUS
  <2> HIDE DEF T
  <2>2. IsFiniteSet(T) /\ Cardinality(T) <= Cardinality(Old)
    BY <1>1, <2>1, FS_Subset
  <2> QED
    BY <2>2 DEF T
<1>3. Cardinality(Old') \in Nat
  BY <1>2, FS_CardinalityType
<1> QED
  BY <1>0, <1>1, <1>2, <1>3 DEF StaleInv

(* The frame pulled is old no more.                                        *)
LEMMA StalePull ==
  ASSUME Inv, StaleInv, PullFrame
  PROVE  StaleInv'
<1> USE DEF ctlVars, pools, taskVars
<1>0. /\ UNCHANGED <<stream, pktQ, input, codec, drain, eosFlag, pushed, mark>>
      /\ frmQ \in Seq(FrameBuffers) /\ OrderInv /\ pushed \in Nat /\ stale \in Nat /\ mark \in Nat
      /\ stream.delay \in Nat
  BY DEF PullFrame, Inv, TypeOK, DataType
<1>1. CASE frmQ = <<>>
  <2>1. UNCHANGED <<frmQ, stale>>
    BY <1>1 DEF PullFrame
  <2>2. Old' \subseteq Old
    BY <1>0, <2>1 DEF Old, Stuck, Place
  <2> QED
    BY <1>0, <2>1, <2>2, OldLess
<1>2. CASE frmQ # <<>>
  <2> DEFINE f == Head(frmQ)
             p == Number(f)
  <2>1. /\ frmQ' = Tail(frmQ)
        /\ stale' = stale + (IF f.kind # "empty" /\ f.pkt <= mark THEN 1 ELSE 0)
    BY <1>2 DEF PullFrame
  <2>2. /\ f \in FrameBuffers
        /\ Vals(NumbersOf(frmQ)) = Vals(NumbersOf(frmQ')) \cup {p}
        /\ \A n \in Vals(NumbersOf(frmQ')) : Before(p, n)
    BY <1>0, <1>2, <2>1, FrameTaken DEF OrderInv
  <2> HIDE DEF f
  <2>3. f.pkt \in Nat \ {0} /\ (f.kind # "empty" => p = f.pkt)
    BY <2>2 DEF FrameBuffers, Number
  <2>4. Old' \subseteq Old
    <3>1. \A k \in {2, 3, 5, 6} : \A n \in Place(k)' : n \in Place(k)
      BY <1>0, <2>2 DEF Place
    <3>2. Stuck' <=> Stuck
      BY <1>0 DEF Stuck
    <3> QED
      BY <1>0, <3>1, <3>2 DEF Old
  <2>5. CASE f.kind # "empty" /\ f.pkt <= mark
    <3>1. p = f.pkt /\ p \in 1..mark /\ p \in Place(2) /\ stale' = stale + 1
      BY <1>0, <2>1, <2>2, <2>3, <2>5 DEF Place
    <3>2. p \in Old
      BY <3>1 DEF Old
    <3>3. stream.rich = {} => p \notin Old'
      <4> SUFFICES ASSUME stream.rich = {}, p \in Old' PROVE FALSE
        OBVIOUS
      <4>1. \A n : Before(p, n) => n # p
        BY <3>1 DEF Before
      <4>2. \A n \in Place(2)' : n # p
        BY <2>2, <4>1 DEF Place
      <4>3. \A k \in 3..6 : \A n \in Place(k)' : n # p
        <5> TAKE k \in 3..6
        <5> TAKE n \in Place(k)'
        <5>1. n \in Place(k)
          BY <1>0 DEF Place
        <5>2. Before(p, n)
          BY <1>0, <3>1, <5>1 DEF OrderInv, Apart
        <5> QED
          BY <4>1, <5>2
      <4>4. drain' # p
        BY <4>3 DEF Place
      <4> QED
        BY <4>2, <4>3, <4>4 DEF Old
    <3> DEFINE T == Old'
               U == Old \ {p}
    <3>4. IsFiniteSet(Old) /\ Cardinality(Old) \in Nat
      BY <1>0, OldFinite
    <3>5. IsFiniteSet(U) /\ Cardinality(U) = Cardinality(Old) - 1
      BY <3>2, <3>4, FS_RemoveElement
    <3>6. stream.rich = {} => T \in SUBSET U
      BY <2>4, <3>3
    <3> HIDE DEF T, U
    <3>7. stream.rich = {} => IsFiniteSet(T) /\ Cardinality(T) <= Cardinality(U)
      BY <3>5, <3>6, FS_Subset
    <3>8. stream.rich = {} => Cardinality(T) \in Nat
      BY <3>7, FS_CardinalityType
    <3>9. stream.rich = {} => Cardinality(Old') \in Nat /\ Cardinality(Old') <= Cardinality(Old) - 1
      BY <3>4, <3>5, <3>7, <3>8 DEF T
    <3> QED
      BY <1>0, <3>1, <3>4, <3>9 DEF StaleInv
  <2>6. CASE ~(f.kind # "empty" /\ f.pkt <= mark)
    <3>1. stale' = stale
      BY <1>0, <2>1, <2>6
    <3> QED
      BY <1>0, <2>4, <3>1, OldLess
  <2> QED
    BY <2>5, <2>6
<1> QED
  BY <1>1, <1>2

(* A queue holds no more numbers than it is long.                          *)
LEMMA ValsBound ==
  ASSUME NEW S, NEW q \in Seq(S)
  PROVE  IsFiniteSet(Vals(q)) /\ Cardinality(Vals(q)) \in Nat /\ Cardinality(Vals(q)) <= Len(q)
<1>1. DOMAIN q = 1..Len(q) /\ Len(q) \in Nat /\ q \in [1..Len(q) -> S]
  OBVIOUS
<1>2. q \in Surjection(1..Len(q), Vals(q))
  BY <1>1 DEF Surjection, Vals
<1>3. IsFiniteSet(1..Len(q)) /\ Cardinality(1..Len(q)) = Len(q)
  BY <1>1, FS_Interval
<1>4. IsFiniteSet(Vals(q)) /\ Cardinality(Vals(q)) <= Len(q)
  BY <1>2, <1>3, FS_Surjection
<1> QED
  BY <1>4, FS_CardinalityType

(* The flush ends: what the thread, the codec and the deliver thread hold  *)
(* is old now.                                                             *)
LEMMA StaleFlush ==
  ASSUME Inv, StaleInv, KeepInv, FlushInv, OnFlushFrames
  PROVE  StaleInv'
<1> USE DEF OnFlushFrames, Doing, taskVars, linkVars
<1>0. /\ UNCHANGED <<stream, tpc, pktQ, input, codec, drain, eosFlag, pushed>>
      /\ OrderInv /\ pushed \in Nat /\ stale \in Nat /\ mark \in Nat /\ stream.delay \in Nat
      /\ frmQ \in Seq(FrameBuffers) /\ codec \in Seq(Nat \ {0}) /\ pktQ \in Seq(Nat \ {0})
      /\ input \in Nat /\ drain \in Nat
  BY DEF Inv, TypeOK, DataType
<1>1. CASE frmQ # <<>>
  <2>1. frmQ' = Tail(frmQ) /\ UNCHANGED <<mark, stale>>
    BY <1>1
  <2>2. Vals(NumbersOf(frmQ)) = Vals(NumbersOf(frmQ')) \cup {Number(Head(frmQ))}
    BY <1>0, <1>1, <2>1, FrameTaken
  <2>3. Old' \subseteq Old
    <3>1. \A k \in {2, 3, 5, 6} : \A n \in Place(k)' : n \in Place(k)
      BY <1>0, <2>2 DEF Place
    <3>2. Stuck' <=> Stuck
      BY <1>0 DEF Stuck
    <3> QED
      BY <1>0, <2>1, <3>1, <3>2 DEF Old
  <2> QED
    BY <1>0, <2>1, <2>3, OldLess
<1>2. CASE frmQ = <<>>
  <2>1. frmQ' = <<>> /\ mark' = pushed /\ stale' = 0
    BY <1>2
  <2> DEFINE C == Vals(codec)
             P == Vals(pktQ)
             E == IF drain = None \/ Stuck THEN {} ELSE {drain}
             I == IF input = None THEN {} ELSE {input}
             T == Old'
             W == ((C \cup P) \cup E) \cup I
  <2>2. T \in SUBSET W
    <3>1. \A n \in T : \/ \E k \in {2, 3, 5, 6} : n \in Place(k)'
                       \/ n = drain /\ ~Stuck
      BY <1>0 DEF Old, Stuck
    <3>2. \A n \in T : n # 0
      BY DEF Old
    <3>3. Place(2)' = {} /\ Place(3)' = C /\ Place(5)' = {input} /\ Place(6)' = P
      BY <1>0, <2>1 DEF Place, Vals, NumbersOf
    <3> HIDE DEF T, C, P
    <3> QED
      BY <3>1, <3>2, <3>3
  <2>3. IsFiniteSet(C) /\ Cardinality(C) \in Nat /\ Cardinality(C) <= Len(codec)
    BY <1>0, ValsBound
  <2>4. IsFiniteSet(P) /\ Cardinality(P) \in Nat /\ Cardinality(P) <= Len(pktQ)
    BY <1>0, ValsBound
  <2>5. /\ IsFiniteSet(E) /\ Cardinality(E) = IF drain = None \/ Stuck THEN 0 ELSE 1
        /\ IsFiniteSet(I) /\ Cardinality(I) = IF input = None THEN 0 ELSE 1
    BY FS_EmptySet, FS_Singleton
  <2> DEFINE X == C \cup P
             Y == X \cup E
  <2> HIDE DEF C, P, E, I, T
  <2>6. IsFiniteSet(X) /\ Cardinality(X) <= Cardinality(C) + Cardinality(P) /\ Cardinality(X) \in Nat
    <3>1. /\ IsFiniteSet(X) /\ Cardinality(X) = Cardinality(C) + Cardinality(P) - Cardinality(C \cap P)
          /\ IsFiniteSet(C \cap P)
      BY <2>3, <2>4, FS_Union, FS_Intersection
    <3>2. Cardinality(C \cap P) \in Nat /\ Cardinality(X) \in Nat
      BY <3>1, FS_CardinalityType
    <3> QED
      BY <2>3, <2>4, <3>1, <3>2
  <2> HIDE DEF X
  <2>7. IsFiniteSet(Y) /\ Cardinality(Y) <= Cardinality(X) + Cardinality(E) /\ Cardinality(Y) \in Nat
    <3>1. /\ IsFiniteSet(Y) /\ Cardinality(Y) = Cardinality(X) + Cardinality(E) - Cardinality(X \cap E)
          /\ IsFiniteSet(X \cap E)
      BY <2>5, <2>6, FS_Union, FS_Intersection
    <3>2. Cardinality(X \cap E) \in Nat /\ Cardinality(Y) \in Nat
      BY <3>1, FS_CardinalityType
    <3> QED
      BY <2>5, <2>6, <3>1, <3>2
  <2> HIDE DEF Y
  <2> DEFINE Z == Y \cup I
  <2>8. IsFiniteSet(Z) /\ Cardinality(Z) <= Cardinality(Y) + Cardinality(I) /\ Cardinality(Z) \in Nat
    <3>1. /\ IsFiniteSet(Z) /\ Cardinality(Z) = Cardinality(Y) + Cardinality(I) - Cardinality(Y \cap I)
          /\ IsFiniteSet(Y \cap I)
      BY <2>5, <2>7, FS_Union, FS_Intersection
    <3>2. Cardinality(Y \cap I) \in Nat /\ Cardinality(Z) \in Nat
      BY <3>1, FS_CardinalityType
    <3> QED
      BY <2>5, <2>7, <3>1, <3>2
  <2>9. T \in SUBSET Z
    BY <2>2 DEF X, Y
  <2> HIDE DEF Z
  <2>10. IsFiniteSet(T) /\ Cardinality(T) <= Cardinality(Z) /\ Cardinality(T) \in Nat
    <3>1. IsFiniteSet(T) /\ Cardinality(T) <= Cardinality(Z)
      BY <2>8, <2>9, FS_Subset
    <3> QED
      BY <3>1, FS_CardinalityType
  <2>11. Len(pktQ) \in Nat /\ Len(pktQ) <= 1 /\ Len(codec) \in Nat
    <3>1. Len(pktQ) \in Nat /\ Len(codec) \in Nat
      BY <1>0
    <3>2. Len(pktQ) + (IF dpc \in {"acquire", "fill"} THEN 1 ELSE 0) <= 1
      BY DEF FlushInv
    <3> QED
      BY <3>1, <3>2
  <2>12. stream.rich = {} => Cardinality(C) + Cardinality(E) + Cardinality(I) <= stream.delay + 1
    <3> SUFFICES ASSUME stream.rich = {}
                 PROVE  Cardinality(C) + Cardinality(E) + Cardinality(I) <= stream.delay + 1
      OBVIOUS
    <3>1. CASE Stuck
      <4>1. Len(codec) = 0
        BY <3>1 DEF Stuck
      <4> QED
        BY <1>0, <2>3, <2>5, <3>1, <4>1
    <3>2. CASE ~Stuck /\ tpc = "receive"
      <4>1. input = None /\ Len(codec) + Ends <= stream.delay + 1
        BY <3>2 DEF KeepInv, Inv, HandInv
      <4> QED
        BY <1>0, <2>3, <2>5, <2>11, <3>2, <4>1 DEF Ends
    <3>3. CASE ~Stuck /\ tpc # "receive"
      <4>1. Len(codec) + Ends <= stream.delay
        BY <3>3 DEF KeepInv
      <4> QED
        BY <1>0, <2>3, <2>5, <2>11, <3>3, <4>1 DEF Ends
    <3> QED
      BY <3>1, <3>2, <3>3
  <2>13. /\ Cardinality(E) \in Nat /\ Cardinality(I) \in Nat
    BY <2>5
  <2>14. stream.rich = {} => Cardinality(T) <= stream.delay + 2
    <3>1. Cardinality(T) <= Cardinality(C) + Cardinality(P) + Cardinality(E) + Cardinality(I)
      BY <2>3, <2>4, <2>6, <2>7, <2>8, <2>10, <2>13
    <3>2. Cardinality(P) <= 1
      BY <2>4, <2>11
    <3>3. stream.delay \in Nat
      BY <1>0
    <3> QED
      BY <2>3, <2>4, <2>10, <2>12, <2>13, <3>1, <3>2, <3>3
  <2> QED
    BY <1>0, <2>1, <2>10, <2>14 DEF StaleInv, T
<1> QED
  BY <1>1, <1>2
LEMMA StaleStep ==
  ASSUME Inv, Inv', KeepInv, FlushInv, StaleInv, [Next]_vars
  PROVE  StaleInv'
<1>0. /\ OrderInv /\ pushed \in Nat /\ stale \in Nat /\ mark \in Nat /\ stream.delay \in Nat
      /\ frmQ \in Seq(FrameBuffers) /\ codec \in Seq(Nat \ {0}) /\ pktQ \in Seq(Nat \ {0})
      /\ input \in Nat /\ drain \in Nat /\ mark <= pushed
  BY DEF Inv, TypeOK, DataType, StaleInv
<1>1. ASSUME UNCHANGED <<stream, stale, mark, pushed>>, Old' \subseteq Old PROVE StaleInv'
  BY <1>0, <1>1, OldLess
<1>2. CASE Send_ \/ PlayerState \/ OnStart \/ OnPause \/ OnStop \/ RequestInterruption \/ Join \/ Born \/ SetLoop
           \/ AcquireFrame \/ Check
           \/ ReceiveAgain \/ DeliverTop \/ AcquirePacket \/ NoPacket \/ ReleaseFrame \/ UNCHANGED vars
  <2>1. UNCHANGED <<stream, stale, mark, pushed, frmQ, codec, drain, eosFlag, input, pktQ>>
    BY <1>2 DEF Send_, PlayerStart, PlayerPause, PlayerSeek, PlayerStop, Command, PlayerState, OnStart,
       OnPause, OnStop, RequestInterruption, Join, Born, SetLoop, AcquireFrame, Check, ReceiveAgain, DeliverTop, AcquirePacket, NoPacket,
       ReleaseFrame, vars, pools, taskVars, obsVars
  <2>2. Old' \subseteq Old
    BY <2>1 DEF Old, Stuck, Place
  <2> QED
    BY <1>1, <2>1, <2>2
<1>3. CASE OnFlushPackets \/ Top \/ Exit \/ Take
  <2>1. /\ UNCHANGED <<stream, stale, mark, pushed, frmQ, codec, drain, eosFlag>>
        /\ \/ input' \in {None, input} /\ pktQ' = pktQ
           \/ input' = input /\ pktQ # <<>> /\ pktQ' = Tail(pktQ)
           \/ pktQ # <<>> /\ input' = Head(pktQ) /\ pktQ' = Tail(pktQ)
    BY <1>3 DEF OnFlushPackets, Top, Exit, Take, pools, taskVars, obsVars
  <2>2. pktQ # <<>> => Vals(pktQ) = Vals(Tail(pktQ)) \cup {Head(pktQ)}
    BY <1>0, Taken
  <2>3. \A k \in {2, 3, 5, 6} : \A n \in Place(k)' : n # None => \E l \in {2, 3, 5, 6} : n \in Place(l)
    <3>1. Place(2)' = Place(2) /\ Place(3)' = Place(3)
      BY <2>1 DEF Place
    <3>2. input' = None \/ input' \in Place(5) \/ input' \in Place(6)
      BY <2>1, <2>2 DEF Place
    <3>3. \A n \in Place(5)' : n # None => n \in Place(5) \/ n \in Place(6)
      BY <3>2 DEF Place
    <3>4. Vals(pktQ') \subseteq Vals(pktQ)
      BY <2>1, <2>2
    <3>5. \A n \in Place(6)' : n \in Place(6)
      BY <3>4 DEF Place
    <3> QED
      BY <3>1, <3>3, <3>5
  <2>4. (Stuck' <=> Stuck) /\ drain' = drain /\ mark' = mark
    BY <2>1 DEF Stuck
  <2>5. Old' \subseteq Old
    BY <2>3, <2>4 DEF Old
  <2> QED
    BY <1>1, <2>1, <2>5
<1>4. CASE Copy
  <2>0. output # None /\ input \in Nat \ {0} /\ DataType
    BY <1>0, <1>4 DEF Inv, HandInv, Copy, TypeOK
  <2>1. /\ UNCHANGED <<stream, stale, mark, pushed, codec, drain, eosFlag, pktQ>> /\ input' = None
        /\ \E k \in {"data", "end"} : GiveFrame(input, k)
    BY <1>4 DEF Copy, obsVars
  <2>2. Vals(NumbersOf(frmQ')) = Vals(NumbersOf(frmQ)) \cup {input}
    BY <2>0, <2>1, FrameGiven
  <2>3. \A k \in {2, 3, 5, 6} : \A n \in Place(k)' : n # None => \E l \in {2, 3, 5, 6} : n \in Place(l)
    <3>1. Place(6)' = Place(6) /\ Place(3)' = Place(3) /\ Place(5)' = {None}
      BY <2>1 DEF Place
    <3>2. \A n \in Place(2)' : n \in Place(2) \/ n \in Place(5)
      BY <2>2 DEF Place
    <3> QED
      BY <3>1, <3>2
  <2>4. (Stuck' <=> Stuck) /\ drain' = drain /\ mark' = mark
    BY <2>1 DEF Stuck
  <2>5. Old' \subseteq Old
    BY <2>3, <2>4 DEF Old
  <2> QED
    BY <1>1, <2>1, <2>5
<1>5. CASE Send
  <2>1. UNCHANGED <<stream, stale, mark, pushed, frmQ, eosFlag, pktQ>> /\ input \in Nat \ {0}
    BY <1>0, <1>5 DEF Send, obsVars, Inv, HandInv
  <2>2. CASE UNCHANGED <<codec, drain>> /\ input' \in {None, input}
    <3>1. Old' \subseteq Old
      BY <2>1, <2>2 DEF Old, Stuck, Place
    <3> QED
      BY <1>1, <2>1, <3>1
  <2>3. CASE ~Refuses /\ drain = None
    <3>1. Accept(input) /\ input' = None
      BY <1>5, <2>3 DEF Send
    <3>2. (drain' = input /\ codec' = codec) \/ (drain' = None /\ Vals(codec') = Vals(codec) \cup {input})
      <4>1. codec \o <<input>> = Append(codec, input) /\ codec \o <<input, input>> = Append(Append(codec, input), input)
        BY <1>0, <2>1
      <4>2. /\ Append(codec, input) \in Seq(Nat \ {0})
            /\ Vals(Append(codec, input)) = Vals(codec) \cup {input}
        BY <1>0, <2>1, Added
      <4>3. Vals(Append(Append(codec, input), input)) = Vals(codec) \cup {input}
        <5> DEFINE one == Append(codec, input)
        <5> HIDE DEF one
        <5>1. one \in Seq(Nat \ {0})
          BY <4>2 DEF one
        <5>2. Vals(Append(one, input)) = Vals(one) \cup {input}
          BY <2>1, <5>1, Added
        <5> QED
          BY <4>2, <5>2 DEF one
      <4> QED
        BY <2>3, <3>1, <4>1, <4>2, <4>3 DEF Accept
    <3>3. Old' \subseteq Old
      <4>1. ASSUME NEW n \in Old' PROVE n \in Old
        <5>1. n \in 1..mark /\ n # 0
          BY <2>1 DEF Old
        <5>2. n \in Place(2)' \/ n \in Place(3)' \/ n \in Place(5)' \/ n \in Place(6)' \/ n = drain'
          BY DEF Old
        <5>3. n \in Place(2) \/ n \in Place(3) \/ n \in Place(5) \/ n \in Place(6)
          BY <2>1, <3>1, <3>2, <5>1, <5>2 DEF Place
        <5> QED
          BY <5>1, <5>3 DEF Old
      <4> QED
        BY <4>1
    <3> QED
      BY <1>1, <2>1, <3>3
  <2> QED
    BY <1>5, <2>2, <2>3 DEF Send, Accept
<1>6. CASE ReceiveVideo \/ ReceiveAudio \/ ReceiveAudioEnd
  <2>0. output # None /\ DataType /\ UNCHANGED <<stream, stale, mark, pushed, input, pktQ>> /\ tpc = "receive"
    BY <1>6 DEF Inv, HandInv, TypeOK, ReceiveVideo, ReceiveAudio, ReceiveAudioEnd, obsVars
  <2>1. CASE HasFrame(codec)
    <3> DEFINE e == Head(codec)
    <3>1. /\ codec' = Tail(codec) /\ drain' = drain
          /\ frmQ' = frmQ \/ GiveFrame(e, "data")
      BY <1>6, <2>1 DEF ReceiveVideo, ReceiveAudio, ReceiveAudioEnd
    <3>2. codec # <<>>
      <4>1. Len(codec) > 0
        BY <1>0, <2>1 DEF HasFrame
      <4> QED
        BY <1>0, <4>1
    <3>3. e \in Nat \ {0} /\ Vals(codec) = Vals(codec') \cup {e}
      BY <1>0, <3>1, <3>2, Taken
    <3> HIDE DEF e
    <3>4. \A n \in Vals(NumbersOf(frmQ')) : n \in Vals(NumbersOf(frmQ)) \/ n = e
      <4>1. CASE frmQ' = frmQ
        BY <4>1
      <4>2. CASE GiveFrame(e, "data")
        <5>1. Vals(NumbersOf(frmQ')) = Vals(NumbersOf(frmQ)) \cup {e}
          BY <2>0, <3>3, <4>2, FrameGiven
        <5> QED
          BY <5>1
      <4> QED
        BY <3>1, <4>1, <4>2
    <3>5. ~Stuck
      BY <3>2 DEF Stuck
    <3>6. Old' \subseteq Old
      <4>1. ASSUME NEW n \in Old' PROVE n \in Old
        <5>1. n \in 1..mark
          BY <2>0 DEF Old
        <5>2. n \in Place(2)' \/ n \in Place(3)' \/ n \in Place(5)' \/ n \in Place(6)' \/ n = drain'
          BY DEF Old
        <5>3. n \in Place(2) \/ n \in Place(3) \/ n \in Place(5) \/ n \in Place(6) \/ n = drain
          BY <2>0, <3>1, <3>3, <3>4, <5>2 DEF Place
        <5> QED
          BY <3>5, <5>1, <5>3 DEF Old
      <4> QED
        BY <4>1
    <3> QED
      BY <1>1, <2>0, <3>6
  <2>2. CASE ~HasFrame(codec)
    <3>1. /\ codec' = codec /\ drain # None
          /\ \/ ~Stuck /\ drain' = None /\ GiveFrame(drain, "end")
             \/ /\ drain' = drain /\ eosFlag' = eosFlag
                /\ frmQ' = frmQ \/ GiveFrame(drain, "empty")
      BY <1>6, <2>2 DEF ReceiveVideo, ReceiveAudio, ReceiveAudioEnd, Stuck
    <3>2. CASE ~Stuck /\ drain' = None /\ GiveFrame(drain, "end")
      <4>1. Vals(NumbersOf(frmQ')) = Vals(NumbersOf(frmQ)) \cup {drain}
        BY <1>0, <2>0, <3>1, <3>2, FrameGiven
      <4>2. ASSUME NEW n \in Old' PROVE n \in Old
        <5>1. n \in 1..mark /\ n # 0
          BY <2>0 DEF Old
        <5>2. n \in Place(2)' \/ n \in Place(3)' \/ n \in Place(5)' \/ n \in Place(6)' \/ n = drain'
          BY DEF Old
        <5>3. n \in Place(2) \/ n \in Place(3) \/ n \in Place(5) \/ n \in Place(6) \/ n = drain
          BY <2>0, <3>1, <3>2, <4>1, <5>1, <5>2 DEF Place
        <5> QED
          BY <3>2, <5>1, <5>3 DEF Old
      <4>3. Old' \subseteq Old
        BY <4>2
      <4> QED
        BY <1>1, <2>0, <4>3
    <3>3. CASE drain' = drain /\ eosFlag' = eosFlag /\ (frmQ' = frmQ \/ GiveFrame(drain, "empty"))
      <4>1. \A n \in Vals(NumbersOf(frmQ')) : n \in Vals(NumbersOf(frmQ)) \/ n = None
        <5>1. CASE frmQ' = frmQ
          BY <5>1
        <5>2. CASE GiveFrame(drain, "empty")
          <6>1. Vals(NumbersOf(frmQ')) = Vals(NumbersOf(frmQ)) \cup {None}
            BY <1>0, <2>0, <3>1, <5>2, FrameGiven
          <6> QED
            BY <6>1
        <5> QED
          BY <3>3, <5>1, <5>2
      <4>2. Stuck' <=> Stuck
        BY <2>0, <3>1, <3>3 DEF Stuck
      <4>3. ASSUME NEW n \in Old' PROVE n \in Old
        <5>1. n \in 1..mark /\ n # 0
          BY <2>0 DEF Old
        <5>2. \/ n \in Place(2)' \/ n \in Place(3)' \/ n \in Place(5)' \/ n \in Place(6)'
              \/ n = drain' /\ ~Stuck'
          BY DEF Old
        <5>3. \/ n \in Place(2) \/ n \in Place(3) \/ n \in Place(5) \/ n \in Place(6)
              \/ n = drain /\ ~Stuck
          BY <2>0, <3>1, <3>3, <4>1, <4>2, <5>1, <5>2 DEF Place
        <5> QED
          BY <5>1, <5>3 DEF Old
      <4>4. Old' \subseteq Old
        BY <4>3
      <4> QED
        BY <1>1, <2>0, <4>4
    <3> QED
      BY <3>1, <3>2, <3>3
  <2> QED
    BY <2>1, <2>2
<1>7. CASE PushPacket
  <2>1. /\ UNCHANGED <<stream, stale, mark, frmQ, codec, drain, eosFlag, input>>
        /\ pushed' = pushed + 1 /\ pktQ' = Append(pktQ, pushed + 1) /\ pushed + 1 \in Nat \ {0}
    BY <1>0, <1>7 DEF PushPacket, pools, taskVars
  <2>2. Vals(pktQ') = Vals(pktQ) \cup {pushed + 1}
    BY <1>0, <2>1, Added
  <2>3. Old' \subseteq Old
    <3>1. (Stuck' <=> Stuck) /\ drain' = drain /\ mark' = mark
      BY <2>1 DEF Stuck
    <3>2. \A n \in 1..mark : n # pushed + 1
      BY <1>0
    <3>3. \A k \in {2, 3, 5, 6} : \A n \in Place(k)' : n \in Place(k) \/ n = pushed + 1
      BY <2>1, <2>2 DEF Place
    <3> QED
      BY <3>1, <3>2, <3>3 DEF Old
  <2> QED
    BY <1>0, <2>1, <2>3, OldLess
<1>8. CASE PullFrame
  BY <1>8, StalePull
<1>9. CASE OnFlushFrames
  BY <1>9, StaleFlush
<1> QED
  BY <1>2, <1>3, <1>4, <1>5, <1>6, <1>7, <1>8, <1>9 DEF Next, Player, Task, Deliver

LEMMA InitIInv ==
  ASSUME Init
  PROVE  IInv
<1>1. Inv
  BY InitInv
<1>2. stream.delay \in Nat
  BY <1>1 DEF Inv, TypeOK, DataType
<1>3. KeepInv
  BY <1>2 DEF Init, KeepInv, Ends
<1>4. FlushInv
  BY DEF Init, FlushInv
<1>5. StaleInv
  <2>1. Old = {}
    BY DEF Init, Old
  <2> QED
    BY <1>2, <2>1, FS_EmptySet DEF Init, StaleInv
<1> QED
  BY <1>1, <1>3, <1>4, <1>5 DEF IInv

(* StaleBounded for any delay of the codec: of before a flush at most the  *)
(* delay and two frames come out after it.                                 *)
THEOREM StaleIsBounded == Spec => []StaleBounded
<1>1. IInv /\ [Next]_vars => IInv'
  BY NextInv, KeepStep, FlushStep, StaleStep DEF IInv
<1>2. IInv => StaleBounded
  <2> SUFFICES ASSUME IInv, stream.rich = {} PROVE stale <= stream.delay + 2
    BY DEF StaleBounded
  <2>1. stale \in Nat /\ mark \in Nat /\ stream.delay \in Nat
    BY DEF IInv, Inv, TypeOK, DataType
  <2>2. Cardinality(Old) \in Nat
    BY <2>1, OldFinite
  <2> QED
    BY <2>1, <2>2 DEF IInv, StaleInv
<1> QED
  BY <1>1, <1>2, InitIInv, PTL DEF Spec
=============================================================================
