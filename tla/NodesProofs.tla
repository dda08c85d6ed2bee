------------------------------ MODULE NodesProofs ------------------------------
EXTENDS MCNodes, FiniteSetTheorems, SequenceTheorems, WellFoundedInduction, TLAPS

USE NodesAssumption

Heaps == {"none", "live", "freed"}
Refs == B!Objects \union {NULL}
Worlds ==
    [heap : [B!Objects -> Heaps], twice : SUBSET B!Objects, failed : SUBSET B!Objects, root : [B!Lines -> Refs],
     links : [B!Objects -> [next : Refs, prev : Refs]], bus : Seq(B!Objects),
     meta : [B!Media -> Refs], owned : [B!Objects -> SUBSET B!Objects]]

(* The chain of the demuxer, and the chain of a medium before prepare()    *)
(* and after: what exists on it, who owns it, and how it hangs.            *)
RootBuilt(w, head) ==
    LET n == B!Obj("demuxer", "root")
        uri == B!Obj("uri", "root")
    IN  \/ /\ head = n /\ w.root["root"] = n
           /\ w.heap[n] = "live" /\ w.heap[uri] = "live"
           /\ w.owned[n] = {uri} /\ w.links[n].next = NULL
        \/ /\ head = NULL /\ w.root["root"] = NULL
           /\ w.heap[n] # "live" /\ w.heap[uri] # "live"

(* An application's metadata that no decoder has taken, or that was deleted *)
(* with a decoder whose init() failed.                                     *)
MetaLeft(w, line) ==
    w.meta[line] = B!Obj("app", line)
      /\ (w.heap[B!Obj("app", line)] = "live" \/ B!Obj("decoder", line) \in w.failed)

MetaKept(w, line) ==
    \/ w.meta[line] = NULL /\ w.heap[B!Obj("app", line)] # "live"
    \/ MetaLeft(w, line)

LineEmpty(w, line) ==
    /\ w.root[line] = NULL
    /\ \A what \in {"decoder", "sink", "in", "out", "context"} :
          w.heap[B!Obj(what, line)] = "none" /\ w.owned[B!Obj(what, line)] = {}
    /\ \/ w.meta[line] = NULL /\ w.heap[B!Obj("app", line)] = "none"
       \/ w.meta[line] = B!Obj("app", line) /\ w.heap[B!Obj("app", line)] = "live"

DecoderBuilt(w, line) ==
    LET n == B!Obj("decoder", line)
    IN  /\ w.heap[n] = "live" /\ w.root[line] = n /\ w.meta[line] = NULL
        /\ \E meta \in {B!Obj("in", line), B!Obj("app", line)} :
              /\ w.owned[n] = {B!Obj("context", line), meta, B!Obj("out", line)}
              /\ \A what \in {"in", "app"} : w.heap[B!Obj(what, line)] = "live" <=> B!Obj(what, line) = meta
        /\ w.heap[B!Obj("context", line)] = "live" /\ w.heap[B!Obj("out", line)] = "live"

DecoderMissing(w, line) ==
    /\ \A what \in {"decoder", "context", "in", "out"} : w.heap[B!Obj(what, line)] # "live"
    /\ MetaKept(w, line)

LineCoded(w, line) ==
    LET n == B!Obj("decoder", line)
        sink == B!Obj("sink", line)
    IN  /\ w.heap[sink] = "none" /\ w.owned[sink] = {}
        /\ \/ DecoderBuilt(w, line) /\ w.links[n].next = NULL
           \/ DecoderMissing(w, line) /\ w.root[line] = NULL

LineBuilt(w, line) ==
    LET n == B!Obj("decoder", line)
        sink == B!Obj("sink", line)
        last == IF w.heap[sink] = "live" THEN sink ELSE NULL
    IN  /\ last = sink => w.owned[sink] = {} /\ w.links[sink].next = NULL
        /\ \/ DecoderBuilt(w, line) /\ w.links[n].next = last
           \/ DecoderMissing(w, line) /\ w.root[line] = last

(* What is freed a second time when the objects are deleted.               *)
Again(w, objs) == {o \in objs : w.heap[o] = "freed"}

FreedWell(w) ==
    \A o \in w.twice : o.what = "app" /\ B!Object("decoder", o.line, o.session) \in w.failed

(* The first source that nothing was allocated for yet.                    *)
NextSession == IF state = "idle" THEN session ELSE session + 1

BusInv ==
    /\ state \in {"idle", "initialized", "prepared"}
    /\ session \in Nat \ {0} /\ (state # "idle" => session \in 1..Sessions)
    /\ B!World \in Worlds
    /\ FreedWell(B!World)
    /\ \A o \in B!Objects : o.session < session => heap[o] # "live"
    /\ \A o \in B!Objects : o.session >= NextSession => heap[o] = "none" /\ owned[o] = {}
    /\ state = "idle" =>
          mDemuxer = NULL /\ mRootNodes = [l \in B!Lines |-> NULL] /\ mMeta = [m \in B!Media |-> NULL]
    /\ state # "idle" => RootBuilt(B!World, mDemuxer)
    /\ state = "initialized" => \A line \in B!Media : LineEmpty(B!World, line)
    /\ state = "initialized" /\ mDemuxer # NULL => mMeta = [m \in B!Media |-> NULL]
    /\ state = "prepared" => \A line \in B!Media : LineBuilt(B!World, line)

(* Only the objects and the chain of a line are touched.                   *)
Elsewhere(v, w, line) ==
    /\ \A o \in B!Objects : o.line # line \/ o.session # session =>
          v.heap[o] = w.heap[o] /\ v.owned[o] = w.owned[o] /\ v.links[o] = w.links[o]
    /\ \A l \in B!Lines : l # line => v.root[l] = w.root[l]
    /\ \A m \in B!Media : m # line => v.meta[m] = w.meta[m]
    /\ w.failed \subseteq v.failed

LEMMA ObjectFields ==
    ASSUME NEW what, NEW line, NEW n
    PROVE  /\ B!Object(what, line, n).what = what
           /\ B!Object(what, line, n).line = line
           /\ B!Object(what, line, n).session = n
BY DEF B!Object

LEMMA ObjectsOfSession ==
    ASSUME NEW n \in 1..Sessions
    PROVE  /\ B!Object("demuxer", "root", n) \in B!Objects
           /\ B!Object("uri", "root", n) \in B!Objects
           /\ \A line \in B!Media :
                \A what \in {"decoder", "sink", "in", "out", "context", "app"} :
                   B!Object(what, line, n) \in B!Objects
BY DEF B!Objects

LEMMA ObjectsAre ==
    ASSUME NEW o \in B!Objects
    PROVE  /\ o.session \in 1..Sessions
           /\ o = B!Object(o.what, o.line, o.session)
           /\ \/ o.line = "root" /\ o.what \in {"demuxer", "uri"}
              \/ o.line \in B!Media /\ o.what \in {"decoder", "sink", "in", "out", "context", "app"}
BY DEF B!Objects, B!Object

LEMMA NewWorld ==
    ASSUME NEW w \in Worlds, NEW o \in B!Objects, NEW v, v = B!New(w, o)
    PROVE  /\ v \in Worlds
           /\ v.heap = [w.heap EXCEPT ![o] = "live"]
           /\ v.twice = w.twice /\ v.failed = w.failed /\ v.root = w.root /\ v.links = w.links
           /\ v.meta = w.meta /\ v.owned = w.owned
BY DEF B!New, Worlds, Heaps

LEMMA DeleteWorld ==
    ASSUME NEW w \in Worlds, NEW o \in B!Objects, NEW v, v = B!Delete(w, o)
    PROVE  /\ v \in Worlds
           /\ v.heap = [w.heap EXCEPT ![o] = "freed"]
           /\ v.twice = w.twice \union Again(w, {o}) /\ v.failed = w.failed
           /\ v.root = w.root /\ v.links = w.links
           /\ v.meta = w.meta /\ v.owned = w.owned
<1>1. o # NULL
  OBVIOUS
<1> QED BY <1>1 DEF B!Delete, B!DeleteAll, Again, Worlds, Heaps

LEMMA DeleteNodeWorld ==
    ASSUME NEW w \in Worlds, NEW n \in B!Objects, NEW v, v = B!DeleteNode(w, n),
           NEW dead, dead = {n} \union w.owned[n]
    PROVE  /\ v \in Worlds
           /\ v.heap = [o \in B!Objects |-> IF o \in dead THEN "freed" ELSE w.heap[o]]
           /\ v.twice = w.twice \union Again(w, dead) /\ v.failed = w.failed
           /\ v.root = w.root /\ v.links = w.links
           /\ v.meta = w.meta /\ v.owned = w.owned
BY DEF B!DeleteNode, B!DeleteAll, Again, Worlds, Heaps

LEMMA RegisterWorld ==
    ASSUME NEW w \in Worlds, NEW n \in B!Objects, NEW v, v = B!registerNode(w, n)
    PROVE  /\ v \in Worlds
           /\ v.heap = w.heap /\ v.twice = w.twice /\ v.failed = w.failed /\ v.root = w.root
           /\ v.meta = w.meta /\ v.owned = w.owned
           /\ v.links = [w.links EXCEPT ![n] = [next |-> NULL, prev |-> NULL]]
<1>1. <<n>> \o w.bus \in Seq(B!Objects)
  BY DEF Worlds
<1>2. [w.links EXCEPT ![n] = [next |-> NULL, prev |-> NULL]] \in [B!Objects -> [next : Refs, prev : Refs]]
  BY DEF Worlds, Refs
<1>3. B!registerNode(w, n) =
        [w EXCEPT !.bus = <<n>> \o w.bus, !.links = [w.links EXCEPT ![n] = [next |-> NULL, prev |-> NULL]]]
  BY DEF B!registerNode, Worlds
<1> QED BY <1>1, <1>2, <1>3 DEF Worlds

LEMMA AppendFirst ==
    ASSUME NEW w \in Worlds, NEW n \in B!Objects, NEW line \in B!Lines, w.heap[n] = "live",
           w.root[line] = NULL,
           NEW v, v = B!nodeChainAppend(w, n, line)
    PROVE  /\ v \in Worlds
           /\ v.heap = w.heap /\ v.twice = w.twice /\ v.failed = w.failed
           /\ v.meta = w.meta /\ v.owned = w.owned
           /\ v.root = [w.root EXCEPT ![line] = n]
           /\ v.links = [w.links EXCEPT ![n] = [next |-> NULL, prev |-> NULL]]
<1> DEFINE root == w.root[line]
<1>1. root \in Refs /\ w.links \in [B!Objects -> [next : Refs, prev : Refs]] /\ n \in Refs /\ NULL \in Refs
  BY DEF Worlds, Refs
<1>2. root = NULL
  OBVIOUS
<1>11. v = [w EXCEPT !.root = [w.root EXCEPT ![line] = n],
                    !.links = [w.links EXCEPT ![n] = [next |-> NULL, prev |-> NULL]]]
  BY <1>2 DEF B!nodeChainAppend, Worlds
<1>12. [w.links EXCEPT ![n] = [next |-> NULL, prev |-> NULL]] \in [B!Objects -> [next : Refs, prev : Refs]]
  BY <1>1
<1>13. [w.root EXCEPT ![line] = n] \in [B!Lines -> Refs]
  BY <1>1 DEF Worlds
<1> QED BY <1>11, <1>12, <1>13, <1>1, <1>2 DEF Worlds

LEMMA AppendSecond ==
    ASSUME NEW w \in Worlds, NEW n \in B!Objects, NEW line \in B!Lines, w.heap[n] = "live",
           w.root[line] # NULL, w.root[line] # n,
           NEW v, v = B!nodeChainAppend(w, n, line)
    PROVE  /\ v \in Worlds
           /\ v.heap = w.heap /\ v.twice = w.twice /\ v.failed = w.failed
           /\ v.meta = w.meta /\ v.owned = w.owned
           /\ v.root = w.root
           /\ v.links[n].next = NULL
           /\ v.links[w.root[line]].next = n
           /\ \A o \in B!Objects \ {n, w.root[line]} : v.links[o] = w.links[o]
<1> DEFINE root == w.root[line]
<1>1. root \in Refs /\ w.links \in [B!Objects -> [next : Refs, prev : Refs]] /\ n \in Refs /\ NULL \in Refs
  BY DEF Worlds, Refs
<1>3. root # NULL
  OBVIOUS
<1>12. root \in B!Objects
  BY <1>1, <1>3 DEF Refs
<1> DEFINE u == [w EXCEPT !.links[n] = [next |-> NULL, prev |-> root]]
<1>19. u = [w EXCEPT !.links = [w.links EXCEPT ![n] = [next |-> NULL, prev |-> root]]]
  BY DEF Worlds
<1>110. u.links = [w.links EXCEPT ![n] = [next |-> NULL, prev |-> root]] /\ u \in Worlds
  BY <1>19, <1>1, <1>12 DEF Worlds
<1>111. v = [u EXCEPT !.links[root].next = n]
  BY <1>3 DEF B!nodeChainAppend
<1> HIDE DEF u
<1>112. v = [u EXCEPT !.links = [u.links EXCEPT ![root].next = n]]
  BY <1>111, <1>110 DEF Worlds
<1>113. v = [[w EXCEPT !.links = u.links] EXCEPT !.links = [u.links EXCEPT ![root].next = n]]
  BY <1>112, <1>19, <1>110
<1>11. v = [w EXCEPT !.links = [[w.links EXCEPT ![n] = [next |-> NULL, prev |-> root]] EXCEPT ![root].next = n]]
  BY <1>113, <1>110 DEF Worlds
<1> DEFINE l == [w.links EXCEPT ![n] = [next |-> NULL, prev |-> root]]
           k == [l EXCEPT ![root].next = n]
<1>13. l \in [B!Objects -> [next : Refs, prev : Refs]]
  BY <1>1
<1> HIDE DEF l
<1>14. k \in [B!Objects -> [next : Refs, prev : Refs]] /\ k[root].next = n /\ \A o \in B!Objects \ {root} : k[o] = l[o]
  BY <1>12, <1>13, <1>1
<1>15. l[n].next = NULL /\ \A o \in B!Objects \ {n} : l[o] = w.links[o]
  BY <1>1 DEF l
<1>16. v = [w EXCEPT !.links = k]
  BY <1>11 DEF l
<1> HIDE DEF k
<1>17. v \in Worlds /\ v.links = k /\ v.root = w.root /\ v.heap = w.heap /\ v.twice = w.twice /\ v.failed = w.failed /\ v.meta = w.meta /\ v.owned = w.owned
  BY <1>14, <1>16 DEF Worlds
<1>18. root # n => v.links[n].next = NULL /\ \A o \in B!Objects \ {n, root} : v.links[o] = w.links[o]
  BY <1>17, <1>14, <1>15
<1> QED BY <1>17, <1>18, <1>14, <1>3

LEMMA DecoderIsFFmpegs ==
    ASSUME NEW line \in B!Media
    PROVE  B!RTNodeBus_findStub(line) = "ff_node_decoder"
<1> DEFINE Fits(i) == B!probeBusType(B!registerCoreStubs[i].role, line)
           P(i) == Fits(i) /\ \A j \in 1..(i - 1) : ~Fits(j)
           first == CHOOSE i \in DOMAIN B!registerCoreStubs : P(i)
<1>1. DOMAIN B!registerCoreStubs = {1, 2}
  BY DEF B!registerCoreStubs
<1>2. Fits(1)
  BY DEF B!probeBusType, B!registerCoreStubs
<1>3. P(1) /\ ~P(2)
  BY <1>2
<1> HIDE DEF P
<1>4. first = 1
  BY <1>1, <1>3
<1>5. B!RTNodeBus_findStub(line) = B!registerCoreStubs[first].name
  BY DEF B!RTNodeBus_findStub, P
<1>6. B!registerCoreStubs[1].name = "ff_node_decoder"
  BY DEF B!registerCoreStubs
<1> HIDE DEF first
<1> QED BY <1>4, <1>5, <1>6

LEMMA AddCodecBuilds ==
    ASSUME NEW w \in Worlds, NEW line \in B!Media, NEW init \in B!Inits,
           session \in 1..Sessions, LineEmpty(w, line),
           mDemuxer # NULL => w.meta[line] = NULL,
           NEW v, v = B!AddCodec(w, line, init)
    PROVE  /\ v \in Worlds
           /\ FreedWell(w) => FreedWell(v)
           /\ LineCoded(v, line)
           /\ Elsewhere(v, w, line)
<1> DEFINE n == B!Obj("decoder", line)
           in == B!Obj("in", line)
           app == B!Obj("app", line)
           context == B!Obj("context", line)
           fmt == B!Obj("out", line)
           sink == B!Obj("sink", line)
           Here == {n, in, app, context, fmt, sink}
           meta == B!findMetadata(w, line, init)
<1>1. Here \subseteq B!Objects
  BY ObjectsOfSession DEF B!Obj
<1>0. n \in B!Objects /\ in \in B!Objects /\ context \in B!Objects /\ fmt \in B!Objects
  BY <1>1
<1>2. \A o \in Here : o.line = line /\ o.session = session
  BY ObjectFields DEF B!Obj
<1>3. /\ n.what = "decoder" /\ in.what = "in" /\ app.what = "app"
      /\ context.what = "context" /\ fmt.what = "out" /\ sink.what = "sink"
  BY ObjectFields DEF B!Obj
<1>4. /\ \A o \in {n, in, context, fmt, sink} : w.heap[o] = "none" /\ w.owned[o] = {}
      /\ w.root[line] = NULL
      /\ \/ w.meta[line] = NULL /\ w.heap[app] = "none"
         \/ w.meta[line] = app /\ w.heap[app] = "live"
  BY DEF LineEmpty
<1>5. meta = IF mDemuxer # NULL THEN IF line \in tracks THEN in ELSE NULL
              ELSE IF init = "unnamed" THEN NULL ELSE w.meta[line]
  BY DEF B!findMetadata
<1>6. line \in B!Lines /\ NULL \notin Here
  BY <1>1 DEF B!Lines
<1> DEFINE given == IF meta = NULL \/ mDemuxer = NULL THEN w ELSE B!New(w, meta)
           born == B!New(given, n)
           opened == B!FFNodeDecoder_init(born, n, line, meta, init)
           bad == [opened EXCEPT !.failed = @ \union {n}]
           added == B!bus_find_and_add_codec(w, line, init)
<1>7. added = IF meta = NULL THEN w
              ELSE IF init = "opened" THEN B!registerNode(opened, n)
              ELSE B!DeleteNode(B!Delete(bad, meta), n)
  BY DecoderIsFFmpegs DEF B!bus_find_and_add_codec
<1>8. v = IF added.heap[n] # "live" THEN added
          ELSE B!nodeChainAppend([added EXCEPT !.meta[line] = NULL], n, line)
  BY DEF B!AddCodec
<1> HIDE DEF n, in, app, context, fmt, sink, meta, added, bad
<1>9. CASE meta = NULL
  <2>1. v = w
    BY <1>7, <1>8, <1>9, <1>4
  <2>2. DecoderMissing(w, line)
    BY <1>4 DEF DecoderMissing, MetaKept, MetaLeft, n, in, app, context, fmt
  <2> QED BY <2>1, <2>2, <1>4 DEF LineCoded, Elsewhere, sink
<1>10. CASE meta # NULL
  <2>1. meta \in {in, app} /\ (mDemuxer = NULL => meta = app /\ w.heap[app] = "live")
                          /\ (mDemuxer # NULL => meta = in /\ w.heap[app] = "none")
    BY <1>10, <1>5, <1>4, <1>6
  <2>2. meta \in B!Objects
    BY <2>1, <1>1
  <2>3. /\ given \in Worlds
        /\ given.heap = [w.heap EXCEPT ![meta] = "live"]
        /\ given.twice = w.twice /\ given.failed = w.failed /\ given.root = w.root /\ given.links = w.links
        /\ given.meta = w.meta /\ given.owned = w.owned
    <3>1. CASE mDemuxer = NULL
      BY <3>1, <2>1, <2>2 DEF Worlds
    <3>2. CASE mDemuxer # NULL
      BY <3>2, <1>10, <2>2, NewWorld
    <3> QED BY <3>1, <3>2
  <2> HIDE DEF given
  <2>4. /\ born \in Worlds
        /\ born.heap = [given.heap EXCEPT ![n] = "live"]
        /\ born.twice = w.twice /\ born.failed = w.failed /\ born.root = w.root /\ born.links = w.links
        /\ born.meta = w.meta /\ born.owned = w.owned
    BY <2>3, NewWorld, <1>1
  <2> HIDE DEF born
  <2>8. init # "unopened" =>
          /\ opened \in Worlds
          /\ opened.owned = [w.owned EXCEPT ![n] = {context, meta, fmt}]
          /\ opened.heap = [o \in B!Objects |-> IF o \in {n, context, meta, fmt} THEN "live" ELSE w.heap[o]]
          /\ opened.twice = w.twice /\ opened.failed = w.failed
          /\ opened.root = w.root /\ opened.links = w.links /\ opened.meta = w.meta
    <3> SUFFICES ASSUME init # "unopened"
                 PROVE  /\ opened \in Worlds
                        /\ opened.owned = [w.owned EXCEPT ![n] = {context, meta, fmt}]
                        /\ opened.heap = [o \in B!Objects |-> IF o \in {n, context, meta, fmt} THEN "live" ELSE w.heap[o]]
                        /\ opened.twice = w.twice /\ opened.failed = w.failed
                        /\ opened.root = w.root /\ opened.links = w.links /\ opened.meta = w.meta
      OBVIOUS
    <3>1. B!fa_decode_create(born, line, TRUE) = B!New(born, context)
      BY DEF B!fa_decode_create, B!fa_video_decode_create, B!fa_audio_decode_create, B!Media, context
    <3> DEFINE coded == B!New(born, context)
               full == B!New(coded, fmt)
    <3>21. coded = B!New(born, context) /\ full = B!New(coded, fmt)
      OBVIOUS
    <3> HIDE DEF coded, full
    <3>2. /\ coded \in Worlds
          /\ coded.heap = [born.heap EXCEPT ![context] = "live"]
          /\ coded.twice = w.twice /\ coded.failed = w.failed /\ coded.root = w.root /\ coded.links = w.links
          /\ coded.meta = w.meta /\ coded.owned = w.owned
      <4>1. /\ coded \in Worlds
            /\ coded.heap = [born.heap EXCEPT ![context] = "live"]
            /\ coded.twice = born.twice /\ coded.failed = born.failed /\ coded.root = born.root /\ coded.links = born.links
            /\ coded.meta = born.meta /\ coded.owned = born.owned
        <5>1. born \in Worlds /\ context \in B!Objects /\ coded = B!New(born, context)
          BY <2>4, <3>21, <1>0
        <5> QED BY <5>1, NewWorld
      <4> QED BY <4>1, <2>4
    <3>3. opened = [B!New(coded, fmt) EXCEPT !.owned[n] = {context, meta, fmt}]
      BY <3>1 DEF B!FFNodeDecoder_init, context, fmt, coded
    <3>4. /\ full \in Worlds
          /\ full.heap = [coded.heap EXCEPT ![fmt] = "live"]
          /\ full.twice = w.twice /\ full.failed = w.failed /\ full.root = w.root /\ full.links = w.links
          /\ full.meta = w.meta /\ full.owned = w.owned
      BY <3>2, <3>21, NewWorld, <1>0
    <3>5. {context, meta, fmt} \subseteq B!Objects
      BY <2>2, <1>1
    <3> HIDE DEF opened
    <3>6. /\ opened \in Worlds
          /\ opened.owned = [w.owned EXCEPT ![n] = {context, meta, fmt}]
          /\ opened.heap = full.heap
          /\ opened.twice = w.twice /\ opened.failed = w.failed /\ opened.root = w.root /\ opened.links = w.links
          /\ opened.meta = w.meta
      BY <3>3, <3>4, <3>5, <1>1 DEF Worlds, full
    <3>7. full.heap = [o \in B!Objects |-> IF o \in {n, context, meta, fmt} THEN "live" ELSE w.heap[o]]
      <4>1. w.heap \in [B!Objects -> Heaps]
        BY DEF Worlds
      <4> QED BY <4>1, <2>3, <2>4, <3>2, <3>4, <1>1, <2>2
    <3> QED BY <3>6, <3>7
  <2> HIDE DEF opened
  <2>5. CASE init = "opened"
    <3>24. /\ opened \in Worlds
           /\ opened.owned = [w.owned EXCEPT ![n] = {context, meta, fmt}]
           /\ opened.heap = [o \in B!Objects |-> IF o \in {n, context, meta, fmt} THEN "live" ELSE w.heap[o]]
           /\ opened.twice = w.twice /\ opened.failed = w.failed
           /\ opened.root = w.root /\ opened.links = w.links /\ opened.meta = w.meta
      BY <2>5, <2>8
    <3>7. added = B!registerNode(opened, n)
      BY <1>7, <1>10, <2>5
    <3>8. /\ added \in Worlds
          /\ added.heap = opened.heap /\ added.twice = w.twice /\ added.failed = w.failed /\ added.root = w.root
          /\ added.meta = w.meta /\ added.owned = opened.owned
          /\ added.links = [w.links EXCEPT ![n] = [next |-> NULL, prev |-> NULL]]
      <4>1. opened \in Worlds /\ n \in B!Objects /\ added = B!registerNode(opened, n)
        BY <3>24, <3>7, <1>0
      <4>2. /\ added \in Worlds
            /\ added.heap = opened.heap /\ added.twice = opened.twice /\ added.failed = opened.failed /\ added.root = opened.root
            /\ added.meta = opened.meta /\ added.owned = opened.owned
            /\ added.links = [opened.links EXCEPT ![n] = [next |-> NULL, prev |-> NULL]]
        BY <4>1, RegisterWorld
      <4> QED BY <3>24, <4>2
    <3> DEFINE taken == [added EXCEPT !.meta[line] = NULL]
    <3>9. taken = [added EXCEPT !.meta = [added.meta EXCEPT ![line] = NULL]]
      BY <3>8 DEF Worlds
    <3>10. [added.meta EXCEPT ![line] = NULL] \in [B!Media -> Refs]
      BY <3>8 DEF Worlds, Refs
    <3> HIDE DEF taken
    <3>11. /\ taken \in Worlds
           /\ taken.heap = opened.heap /\ taken.twice = w.twice /\ taken.failed = w.failed /\ taken.root = w.root
           /\ taken.owned = opened.owned /\ taken.links = added.links
           /\ taken.meta = [w.meta EXCEPT ![line] = NULL]
      BY <3>8, <3>9, <3>10 DEF Worlds
    <3>12. opened.heap = [o \in B!Objects |-> IF o \in {n, context, meta, fmt} THEN "live" ELSE w.heap[o]]
      BY <3>24
    <3>13. added.heap[n] = "live" /\ taken.heap[n] = "live"
      BY <3>12, <3>8, <3>11, <1>1
    <3>14. v = B!nodeChainAppend(taken, n, line)
      BY <3>13, <1>8 DEF taken
    <3>15. /\ v \in Worlds
           /\ v.heap = opened.heap /\ v.twice = w.twice /\ v.failed = w.failed
           /\ v.owned = [w.owned EXCEPT ![n] = {context, meta, fmt}]
           /\ v.meta = [w.meta EXCEPT ![line] = NULL]
           /\ v.root = [w.root EXCEPT ![line] = n]
           /\ v.links = [taken.links EXCEPT ![n] = [next |-> NULL, prev |-> NULL]]
      <4>1. n \in B!Objects /\ line \in B!Lines /\ taken.root[line] = NULL
        BY <3>11, <1>4, <1>0, <1>6
      <4>2. /\ v \in Worlds
            /\ v.heap = taken.heap /\ v.twice = taken.twice /\ v.failed = taken.failed
            /\ v.meta = taken.meta /\ v.owned = taken.owned
            /\ v.root = [taken.root EXCEPT ![line] = n]
            /\ v.links = [taken.links EXCEPT ![n] = [next |-> NULL, prev |-> NULL]]
        <5>1. taken \in Worlds /\ taken.heap[n] = "live" /\ v = B!nodeChainAppend(taken, n, line)
          BY <3>11, <3>13, <3>14
        <5> QED BY <5>1, <4>1, AppendFirst
      <4> QED BY <4>2, <3>11, <3>24
    <3>16. v.links[n].next = NULL /\ \A o \in B!Objects \ {n} : v.links[o] = w.links[o]
      BY <3>15, <3>11, <3>8, <1>1 DEF Worlds
    <3>17. /\ v.root[line] = n /\ \A l \in B!Lines : l # line => v.root[l] = w.root[l]
           /\ v.meta[line] = NULL /\ \A m \in B!Media : m # line => v.meta[m] = w.meta[m]
           /\ v.owned[n] = {context, meta, fmt} /\ \A o \in B!Objects \ {n} : v.owned[o] = w.owned[o]
      BY <3>15, <1>1, <1>6 DEF Worlds
    <3>18. /\ \A o \in {n, context, meta, fmt} : v.heap[o] = "live"
           /\ \A o \in B!Objects \ {n, context, meta, fmt} : v.heap[o] = w.heap[o]
      BY <3>15, <3>12, <1>1, <2>2
    <3>19. DecoderBuilt(v, line)
      <4>1. \A o \in {in, app} : v.heap[o] = "live" <=> o = meta
        <5>1. CASE meta = in
          BY <5>1, <3>18, <2>1, <1>3, <1>1, <1>4 
        <5>2. CASE meta = app
          BY <5>2, <3>18, <2>1, <1>3, <1>1, <1>4
        <5> QED BY <5>1, <5>2, <2>1
      <4> QED BY <4>1, <3>17, <3>18, <2>1 DEF DecoderBuilt, n, in, app, context, fmt
    <3>20. v.heap[sink] = "none" /\ v.owned[sink] = {}
      BY <3>17, <3>18, <1>3, <1>4, <1>1, <2>1
    <3>22. Elsewhere(v, w, line)
      BY <3>15, <3>16, <3>17, <3>18, <1>2, <2>1 DEF Elsewhere
    <3>23. FreedWell(w) => FreedWell(v)
      BY <3>15 DEF FreedWell
    <3> QED BY <3>15, <3>16, <3>19, <3>20, <3>22, <3>23 DEF LineCoded, n, sink
  <2> DEFINE less == B!Delete(bad, meta)
  <2>9. ASSUME opened \in Worlds
        PROVE  /\ bad \in Worlds
               /\ bad.heap = opened.heap /\ bad.twice = opened.twice /\ bad.failed = opened.failed \union {n}
               /\ bad.root = opened.root /\ bad.links = opened.links
               /\ bad.meta = opened.meta /\ bad.owned = opened.owned
    <3>1. bad = [opened EXCEPT !.failed = opened.failed \union {n}]
      BY <2>9 DEF Worlds, bad
    <3>2. opened.failed \union {n} \in SUBSET B!Objects
      BY <2>9, <1>0 DEF Worlds
    <3> QED BY <2>9, <3>1, <3>2 DEF Worlds
  <2>10. ASSUME bad \in Worlds
         PROVE  /\ less \in Worlds
                /\ less.heap = [bad.heap EXCEPT ![meta] = "freed"]
                /\ less.twice = bad.twice \union Again(bad, {meta}) /\ less.failed = bad.failed
                /\ less.root = bad.root /\ less.links = bad.links
                /\ less.meta = bad.meta /\ less.owned = bad.owned
    <3> HIDE DEF less
    <3>1. less = B!Delete(bad, meta)
      BY DEF less
    <3>2. bad \in Worlds /\ meta \in B!Objects
      BY <2>10, <2>2
    <3> QED BY <3>1, <3>2, DeleteWorld, Z3
  <2> HIDE DEF less
  <2>11. ASSUME less \in Worlds, init # "opened", NEW dead, dead = {n} \union less.owned[n]
         PROVE  /\ added \in Worlds
                /\ added.heap = [o \in B!Objects |-> IF o \in dead THEN "freed" ELSE less.heap[o]]
                /\ added.twice = less.twice \union Again(less, dead) /\ added.failed = less.failed
                /\ added.root = less.root /\ added.links = less.links
                /\ added.meta = less.meta /\ added.owned = less.owned
    <3>1. added = B!DeleteNode(less, n)
      BY <1>7, <1>10, <2>11 DEF less
    <3> QED BY <3>1, <2>11, <1>0, DeleteNodeWorld
  <2>12. n \notin {meta, context, fmt, app, sink} /\ sink \notin {context, meta, fmt, app, in} /\ app \notin {context, fmt, in}
    BY <1>3, <2>1
  <2>6. CASE init = "unopened"
    <3>1. B!fa_decode_create(born, line, FALSE) = born
      BY DEF B!fa_decode_create, B!fa_video_decode_create, B!fa_audio_decode_create
    <3>2. opened = born
      BY <3>1, <2>6 DEF B!FFNodeDecoder_init, opened
    <3>3. /\ less \in Worlds /\ less.heap = [born.heap EXCEPT ![meta] = "freed"]
          /\ less.twice = w.twice \union Again(born, {meta}) /\ less.failed = w.failed \union {n}
          /\ less.root = w.root /\ less.links = w.links /\ less.meta = w.meta /\ less.owned = w.owned
      <4>1. opened \in Worlds /\ opened.heap = born.heap /\ opened.twice = w.twice /\ opened.failed = w.failed
            /\ opened.root = w.root /\ opened.links = w.links /\ opened.meta = w.meta /\ opened.owned = w.owned
        BY <3>2, <2>4
      <4>2. /\ bad \in Worlds
            /\ bad.heap = born.heap /\ bad.twice = w.twice /\ bad.failed = w.failed \union {n}
            /\ bad.root = w.root /\ bad.links = w.links /\ bad.meta = w.meta /\ bad.owned = w.owned
        BY <4>1, <2>9
      <4>3. Again(bad, {meta}) = Again(born, {meta})
        BY <4>2 DEF Again
      <4> QED BY <4>2, <4>3, <2>10
    <3>4. born.heap[meta] = "live" /\ less.heap[n] = "live" /\ less.twice = w.twice
      BY <3>3, <2>4, <2>3, <2>2, <2>12, <1>0 DEF Worlds, Again
    <3>5. less.owned[n] = {}
      BY <3>3, <1>4
    <3>6. /\ added \in Worlds
          /\ added.heap = [o \in B!Objects |-> IF o \in {n} THEN "freed" ELSE less.heap[o]]
          /\ added.twice = less.twice \union Again(less, {n}) /\ added.failed = less.failed
          /\ added.root = less.root /\ added.links = less.links
          /\ added.meta = less.meta /\ added.owned = less.owned
      <4> DEFINE dead == {n}
      <4>1. dead = {n} \union less.owned[n]
        BY <3>5
      <4> HIDE DEF dead
      <4>2. init # "opened"
        BY <2>6
      <4>3. /\ added \in Worlds
            /\ added.heap = [o \in B!Objects |-> IF o \in dead THEN "freed" ELSE less.heap[o]]
            /\ added.twice = less.twice \union Again(less, dead) /\ added.failed = less.failed
            /\ added.root = less.root /\ added.links = less.links
            /\ added.meta = less.meta /\ added.owned = less.owned
        BY <4>1, <4>2, <3>3, <2>11
      <4> QED BY <4>3 DEF dead
    <3>7. added.twice = w.twice /\ added.heap[n] = "freed" /\ v = added /\ added.failed = w.failed \union {n}
      BY <3>6, <3>4, <3>3, <1>8, <1>0 DEF Again
    <3>8. v.heap[meta] = "freed" /\ \A o \in B!Objects \ {n, meta} : v.heap[o] = w.heap[o]
      BY <3>6, <3>7, <3>3, <2>4, <2>3, <2>2, <2>12 DEF Worlds
    <3>9. v.meta = w.meta /\ v.root = w.root /\ v.links = w.links /\ v.owned = w.owned
      BY <3>6, <3>7, <3>3
    <3>10. v.heap[context] = "none" /\ v.heap[fmt] = "none" /\ v.heap[sink] = "none"
      BY <3>8, <2>1, <1>1, <1>3, <1>4
    <3>11. v.heap[in] # "live" /\ (meta = in => v.meta[line] = NULL /\ v.heap[app] = "none")
           /\ (meta = app => v.meta[line] = app)
      BY <3>8, <3>9, <2>1, <2>12, <1>1, <1>3, <1>4
    <3>12. DecoderMissing(v, line)
      BY <3>7, <3>10, <3>11, <2>1 DEF DecoderMissing, MetaKept, MetaLeft, n, in, app, context, fmt
    <3>13. Elsewhere(v, w, line)
      BY <3>7, <3>8, <3>9, <2>1, <1>2 DEF Elsewhere
    <3>14. FreedWell(w) => FreedWell(v)
      BY <3>7 DEF FreedWell
    <3> QED BY <3>6, <3>7, <3>9, <3>10, <3>12, <3>13, <3>14, <1>4 DEF LineCoded, n, sink
  <2>7. CASE init = "unallocated"
    <3>1. mDemuxer = NULL /\ meta = app
      BY <2>7, <2>1 DEF B!Inits
    <3>2. init # "unopened" /\ init # "opened"
      BY <2>7
    <3>3. /\ less \in Worlds /\ less.heap = [opened.heap EXCEPT ![app] = "freed"]
          /\ less.twice = w.twice \union Again(opened, {app}) /\ less.failed = w.failed \union {n}
          /\ less.root = w.root /\ less.links = w.links /\ less.meta = w.meta
          /\ less.owned = [w.owned EXCEPT ![n] = {context, app, fmt}]
      <4>1. opened \in Worlds /\ opened.twice = w.twice /\ opened.failed = w.failed
            /\ opened.root = w.root /\ opened.links = w.links /\ opened.meta = w.meta
            /\ opened.owned = [w.owned EXCEPT ![n] = {context, app, fmt}]
        BY <3>1, <3>2, <2>8
      <4>2. /\ bad \in Worlds
            /\ bad.heap = opened.heap /\ bad.twice = w.twice /\ bad.failed = w.failed \union {n}
            /\ bad.root = w.root /\ bad.links = w.links /\ bad.meta = w.meta /\ bad.owned = opened.owned
        BY <4>1, <2>9
      <4>3. Again(bad, {app}) = Again(opened, {app})
        BY <4>2 DEF Again
      <4> QED BY <4>1, <4>2, <4>3, <3>1, <2>10
    <3>4. less.twice \subseteq w.twice \union {app} /\ less.owned[n] = {context, app, fmt}
      BY <3>3, <1>0 DEF Worlds, Again
    <3> DEFINE dead == {n, context, app, fmt}
    <3>5. dead = {n} \union less.owned[n] /\ dead \subseteq B!Objects
      BY <3>4, <1>1
    <3> HIDE DEF dead
    <3>6. /\ added \in Worlds
          /\ added.heap = [o \in B!Objects |-> IF o \in dead THEN "freed" ELSE less.heap[o]]
          /\ added.twice = less.twice \union Again(less, dead) /\ added.failed = less.failed
          /\ added.root = less.root /\ added.links = less.links
          /\ added.meta = less.meta /\ added.owned = less.owned
      <4>1. less \in Worlds /\ init # "opened" /\ dead = {n} \union less.owned[n]
        BY <3>5, <3>2, <3>3
      <4> QED BY <4>1, <2>11
    <3>7. \A o \in {n, context, fmt} : less.heap[o] = "live"
      BY <3>3, <3>2, <3>1, <2>8, <2>12, <1>0
    <3>8. added.twice \subseteq w.twice \union {app}
      BY <3>4, <3>6, <3>7 DEF dead, Again
    <3>9. \A o \in dead : added.heap[o] = "freed"
      BY <3>5, <3>6
    <3>10. v = added /\ v.failed = w.failed \union {n}
      BY <3>3, <3>6, <3>9, <1>8 DEF dead
    <3>11. \A o \in B!Objects \ dead : v.heap[o] = w.heap[o]
      BY <3>10, <3>6, <3>5, <3>3, <3>2, <3>1, <2>8 DEF dead
    <3>12. /\ v.meta = w.meta /\ v.root = w.root /\ v.links = w.links
           /\ \A o \in B!Objects \ {n} : v.owned[o] = w.owned[o]
      BY <3>10, <3>6, <3>3 DEF Worlds
    <3>13. sink \notin dead /\ in \notin dead
      BY <1>3 DEF dead
    <3>14. v.heap[sink] = "none" /\ v.owned[sink] = {} /\ v.heap[in] = "none"
      BY <3>13, <3>11, <3>12, <1>4, <1>1, <2>12
    <3>15. \A o \in {n, context, fmt} : v.heap[o] = "freed"
      BY <3>9, <3>10 DEF dead
    <3>16. v.meta[line] = app /\ n \in v.failed
      BY <3>10, <3>12, <3>1, <2>1, <1>10, <1>4
    <3>17. DecoderMissing(v, line)
      BY <3>14, <3>15, <3>16 DEF DecoderMissing, MetaKept, MetaLeft, n, in, app, context, fmt
    <3>18. Elsewhere(v, w, line)
      BY <3>10, <3>11, <3>12, <1>2 DEF Elsewhere, dead
    <3>19. app.what = "app" /\ B!Object("decoder", app.line, app.session) = n
      BY <1>2, <1>3 DEF n, B!Obj
    <3>20. FreedWell(w) => FreedWell(v)
      BY <3>8, <3>10, <3>19 DEF FreedWell
    <3> QED BY <3>6, <3>10, <3>12, <3>14, <3>17, <3>18, <3>20, <1>4 DEF LineCoded, sink
  <2>13. init \in {"opened", "unopened", "unallocated"}
    BY <1>10, <1>5, <2>1 DEF B!Inits
  <2> QED BY <2>5, <2>6, <2>7, <2>13
<1> QED BY <1>9, <1>10

LEMMA AddSinkBuilds ==
    ASSUME NEW w \in Worlds, NEW line \in B!Media,
           session \in 1..Sessions, LineCoded(w, line),
           NEW v, v = B!AddSink(w, line)
    PROVE  /\ v \in Worlds
           /\ v.twice = w.twice /\ v.failed = w.failed
           /\ LineBuilt(v, line)
           /\ Elsewhere(v, w, line)
<1> DEFINE n == B!Obj("decoder", line)
           sink == B!Obj("sink", line)
           added == B!bus_find_and_add_sink(w, line)
           born == B!New(w, sink)
           Rest == {B!Obj(what, line) : what \in {"decoder", "context", "in", "out", "app"}}
<1>1. n \in B!Objects /\ sink \in B!Objects /\ Rest \subseteq B!Objects
  BY ObjectsOfSession DEF B!Obj
<1>2. /\ n.line = line /\ n.session = session /\ sink.line = line /\ sink.session = session
      /\ n # sink /\ sink \notin Rest /\ n \in Rest
  BY ObjectFields DEF B!Obj
<1>3. /\ w.heap[sink] = "none" /\ w.owned[sink] = {}
      /\ \/ DecoderBuilt(w, line) /\ w.links[n].next = NULL
         \/ DecoderMissing(w, line) /\ w.root[line] = NULL
  BY DEF LineCoded
<1>4. line \in B!Lines /\ NULL \notin B!Objects
  BY DEF B!Lines
<1>5. added = IF ~B!findStub(line) THEN w
              ELSE IF w.heap[n] = "live" \/ w.meta[line] # NULL THEN B!registerNode(born, sink)
              ELSE born
  BY DEF B!bus_find_and_add_sink
<1>6. v = B!nodeChainAppend(added, sink, line)
  BY DEF B!AddSink
<1>7. /\ born \in Worlds
      /\ born.heap = [w.heap EXCEPT ![sink] = "live"]
      /\ born.twice = w.twice /\ born.failed = w.failed /\ born.root = w.root /\ born.links = w.links
      /\ born.meta = w.meta /\ born.owned = w.owned
  BY <1>1, NewWorld
<1> HIDE DEF n, sink, added, born, Rest
<1>8. ASSUME NEW u, u.heap = [w.heap EXCEPT ![sink] = w.heap[sink]] \/ u.heap = [w.heap EXCEPT ![sink] = "live"],
             u.meta = w.meta, u.owned = w.owned, u.failed = w.failed, u.root[line] = w.root[line]
      PROVE  /\ DecoderBuilt(w, line) => DecoderBuilt(u, line)
             /\ DecoderMissing(w, line) => DecoderMissing(u, line)
  <2>1. \A o \in Rest : u.heap[o] = w.heap[o]
    BY <1>1, <1>2, <1>8 DEF Worlds
  <2>2. \A what \in {"decoder", "context", "in", "out", "app"} : u.heap[B!Obj(what, line)] = w.heap[B!Obj(what, line)]
    BY <2>1 DEF Rest
  <2>3. /\ u.heap[B!Obj("decoder", line)] = w.heap[B!Obj("decoder", line)]
        /\ u.heap[B!Obj("context", line)] = w.heap[B!Obj("context", line)]
        /\ u.heap[B!Obj("out", line)] = w.heap[B!Obj("out", line)]
        /\ u.heap[B!Obj("in", line)] = w.heap[B!Obj("in", line)]
        /\ u.heap[B!Obj("app", line)] = w.heap[B!Obj("app", line)]
    BY <2>2
  <2>4. DecoderBuilt(w, line) => DecoderBuilt(u, line)
    BY <2>3, <1>8 DEF DecoderBuilt
  <2>5. DecoderMissing(w, line) => DecoderMissing(u, line)
    BY <2>3, <1>8 DEF DecoderMissing, MetaKept, MetaLeft
  <2> QED BY <2>4, <2>5
<1>9. CASE ~B!findStub(line)
  <2>1. v = w
    BY <1>9, <1>5, <1>6, <1>3 DEF B!nodeChainAppend
  <2>2. LineBuilt(w, line)
    BY <1>3, <1>4, <1>1 DEF LineBuilt, n, sink
  <2> QED BY <2>1, <2>2 DEF Elsewhere
<1>10. CASE B!findStub(line)
  <2>1. /\ added \in Worlds
        /\ added.heap = [w.heap EXCEPT ![sink] = "live"]
        /\ added.twice = w.twice /\ added.failed = w.failed /\ added.root = w.root
        /\ added.meta = w.meta /\ added.owned = w.owned
        /\ \A o \in B!Objects \ {sink} : added.links[o] = w.links[o]
    <3>1. CASE added = born
      BY <3>1, <1>7
    <3>2. CASE added = B!registerNode(born, sink)
      <4>1. born \in Worlds /\ sink \in B!Objects
        BY <1>7, <1>1
      <4>2. /\ added \in Worlds
            /\ added.heap = born.heap /\ added.twice = born.twice /\ added.failed = born.failed /\ added.root = born.root
            /\ added.meta = born.meta /\ added.owned = born.owned
            /\ added.links = [born.links EXCEPT ![sink] = [next |-> NULL, prev |-> NULL]]
        BY <4>1, <3>2, RegisterWorld
      <4>3. \A o \in B!Objects \ {sink} : added.links[o] = w.links[o]
        BY <4>2, <1>7, <1>1 DEF Worlds
      <4> QED BY <4>2, <4>3, <1>7
    <3> QED BY <3>1, <3>2, <1>5, <1>10
  <2>2. added.heap[sink] = "live" /\ added.owned[sink] = {}
    BY <2>1, <1>1, <1>3 DEF Worlds
  <2>3. CASE DecoderMissing(w, line) /\ w.root[line] = NULL
    <3>1. added \in Worlds /\ sink \in B!Objects /\ line \in B!Lines /\ added.heap[sink] = "live" /\ added.root[line] = NULL
      BY <2>1, <2>2, <2>3, <1>1, <1>4
    <3>2. /\ v \in Worlds
          /\ v.heap = added.heap /\ v.twice = added.twice /\ v.failed = added.failed
          /\ v.meta = added.meta /\ v.owned = added.owned
          /\ v.root = [added.root EXCEPT ![line] = sink]
          /\ v.links = [added.links EXCEPT ![sink] = [next |-> NULL, prev |-> NULL]]
      BY <3>1, <1>6, AppendFirst
    <3>3. /\ v.heap[sink] = "live" /\ v.owned[sink] = {}
          /\ v.root[line] = sink /\ v.links[sink].next = NULL
          /\ \A o \in B!Objects \ {sink} : v.links[o] = w.links[o]
          /\ \A l \in B!Lines : l # line => v.root[l] = w.root[l]
      BY <3>2, <2>1, <2>2, <1>1, <1>4 DEF Worlds
    <3>4. \A o \in B!Objects \ {sink} : v.heap[o] = w.heap[o]
      BY <3>2, <2>1 DEF Worlds
    <3>5. DecoderMissing(v, line)
      <4>1. \A o \in Rest : v.heap[o] = w.heap[o]
        BY <3>4, <1>1, <1>2
      <4>2. \A what \in {"decoder", "context", "in", "out", "app"} : v.heap[B!Obj(what, line)] = w.heap[B!Obj(what, line)]
        BY <4>1 DEF Rest
      <4>3. /\ v.heap[B!Obj("decoder", line)] = w.heap[B!Obj("decoder", line)]
            /\ v.heap[B!Obj("context", line)] = w.heap[B!Obj("context", line)]
            /\ v.heap[B!Obj("out", line)] = w.heap[B!Obj("out", line)]
            /\ v.heap[B!Obj("in", line)] = w.heap[B!Obj("in", line)]
            /\ v.heap[B!Obj("app", line)] = w.heap[B!Obj("app", line)]
        BY <4>2
      <4> QED BY <4>3, <3>2, <2>1, <2>3 DEF DecoderMissing, MetaKept, MetaLeft
    <3>6. LineBuilt(v, line)
      BY <3>3, <3>5 DEF LineBuilt, sink
    <3>7. Elsewhere(v, w, line)
      BY <3>3, <3>4, <3>2, <2>1, <1>2 DEF Elsewhere
    <3> QED BY <3>2, <3>6, <3>7, <2>1
  <2>4. CASE DecoderBuilt(w, line) /\ w.links[n].next = NULL
    <3>1. w.root[line] = n
      BY <2>4 DEF DecoderBuilt, n
    <3>2. added \in Worlds /\ sink \in B!Objects /\ line \in B!Lines /\ added.heap[sink] = "live"
          /\ added.root[line] # NULL /\ added.root[line] # sink
      BY <2>1, <2>2, <3>1, <1>1, <1>2, <1>4
    <3>3. /\ v \in Worlds
          /\ v.heap = added.heap /\ v.twice = added.twice /\ v.failed = added.failed
          /\ v.meta = added.meta /\ v.owned = added.owned
          /\ v.root = added.root
          /\ v.links[sink].next = NULL
          /\ v.links[added.root[line]].next = sink
          /\ \A o \in B!Objects \ {sink, added.root[line]} : v.links[o] = added.links[o]
      BY <3>2, <1>6, AppendSecond
    <3>4. /\ v.heap[sink] = "live" /\ v.owned[sink] = {}
          /\ v.links[n].next = sink
          /\ \A o \in B!Objects \ {sink, n} : v.links[o] = w.links[o]
      BY <3>3, <3>1, <2>1, <2>2
    <3>5. DecoderBuilt(v, line)
      BY <1>8, <2>4, <3>3, <2>1
    <3>6. LineBuilt(v, line)
      BY <3>3, <3>4, <3>5 DEF LineBuilt, sink, n
    <3>7. \A o \in B!Objects \ {sink} : v.heap[o] = w.heap[o]
      BY <3>3, <2>1 DEF Worlds
    <3>8. Elsewhere(v, w, line)
      BY <3>3, <3>4, <3>7, <2>1, <1>2 DEF Elsewhere
    <3> QED BY <3>3, <3>6, <3>8, <2>1
  <2> QED BY <2>3, <2>4, <1>3
<1> QED BY <1>9, <1>10

LEMMA OtherLines ==
    ASSUME NEW w, NEW v, NEW line \in B!Lines, NEW other \in B!Media, other # line,
           session \in 1..Sessions, Elsewhere(v, w, line)
    PROVE  /\ LineEmpty(w, other) => LineEmpty(v, other)
           /\ LineCoded(w, other) => LineCoded(v, other)
           /\ LineBuilt(w, other) => LineBuilt(v, other)
<1> DEFINE What == {"decoder", "sink", "in", "out", "context", "app"}
<1>1. \A what \in What : /\ B!Obj(what, other) \in B!Objects
                         /\ B!Obj(what, other).line # line
  BY ObjectsOfSession, ObjectFields DEF B!Obj
<1>2. \A what \in What : LET o == B!Obj(what, other)
                         IN  v.heap[o] = w.heap[o] /\ v.owned[o] = w.owned[o] /\ v.links[o] = w.links[o]
  BY <1>1 DEF Elsewhere
<1>3. v.root[other] = w.root[other] /\ v.meta[other] = w.meta[other] /\ w.failed \subseteq v.failed
  BY DEF Elsewhere, B!Lines
<1>4. MetaKept(w, other) => MetaKept(v, other)
  BY <1>2, <1>3 DEF MetaKept, MetaLeft
<1>5. LineEmpty(w, other) => LineEmpty(v, other)
  BY <1>2, <1>3 DEF LineEmpty
<1>6. DecoderBuilt(w, other) => DecoderBuilt(v, other)
  BY <1>2, <1>3 DEF DecoderBuilt
<1>7. DecoderMissing(w, other) => DecoderMissing(v, other)
  BY <1>2, <1>3, <1>4 DEF DecoderMissing
<1>8. LineCoded(w, other) => LineCoded(v, other)
  BY <1>2, <1>3, <1>6, <1>7 DEF LineCoded
<1>9. LineBuilt(w, other) => LineBuilt(v, other)
  BY <1>2, <1>3, <1>6, <1>7 DEF LineBuilt
<1> QED BY <1>5, <1>8, <1>9

LEMMA RootStays ==
    ASSUME NEW w, NEW v, NEW line \in B!Media,
           session \in 1..Sessions, Elsewhere(v, w, line), RootBuilt(w, mDemuxer)
    PROVE  RootBuilt(v, mDemuxer)
<1>1. \A what \in {"demuxer", "uri"} : /\ B!Obj(what, "root") \in B!Objects
                                       /\ B!Obj(what, "root").line # line
  BY ObjectsOfSession, ObjectFields DEF B!Obj, B!Media
<1>2. \A what \in {"demuxer", "uri"} :
         LET o == B!Obj(what, "root")
         IN  v.heap[o] = w.heap[o] /\ v.owned[o] = w.owned[o] /\ v.links[o] = w.links[o]
  BY <1>1 DEF Elsewhere
<1>3. v.root["root"] = w.root["root"]
  BY DEF Elsewhere, B!Lines, B!Media
<1> QED BY <1>2, <1>3 DEF RootBuilt

(* Nothing is left of a line but the metadata that no decoder has taken.   *)
LineReleased(w, line) ==
    /\ \A o \in B!Objects : o.session = session /\ o.line = line => w.heap[o] # "live" \/ o = w.meta[line]
    /\ w.meta[line] = NULL \/ MetaLeft(w, line)

RootReleased(w) == \A o \in B!Objects : o.session = session /\ o.line = "root" => w.heap[o] # "live"

LEMMA ReleaseRoot ==
    ASSUME NEW w \in Worlds, session \in 1..Sessions, RootBuilt(w, mDemuxer),
           NEW v, v = B!ReleaseChain(w, "root")
    PROVE  /\ v \in Worlds
           /\ v.twice = w.twice /\ v.failed = w.failed
           /\ v.meta = w.meta
           /\ RootReleased(v)
           /\ Elsewhere(v, w, "root")
<1> DEFINE n == B!Obj("demuxer", "root")
           uri == B!Obj("uri", "root")
<1>1. n \in B!Objects /\ uri \in B!Objects /\ n.line = "root" /\ uri.line = "root"
      /\ n.session = session /\ uri.session = session /\ n # NULL
  BY ObjectsOfSession, ObjectFields DEF B!Obj
<1>2. \A o \in B!Objects : o.session = session /\ o.line = "root" => o \in {n, uri}
  BY ObjectsAre DEF B!Obj, B!Media
<1>3. \/ /\ w.root["root"] = n
         /\ w.heap[n] = "live" /\ w.heap[uri] = "live"
         /\ w.owned[n] = {uri} /\ w.links[n].next = NULL
      \/ /\ w.root["root"] = NULL
         /\ w.heap[n] # "live" /\ w.heap[uri] # "live"
  BY DEF RootBuilt
<1> HIDE DEF n, uri
<1>4. CASE w.root["root"] = NULL
  <2>1. v = w
    BY <1>4 DEF B!ReleaseChain
  <2> QED BY <2>1, <1>4, <1>3, <1>2, <1>1 DEF RootReleased, Elsewhere
<1>5. CASE w.root["root"] # NULL
  <2>1. v = B!DeleteNode(w, n)
    BY <1>5, <1>3 DEF B!ReleaseChain
  <2> DEFINE dead == {n} \union w.owned[n]
  <2>2. /\ v \in Worlds
        /\ v.heap = [o \in B!Objects |-> IF o \in dead THEN "freed" ELSE w.heap[o]]
        /\ v.twice = w.twice \union Again(w, dead) /\ v.failed = w.failed
        /\ v.root = w.root /\ v.links = w.links
        /\ v.meta = w.meta /\ v.owned = w.owned
    <3>1. dead = {n} \union w.owned[n]
      OBVIOUS
    <3> HIDE DEF dead
    <3> QED BY <3>1, <2>1, <1>1, DeleteNodeWorld
  <2>3. dead = {n, uri}
    BY <1>5, <1>3
  <2> HIDE DEF dead
  <2>4. v.twice = w.twice /\ v.failed = w.failed
    BY <2>2, <2>3, <1>5, <1>3 DEF Again
  <2>5. RootReleased(v)
    BY <2>2, <2>3, <1>2 DEF RootReleased
  <2>6. Elsewhere(v, w, "root")
    BY <2>2, <2>3, <1>1 DEF Elsewhere
  <2> QED BY <2>2, <2>4, <2>5, <2>6
<1> QED BY <1>4, <1>5

LEMMA ReleaseLine ==
    ASSUME NEW w \in Worlds, NEW line \in B!Media,
           session \in 1..Sessions, LineBuilt(w, line),
           NEW v, v = B!ReleaseChain(w, line)
    PROVE  /\ v \in Worlds
           /\ v.twice = w.twice /\ v.failed = w.failed
           /\ v.meta = w.meta
           /\ LineReleased(v, line)
           /\ Elsewhere(v, w, line)
<1> DEFINE n == B!Obj("decoder", line)
           sink == B!Obj("sink", line)
           in == B!Obj("in", line)
           app == B!Obj("app", line)
           context == B!Obj("context", line)
           fmt == B!Obj("out", line)
           Here == {n, in, app, context, fmt, sink}
<1>1. Here \subseteq B!Objects /\ NULL \notin Here
  BY ObjectsOfSession DEF B!Obj
<1>2. \A o \in Here : o.line = line /\ o.session = session
  BY ObjectFields DEF B!Obj
<1>3. \A o \in B!Objects : o.session = session /\ o.line = line => o \in Here
  BY ObjectsAre DEF B!Obj, B!Media
<1>4. sink \notin {n, in, app, context, fmt} /\ app \notin {n, context, fmt}
  BY ObjectFields DEF B!Obj
<1> DEFINE last == IF w.heap[sink] = "live" THEN sink ELSE NULL
<1>5. /\ last = sink => w.owned[sink] = {} /\ w.links[sink].next = NULL
      /\ \/ DecoderBuilt(w, line) /\ w.links[n].next = last
         \/ DecoderMissing(w, line) /\ w.root[line] = last
  BY DEF LineBuilt
<1>6. DecoderMissing(w, line) =>
        /\ \A o \in {n, context, in, fmt} : w.heap[o] # "live"
        /\ \/ w.meta[line] = NULL /\ w.heap[app] # "live"
           \/ w.meta[line] = app /\ (w.heap[app] = "live" \/ n \in w.failed)
  BY DEF DecoderMissing, MetaKept, MetaLeft
<1>7. DecoderBuilt(w, line) =>
        /\ w.heap[n] = "live" /\ w.root[line] = n /\ w.meta[line] = NULL
        /\ \E meta \in {in, app} :
              /\ w.owned[n] = {context, meta, fmt}
              /\ w.heap[in] = "live" <=> in = meta
              /\ w.heap[app] = "live" <=> app = meta
        /\ w.heap[context] = "live" /\ w.heap[fmt] = "live"
  BY DEF DecoderBuilt
<1>8. LineReleased(v, line) <=>
        /\ \A o \in B!Objects : o.session = session /\ o.line = line => v.heap[o] # "live" \/ o = v.meta[line]
        /\ v.meta[line] = NULL \/ (v.meta[line] = app /\ (v.heap[app] = "live" \/ n \in v.failed))
  BY DEF LineReleased, MetaLeft
<1> HIDE DEF n, in, app, context, fmt, sink
<1>9. ASSUME NEW u \in Worlds, NEW x \in Here, v = B!DeleteNode(u, x),
             u.owned[x] \subseteq Here, u.heap[x] = "live", \A o \in u.owned[x] : u.heap[o] = "live",
             u.twice = w.twice, u.failed = w.failed, u.meta = w.meta, Elsewhere(u, w, line)
      PROVE  /\ v \in Worlds /\ v.twice = w.twice /\ v.failed = w.failed /\ v.meta = w.meta
             /\ Elsewhere(v, w, line)
             /\ v.heap[x] = "freed" /\ \A o \in u.owned[x] : v.heap[o] = "freed"
             /\ \A o \in B!Objects : o # x /\ o \notin u.owned[x] => v.heap[o] = u.heap[o]
  <2> DEFINE dead == {x} \union u.owned[x]
  <2>6. dead = {x} \union u.owned[x] /\ dead \subseteq Here /\ \A o \in dead : u.heap[o] = "live"
    BY <1>9
  <2> HIDE DEF dead
  <2>1. /\ v \in Worlds
        /\ v.heap = [o \in B!Objects |-> IF o \in dead THEN "freed" ELSE u.heap[o]]
        /\ v.twice = u.twice \union Again(u, dead) /\ v.failed = u.failed
        /\ v.root = u.root /\ v.links = u.links
        /\ v.meta = u.meta /\ v.owned = u.owned
    <3>1. u \in Worlds /\ x \in B!Objects /\ dead = {x} \union u.owned[x] /\ v = B!DeleteNode(u, x)
      BY <1>9, <1>1, <2>6
    <3> QED BY <3>1, DeleteNodeWorld
  <2>2. v.twice = w.twice /\ v.failed = w.failed
    BY <2>1, <1>9, <2>6 DEF Again
  <2>3. \A o \in dead : v.heap[o] = "freed"
    BY <2>1, <2>6, <1>1
  <2>4. \A o \in B!Objects \ dead : v.heap[o] = u.heap[o]
    BY <2>1
  <2>5. Elsewhere(v, w, line)
    BY <2>1, <2>6, <1>9, <1>2 DEF Elsewhere
  <2> QED BY <2>1, <2>2, <2>3, <2>4, <2>5, <2>6, <1>9
<1>10. Elsewhere(w, w, line)
  BY DEF Elsewhere
<1>11. CASE DecoderMissing(w, line) /\ w.root[line] = last
  <2>1. CASE last = NULL
    <3>1. v = w
      BY <2>1, <1>11 DEF B!ReleaseChain
    <3>2. \A o \in Here : w.heap[o] # "live" \/ o = w.meta[line]
      BY <2>1, <1>11, <1>6, <1>1
    <3> QED BY <3>1, <3>2, <1>3, <1>6, <1>8, <1>10, <1>11
  <2>2. CASE last # NULL
    <3>1. last = sink /\ w.heap[sink] = "live" /\ w.owned[sink] = {} /\ w.links[sink].next = NULL
      BY <2>2, <1>5
    <3>2. v = B!DeleteNode(w, sink)
      BY <3>1, <2>2, <1>11 DEF B!ReleaseChain
    <3>5. /\ v \in Worlds /\ v.twice = w.twice /\ v.failed = w.failed /\ v.meta = w.meta
          /\ Elsewhere(v, w, line)
          /\ v.heap[sink] = "freed"
          /\ \A o \in B!Objects : o # sink => v.heap[o] = w.heap[o]
      BY <3>1, <3>2, <1>9, <1>10
    <3>6. \A o \in Here : v.heap[o] # "live" \/ o = v.meta[line]
      BY <3>5, <1>6, <1>11, <1>1
    <3>7. v.meta[line] = NULL \/ (v.meta[line] = app /\ (v.heap[app] = "live" \/ n \in v.failed))
      BY <3>5, <1>6, <1>11, <1>1, <1>4
    <3> QED BY <3>5, <3>6, <3>7, <1>3, <1>8
  <2> QED BY <2>1, <2>2
<1>12. CASE DecoderBuilt(w, line) /\ w.links[n].next = last
  <2>1. PICK meta \in {in, app} :
              /\ w.owned[n] = {context, meta, fmt}
              /\ w.heap[in] = "live" <=> in = meta
              /\ w.heap[app] = "live" <=> app = meta
    BY <1>7, <1>12
  <2>2. w.heap[n] = "live" /\ w.root[line] = n /\ w.meta[line] = NULL /\ w.heap[context] = "live" /\ w.heap[fmt] = "live"
    BY <1>7, <1>12
  <2> DEFINE dead == {n, context, meta, fmt}
  <2>3. dead = {n} \union w.owned[n] /\ dead \subseteq Here /\ \A o \in dead : w.heap[o] = "live"
    BY <2>1, <2>2
  <2>4. \A o \in Here \ {sink} : o \in dead \/ w.heap[o] # "live"
    BY <2>1
  <2>5. sink \notin dead
    BY <1>4, <2>1
  <2> HIDE DEF dead
  <2>6. CASE last = NULL
    <3>1. v = B!DeleteNode(w, n)
      BY <2>6, <2>2, <1>12, <1>1 DEF B!ReleaseChain
    <3>2. /\ v \in Worlds /\ v.twice = w.twice /\ v.failed = w.failed /\ v.meta = w.meta
          /\ Elsewhere(v, w, line)
          /\ \A o \in dead : v.heap[o] = "freed"
          /\ \A o \in B!Objects \ dead : v.heap[o] = w.heap[o]
      <4>1. w.owned[n] \subseteq Here /\ w.heap[n] = "live" /\ \A o \in w.owned[n] : w.heap[o] = "live"
        BY <2>1, <2>2
      <4>2. /\ v \in Worlds /\ v.twice = w.twice /\ v.failed = w.failed /\ v.meta = w.meta
            /\ Elsewhere(v, w, line)
            /\ v.heap[n] = "freed" /\ \A o \in w.owned[n] : v.heap[o] = "freed"
            /\ \A o \in B!Objects : o # n /\ o \notin w.owned[n] => v.heap[o] = w.heap[o]
        BY <4>1, <3>1, <1>9, <1>10
      <4> QED BY <4>2, <2>3
    <3>3. w.heap[sink] # "live"
      BY <2>6, <1>1
    <3>4. \A o \in Here : v.heap[o] # "live"
      BY <3>2, <3>3, <2>4, <1>1
    <3> QED BY <3>2, <3>4, <2>2, <1>3, <1>8
  <2>7. CASE last # NULL
    <3>1. last = sink /\ w.heap[sink] = "live" /\ w.owned[sink] = {} /\ w.links[n].next = sink
      BY <2>7, <1>5, <1>12
    <3>0. w.links \in [B!Objects -> [next : Refs, prev : Refs]] /\ n \in B!Objects
      BY <1>1 DEF Worlds
    <3> DEFINE cut == [w EXCEPT !.links[n].next = NULL]
               less == B!DeleteNode(cut, sink)
    <3>2. v = B!DeleteNode(less, n)
      BY <3>1, <2>2, <1>1, <2>7 DEF B!ReleaseChain
    <3>3. cut = [w EXCEPT !.links = [w.links EXCEPT ![n].next = NULL]]
      BY DEF Worlds
    <3>4. [w.links EXCEPT ![n].next = NULL] \in [B!Objects -> [next : Refs, prev : Refs]]
      BY <1>1, <3>0 DEF Refs
    <3> HIDE DEF cut
    <3>5. /\ cut \in Worlds /\ cut.heap = w.heap /\ cut.twice = w.twice /\ cut.failed = w.failed /\ cut.root = w.root
          /\ cut.meta = w.meta /\ cut.owned = w.owned
          /\ cut.links = [w.links EXCEPT ![n].next = NULL]
      BY <3>3, <3>4 DEF Worlds
    <3>6. Elsewhere(cut, w, line)
      BY <3>5, <1>1, <1>2 DEF Elsewhere, Worlds
    <3> DEFINE gone == {sink}
    <3>7. gone = {sink} \union cut.owned[sink] /\ \A o \in gone : cut.heap[o] = "live"
      BY <3>5, <3>1
    <3> HIDE DEF less, gone
    <3>8. /\ less \in Worlds
          /\ less.heap = [o \in B!Objects |-> IF o \in gone THEN "freed" ELSE cut.heap[o]]
          /\ less.twice = cut.twice \union Again(cut, gone) /\ less.failed = cut.failed
          /\ less.root = cut.root /\ less.links = cut.links
          /\ less.meta = cut.meta /\ less.owned = cut.owned
      <4>1. cut \in Worlds /\ sink \in B!Objects /\ gone = {sink} \union cut.owned[sink] /\ less = B!DeleteNode(cut, sink)
        BY <3>5, <3>7, <1>1 DEF less
      <4> QED BY <4>1, DeleteNodeWorld
    <3>9. less.twice = w.twice /\ less.failed = w.failed
      BY <3>8, <3>7, <3>5, <1>10 DEF Again
    <3>10. less.heap[sink] = "freed" /\ \A o \in B!Objects \ {sink} : less.heap[o] = w.heap[o]
      BY <3>8, <3>5, <1>1 DEF gone
    <3>11. Elsewhere(less, w, line)
      BY <3>10, <3>8, <3>6, <1>2 DEF Elsewhere
    <3>12. dead = {n} \union less.owned[n] /\ \A o \in dead : less.heap[o] = "live"
      BY <3>8, <3>5, <3>10, <2>3, <2>5, <1>1
    <3>13. less.meta = w.meta
      BY <3>8, <3>5
    <3>14. /\ v \in Worlds /\ v.twice = w.twice /\ v.failed = w.failed /\ v.meta = w.meta
           /\ Elsewhere(v, w, line)
           /\ \A o \in dead : v.heap[o] = "freed"
           /\ \A o \in B!Objects \ dead : v.heap[o] = less.heap[o]
      <4>1. less.owned[n] = w.owned[n]
        BY <3>8, <3>5
      <4>2. less.owned[n] \subseteq Here /\ less.heap[n] = "live" /\ \A o \in less.owned[n] : less.heap[o] = "live"
        BY <4>1, <2>3, <3>12
      <4>3. less \in Worlds
        BY <3>8
      <4>4. /\ v \in Worlds /\ v.twice = w.twice /\ v.failed = w.failed /\ v.meta = w.meta
            /\ Elsewhere(v, w, line)
            /\ v.heap[n] = "freed" /\ \A o \in less.owned[n] : v.heap[o] = "freed"
            /\ \A o \in B!Objects : o # n /\ o \notin less.owned[n] => v.heap[o] = less.heap[o]
        BY <4>2, <4>3, <3>2, <3>9, <3>11, <3>13, <1>9
      <4> QED BY <4>4, <4>1, <2>3
    <3>15. \A o \in Here : v.heap[o] # "live"
      BY <3>14, <3>10, <2>4, <2>5, <1>1
    <3> QED BY <3>14, <3>15, <2>2, <1>3, <1>8
  <2> QED BY <2>6, <2>7
<1> QED BY <1>5, <1>11, <1>12

LEMMA BecomesWorld ==
    ASSUME NEW v \in Worlds, B!Becomes(v)
    PROVE  B!World' = v
BY DEF B!Becomes, B!World, Worlds

LEMMA WorldFields ==
    /\ B!World.heap = heap /\ B!World.twice = twice /\ B!World.failed = failed /\ B!World.root = mRootNodes
    /\ B!World.links = links /\ B!World.bus = mNodeBus /\ B!World.meta = mMeta /\ B!World.owned = owned
BY DEF B!World

(* What is said of a world that the bus becomes holds after the step.      *)
LEMMA Carried ==
    ASSUME session' = session, NEW v, B!World' = v
    PROVE  /\ \A line : LineEmpty(v, line) => LineEmpty(B!World, line)'
           /\ \A line : LineBuilt(v, line) => LineBuilt(B!World, line)'
           /\ RootBuilt(v, mDemuxer') => RootBuilt(B!World, mDemuxer)'
<1>1. \A line : MetaKept(v, line) => MetaKept(B!World, line)'
  BY DEF MetaKept, MetaLeft, B!Obj
<1>2. \A line : LineEmpty(v, line) => LineEmpty(B!World, line)'
  BY <1>1 DEF LineEmpty, B!Obj
<1>3. \A line : DecoderBuilt(v, line) => DecoderBuilt(B!World, line)'
  BY DEF DecoderBuilt, B!Obj
<1>4. \A line : DecoderMissing(v, line) => DecoderMissing(B!World, line)'
  BY <1>1 DEF DecoderMissing, B!Obj
<1>5. \A line : LineBuilt(v, line) => LineBuilt(B!World, line)'
  BY <1>3, <1>4 DEF LineBuilt, B!Obj
<1>6. RootBuilt(v, mDemuxer') => RootBuilt(B!World, mDemuxer)'
  BY DEF RootBuilt, B!Obj
<1> QED BY <1>2, <1>5, <1>6

LEMMA BusInit == B!Init => BusInv
<1> SUFFICES ASSUME B!Init
             PROVE  BusInv
  OBVIOUS
<1>1. /\ state = "idle" /\ session = 1
      /\ heap = [o \in B!Objects |-> "none"] /\ twice = {} /\ failed = {}
      /\ mRootNodes = [l \in B!Lines |-> NULL]
      /\ links = [o \in B!Objects |-> [next |-> NULL, prev |-> NULL]]
      /\ mNodeBus = <<>> /\ mDemuxer = NULL
      /\ mMeta = [m \in B!Media |-> NULL]
      /\ owned = [o \in B!Objects |-> {}]
  BY DEF B!Init
<1>2. <<>> \in Seq(B!Objects)
  OBVIOUS
<1>3. B!World \in Worlds
  BY <1>1, <1>2 DEF B!World, Worlds, Heaps, Refs
<1>4. FreedWell(B!World)
  BY <1>1, WorldFields DEF FreedWell
<1> QED BY <1>1, <1>3, <1>4 DEF BusInv

LEMMA BusSame ==
    ASSUME BusInv,
           UNCHANGED <<state, session, heap, twice, failed, mRootNodes, links, mNodeBus, mDemuxer, mMeta, owned>>
    PROVE  BusInv'
<1>1. PICK v : v = B!World
  OBVIOUS
<1>2. B!World' = v
  BY <1>1 DEF B!World
<1>3. /\ state = "initialized" => \A line \in B!Media : LineEmpty(B!World, line)'
      /\ state = "prepared" => \A line \in B!Media : LineBuilt(B!World, line)'
      /\ state # "idle" => RootBuilt(B!World, mDemuxer)'
  BY <1>1, <1>2, Carried DEF BusInv
<1>4. (B!World \in Worlds)'
  BY <1>1, <1>2 DEF BusInv, Worlds
<1>6. FreedWell(B!World)'
  BY <1>1, <1>2 DEF BusInv, FreedWell
<1>5. NextSession' = NextSession
  BY DEF NextSession
<1> QED BY <1>3, <1>4, <1>5, <1>6 DEF BusInv

LEMMA BusOpen ==
    ASSUME BusInv, B!OpenSource
    PROVE  BusInv'
<1> DEFINE n == B!Obj("demuxer", "root")
           uri == B!Obj("uri", "root")
           w == [B!World EXCEPT !.root["root"] = NULL]
           opened == [B!New(B!New(w, n), uri) EXCEPT !.owned[n] = {uri}]
<1>1. PICK opens \in BOOLEAN :
        LET v == B!bus_find_and_add_demuxer(w, opens)
        IN  /\ B!Becomes([v EXCEPT !.root["root"] = IF opens THEN n ELSE NULL])
            /\ mDemuxer' = IF opens THEN n ELSE NULL
            /\ state' = IF opens THEN "initialized" ELSE "idle"
            /\ session' = IF opens THEN session ELSE session + 1
  BY DEF B!OpenSource
<1>2. state = "idle" /\ session <= Sessions
  BY DEF B!OpenSource, B!autoBuild
<1>3. /\ session \in 1..Sessions
      /\ B!World \in Worlds /\ FreedWell(B!World)
      /\ \A o \in B!Objects : o.session < session => heap[o] # "live"
      /\ \A o \in B!Objects : o.session >= session => heap[o] = "none" /\ owned[o] = {}
      /\ mRootNodes = [l \in B!Lines |-> NULL] /\ mMeta = [m \in B!Media |-> NULL]
  BY <1>2 DEF BusInv, NextSession
<1>4. n \in B!Objects /\ uri \in B!Objects /\ n.line = "root" /\ uri.line = "root"
      /\ n.session = session /\ uri.session = session /\ n # uri /\ n # NULL
  BY <1>3, ObjectsOfSession, ObjectFields DEF B!Obj
<1>5. w = B!World
  BY <1>3, WorldFields DEF Worlds, B!Lines
<1>6. PICK born : born = B!New(B!World, n)
  OBVIOUS
<1>7. /\ born \in Worlds
      /\ born.heap = [heap EXCEPT ![n] = "live"]
      /\ born.twice = twice /\ born.failed = failed /\ born.root = mRootNodes /\ born.links = links
      /\ born.meta = mMeta /\ born.owned = owned
  <2>1. B!World \in Worlds /\ n \in B!Objects /\ born = B!New(B!World, n)
    BY <1>3, <1>4, <1>6
  <2>2. /\ born \in Worlds
        /\ born.heap = [B!World.heap EXCEPT ![n] = "live"]
        /\ born.twice = B!World.twice /\ born.failed = B!World.failed /\ born.root = B!World.root /\ born.links = B!World.links
        /\ born.meta = B!World.meta /\ born.owned = B!World.owned
    BY <2>1, NewWorld
  <2> QED BY <2>2, WorldFields
<1>8. PICK full : full = B!New(born, uri)
  OBVIOUS
<1>9. /\ full \in Worlds
      /\ full.heap = [born.heap EXCEPT ![uri] = "live"]
      /\ full.twice = born.twice /\ full.failed = born.failed /\ full.root = born.root /\ full.links = born.links
      /\ full.meta = born.meta /\ full.owned = born.owned
  <2>1. born \in Worlds /\ uri \in B!Objects
    BY <1>7, <1>4
  <2> QED BY <2>1, <1>8, NewWorld
<1>10. opened = [full EXCEPT !.owned[n] = {uri}]
  BY <1>5, <1>6, <1>8
<1> HIDE DEF opened
<1>11. opened = [full EXCEPT !.owned = [full.owned EXCEPT ![n] = {uri}]]
  BY <1>10, <1>9 DEF Worlds
<1>12. [full.owned EXCEPT ![n] = {uri}] \in [B!Objects -> SUBSET B!Objects]
  BY <1>9, <1>4 DEF Worlds
<1>13. /\ opened \in Worlds
       /\ opened.heap = full.heap
       /\ opened.twice = twice /\ opened.failed = failed /\ opened.root = mRootNodes /\ opened.links = links
       /\ opened.meta = mMeta /\ opened.owned = [owned EXCEPT ![n] = {uri}]
  BY <1>7, <1>9, <1>11, <1>12 DEF Worlds
<1>14. /\ opened.heap[n] = "live" /\ opened.heap[uri] = "live"
       /\ \A o \in B!Objects : o \notin {n, uri} => opened.heap[o] = heap[o]
       /\ opened.owned[n] = {uri} /\ \A o \in B!Objects : o # n => opened.owned[o] = owned[o]
  BY <1>13, <1>9, <1>7, <1>4, <1>3, WorldFields DEF Worlds
<1>15. CASE opens
  <2>1. PICK v : v = B!registerNode(opened, n)
    OBVIOUS
  <2>2. /\ v \in Worlds
        /\ v.heap = opened.heap /\ v.twice = opened.twice /\ v.failed = opened.failed /\ v.root = opened.root
        /\ v.meta = opened.meta /\ v.owned = opened.owned
        /\ v.links = [opened.links EXCEPT ![n] = [next |-> NULL, prev |-> NULL]]
    <3>1. opened \in Worlds /\ n \in B!Objects
      BY <1>13, <1>4
    <3> QED BY <3>1, <2>1, RegisterWorld
  <2>3. B!Becomes([v EXCEPT !.root["root"] = n])
        /\ mDemuxer' = n /\ state' = "initialized" /\ session' = session
    BY <1>1, <1>15, <2>1 DEF B!bus_find_and_add_demuxer, opened
  <2>4. [v EXCEPT !.root["root"] = n] = [v EXCEPT !.root = [v.root EXCEPT !["root"] = n]]
    BY <2>2 DEF Worlds
  <2>5. [v.root EXCEPT !["root"] = n] \in [B!Lines -> Refs]
    BY <2>2, <1>4 DEF Worlds, Refs
  <2>6. PICK u : u = [v EXCEPT !.root["root"] = n]
    OBVIOUS
  <2>7. /\ u \in Worlds
        /\ u.heap = v.heap /\ u.twice = v.twice /\ u.failed = v.failed /\ u.links = v.links
        /\ u.meta = v.meta /\ u.owned = v.owned
        /\ u.root = [v.root EXCEPT !["root"] = n]
    BY <2>2, <2>4, <2>5, <2>6 DEF Worlds
  <2>8. B!World' = u
    BY <2>3, <2>6, <2>7, BecomesWorld
  <2>9. /\ u.root["root"] = n /\ \A m \in B!Media : u.root[m] = NULL
        /\ u.links[n].next = NULL
    <3>1. "root" \in B!Lines /\ \A m \in B!Media : m \in B!Lines /\ m # "root"
      BY DEF B!Lines, B!Media
    <3>2. v.root = [l \in B!Lines |-> NULL]
      BY <2>2, <1>13, <1>3
    <3>3. u.links = [opened.links EXCEPT ![n] = [next |-> NULL, prev |-> NULL]] /\ opened.links \in [B!Objects -> [next : Refs, prev : Refs]]
      BY <2>7, <2>2, <1>13 DEF Worlds
    <3> QED BY <3>1, <3>2, <3>3, <2>7, <1>4
  <2>10. RootBuilt(u, n)
    BY <2>9, <2>7, <2>2, <1>14 DEF RootBuilt
  <2>11. \A line \in B!Media : LineEmpty(u, line)
    <3> SUFFICES ASSUME NEW line \in B!Media
                 PROVE  LineEmpty(u, line)
      OBVIOUS
    <3>1. \A what \in {"decoder", "sink", "in", "out", "context", "app"} :
             LET o == B!Obj(what, line)
             IN  o \in B!Objects /\ o.session >= session /\ o \notin {n, uri}
      BY <1>3, ObjectsOfSession, ObjectFields DEF B!Obj
    <3>2. \A what \in {"decoder", "sink", "in", "out", "context", "app"} :
             u.heap[B!Obj(what, line)] = "none" /\ u.owned[B!Obj(what, line)] = {}
      BY <3>1, <1>14, <1>3, <2>7, <2>2
    <3>3. u.meta[line] = NULL
      BY <2>7, <2>2, <1>13, <1>3
    <3> QED BY <3>2, <3>3, <2>9 DEF LineEmpty, MetaKept
  <2>12. RootBuilt(B!World, mDemuxer)' /\ \A line \in B!Media : LineEmpty(B!World, line)'
    BY <2>3, <2>8, <2>10, <2>11, Carried
  <2>13. (B!World \in Worlds)'
    BY <2>7, <2>8 DEF Worlds
  <2>14. heap' = opened.heap /\ owned' = opened.owned /\ twice' = twice /\ failed' = failed /\ mMeta' = mMeta
    <3>1. heap' = u.heap /\ owned' = u.owned /\ twice' = u.twice /\ failed' = u.failed /\ mMeta' = u.meta
      BY <2>3, <2>6 DEF B!Becomes
    <3> QED BY <3>1, <2>7, <2>2, <1>13
  <2>15. NextSession' = session + 1
    BY <2>3 DEF NextSession
  <2>16. /\ \A o \in B!Objects : o.session < session => heap'[o] # "live"
         /\ \A o \in B!Objects : o.session >= session + 1 => heap'[o] = "none" /\ owned'[o] = {}
    <3>1. \A o \in B!Objects : o.session \in Int
      BY ObjectsAre
    <3> QED BY <3>1, <2>14, <1>14, <1>4, <1>3
  <2>17. FreedWell(B!World)'
    <3>1. u.twice = B!World.twice /\ u.failed = B!World.failed
      BY <2>7, <2>2, <1>13, WorldFields
    <3>2. FreedWell(u)
      BY <3>1, <1>3 DEF FreedWell
    <3> QED BY <3>2, <2>8 DEF FreedWell
  <2> QED BY <2>3, <2>12, <2>13, <2>14, <2>15, <2>16, <2>17, <1>3 DEF BusInv
<1>16. CASE ~opens
  <2>1. PICK v : v = B!DeleteNode(opened, n)
    OBVIOUS
  <2> DEFINE dead == {n, uri}
  <2>2. dead = {n} \union opened.owned[n] /\ \A o \in dead : opened.heap[o] = "live"
    BY <1>14
  <2> HIDE DEF dead
  <2>3. /\ v \in Worlds
        /\ v.heap = [o \in B!Objects |-> IF o \in dead THEN "freed" ELSE opened.heap[o]]
        /\ v.twice = opened.twice \union Again(opened, dead) /\ v.failed = opened.failed
        /\ v.root = opened.root /\ v.links = opened.links
        /\ v.meta = opened.meta /\ v.owned = opened.owned
    <3>1. opened \in Worlds /\ n \in B!Objects /\ v = B!DeleteNode(opened, n) /\ dead = {n} \union opened.owned[n]
      BY <1>13, <1>4, <2>1, <2>2
    <3> QED BY <3>1, DeleteNodeWorld
  <2>4. B!Becomes([v EXCEPT !.root["root"] = NULL])
        /\ mDemuxer' = NULL /\ state' = "idle" /\ session' = session + 1
    BY <1>1, <1>16, <2>1 DEF B!bus_find_and_add_demuxer, opened
  <2>5. [v EXCEPT !.root["root"] = NULL] = v
    BY <2>3, <1>13, <1>3 DEF Worlds, B!Lines
  <2>6. B!World' = v
    BY <2>3, <2>4, <2>5, BecomesWorld
  <2>7. (B!World \in Worlds)'
    BY <2>3, <2>6 DEF Worlds
  <2>8. /\ heap' = v.heap /\ owned' = opened.owned /\ twice' = v.twice /\ failed' = v.failed /\ mMeta' = mMeta
        /\ mRootNodes' = mRootNodes
    BY <2>3, <2>4, <2>5, <1>13 DEF B!Becomes
  <2>9. FreedWell(B!World)'
    <3>1. twice' = twice /\ failed' = failed
      BY <2>8, <2>3, <2>2, <1>13 DEF Again
    <3> QED BY <3>1, <1>3, WorldFields DEF FreedWell, B!World
  <2>10. \A o \in B!Objects : o.session \in Int
    BY ObjectsAre
  <2>11. \A o \in B!Objects : o.session < session + 1 => heap'[o] # "live"
    BY <2>8, <2>3, <2>10, <1>14, <1>3 DEF dead
  <2>12. \A o \in B!Objects : o.session >= session + 1 => heap'[o] = "none" /\ owned'[o] = {}
    BY <2>8, <2>3, <2>10, <1>14, <1>3, <1>4 DEF dead
  <2>13. NextSession' = session + 1
    BY <2>4 DEF NextSession
  <2> QED BY <2>4, <2>7, <2>8, <2>9, <2>11, <2>12, <2>13, <1>3 DEF BusInv
<1> QED BY <1>15, <1>16

LEMMA BusOpenEmpty ==
    ASSUME BusInv, B!OpenWithoutSource
    PROVE  BusInv'
<1>1. /\ state = "idle" /\ session <= Sessions /\ state' = "initialized"
      /\ UNCHANGED <<session, heap, twice, failed, mRootNodes, links, mNodeBus, mDemuxer, mMeta, owned>>
  BY DEF B!OpenWithoutSource, B!autoBuild
<1>2. /\ session \in 1..Sessions
      /\ B!World \in Worlds /\ FreedWell(B!World) /\ mDemuxer = NULL
      /\ \A o \in B!Objects : o.session < session => heap[o] # "live"
      /\ \A o \in B!Objects : o.session >= session => heap[o] = "none" /\ owned[o] = {}
      /\ mRootNodes = [l \in B!Lines |-> NULL] /\ mMeta = [m \in B!Media |-> NULL]
  BY <1>1 DEF BusInv, NextSession
<1>3. PICK v : v = B!World
  OBVIOUS
<1>4. B!World' = v
  BY <1>1, <1>3 DEF B!World
<1>5. RootBuilt(v, NULL)
  <2>1. /\ B!Obj("demuxer", "root") \in B!Objects /\ B!Obj("uri", "root") \in B!Objects
        /\ B!Obj("demuxer", "root").session = session /\ B!Obj("uri", "root").session = session
    BY <1>2, ObjectsOfSession, ObjectFields DEF B!Obj
  <2> QED BY <2>1, <1>2, <1>3, WorldFields DEF RootBuilt, B!Lines
<1>6. \A line \in B!Media : LineEmpty(v, line)
  <2> SUFFICES ASSUME NEW line \in B!Media
               PROVE  LineEmpty(v, line)
    OBVIOUS
  <2>1. \A what \in {"decoder", "sink", "in", "out", "context", "app"} :
           B!Obj(what, line) \in B!Objects /\ B!Obj(what, line).session = session
    BY <1>2, ObjectsOfSession, ObjectFields DEF B!Obj
  <2>2. \A what \in {"decoder", "sink", "in", "out", "context", "app"} :
           v.heap[B!Obj(what, line)] = "none" /\ v.owned[B!Obj(what, line)] = {}
    BY <2>1, <1>2, <1>3, WorldFields
  <2>3. v.meta[line] = NULL /\ v.root[line] = NULL
    BY <1>2, <1>3, WorldFields DEF B!Lines
  <2> QED BY <2>2, <2>3 DEF LineEmpty
<1>7. RootBuilt(B!World, mDemuxer)' /\ \A line \in B!Media : LineEmpty(B!World, line)'
  BY <1>1, <1>2, <1>4, <1>5, <1>6, Carried
<1>8. (B!World \in Worlds)'
  BY <1>2, <1>3, <1>4 DEF Worlds
<1>9. NextSession' = session + 1
  BY <1>1 DEF NextSession
<1>10. \A o \in B!Objects : o.session \in Int
  BY ObjectsAre
<1>11. FreedWell(B!World)'
  BY <1>2, <1>3, <1>4 DEF FreedWell
<1> QED BY <1>11, <1>1, <1>2, <1>7, <1>8, <1>9, <1>10 DEF BusInv

LEMMA BusMeta ==
    ASSUME BusInv, NEW line \in B!Media, B!registerMetadata(line)
    PROVE  BusInv'
<1> DEFINE app == B!Obj("app", line)
           w == B!World
<1>1. /\ state = "initialized" /\ mDemuxer = NULL /\ mMeta[line] = NULL
      /\ B!Becomes([B!New(w, app) EXCEPT !.meta[line] = app])
      /\ UNCHANGED <<state, session, mDemuxer>>
  BY DEF B!registerMetadata
<1>2. /\ session \in 1..Sessions
      /\ w \in Worlds /\ FreedWell(w)
      /\ \A o \in B!Objects : o.session < session => heap[o] # "live"
      /\ \A o \in B!Objects : o.session >= session + 1 => heap[o] = "none" /\ owned[o] = {}
      /\ RootBuilt(w, mDemuxer)
      /\ \A m \in B!Media : LineEmpty(w, m)
  BY <1>1 DEF BusInv, NextSession
<1>3. app \in B!Objects /\ app.line = line /\ app.session = session
  BY <1>2, ObjectsOfSession, ObjectFields DEF B!Obj
<1> HIDE DEF app, w
<1>4. PICK u : u = B!New(w, app)
  OBVIOUS
<1>5. /\ u \in Worlds
      /\ u.heap = [w.heap EXCEPT ![app] = "live"]
      /\ u.twice = w.twice /\ u.failed = w.failed /\ u.root = w.root /\ u.links = w.links
      /\ u.meta = w.meta /\ u.owned = w.owned
  BY <1>2, <1>3, <1>4, NewWorld
<1>6. PICK v : v = [u EXCEPT !.meta[line] = app]
  OBVIOUS
<1>7. v = [u EXCEPT !.meta = [u.meta EXCEPT ![line] = app]]
  BY <1>5, <1>6 DEF Worlds
<1>8. [u.meta EXCEPT ![line] = app] \in [B!Media -> Refs]
  BY <1>5, <1>3 DEF Worlds, Refs
<1>9. /\ v \in Worlds /\ v.heap = u.heap /\ v.twice = w.twice /\ v.failed = w.failed /\ v.root = w.root
      /\ v.links = w.links /\ v.owned = w.owned /\ v.meta = [w.meta EXCEPT ![line] = app]
  BY <1>5, <1>7, <1>8 DEF Worlds
<1>10. /\ v.heap[app] = "live" /\ \A o \in B!Objects : o # app => v.heap[o] = w.heap[o]
       /\ v.meta[line] = app /\ \A m \in B!Media : m # line => v.meta[m] = w.meta[m]
  BY <1>9, <1>5, <1>3, <1>2 DEF Worlds
<1>11. Elsewhere(v, w, line)
  BY <1>9, <1>10, <1>3 DEF Elsewhere
<1>12. RootBuilt(v, mDemuxer)
  BY <1>11, <1>2, RootStays
<1>13. LineEmpty(v, line)
  <2>1. \A what \in {"decoder", "sink", "in", "out", "context"} :
           B!Obj(what, line) \in B!Objects /\ B!Obj(what, line) # app
    BY <1>2, ObjectsOfSession, ObjectFields DEF B!Obj, app
  <2>2. \A what \in {"decoder", "sink", "in", "out", "context"} :
           v.heap[B!Obj(what, line)] = "none" /\ v.owned[B!Obj(what, line)] = {}
    BY <2>1, <1>2, <1>9, <1>10 DEF LineEmpty
  <2>3. v.root[line] = NULL
    BY <1>2, <1>9 DEF LineEmpty
  <2>4. app # NULL
    BY <1>3
  <2> QED BY <2>2, <2>3, <2>4, <1>10 DEF LineEmpty, app
<1>14. \A m \in B!Media : LineEmpty(v, m)
  BY <1>11, <1>13, <1>2, OtherLines DEF B!Lines
<1>15. B!World' = v
  BY <1>1, <1>4, <1>6, <1>9, BecomesWorld
<1>16. RootBuilt(B!World, mDemuxer)' /\ \A m \in B!Media : LineEmpty(B!World, m)'
  BY <1>1, <1>12, <1>14, <1>15, Carried
<1>17. (B!World \in Worlds)'
  BY <1>9, <1>15 DEF Worlds
<1>18. heap' = v.heap /\ owned' = v.owned /\ twice' = v.twice
  BY <1>1, <1>4, <1>6 DEF B!Becomes
<1>19. NextSession' = session + 1
  BY <1>1 DEF NextSession
<1>20. \A o \in B!Objects : o.session # session => heap'[o] = heap[o] /\ owned'[o] = owned[o]
  BY <1>18, <1>11, WorldFields DEF Elsewhere, w
<1>21. FreedWell(B!World)'
  <2>1. FreedWell(v)
    BY <1>9, <1>2 DEF FreedWell
  <2> QED BY <2>1, <1>15 DEF FreedWell
<1>22. \A o \in B!Objects : o.session \in Int
  BY ObjectsAre
<1>23. /\ \A o \in B!Objects : o.session < session => heap'[o] # "live"
       /\ \A o \in B!Objects : o.session >= session + 1 => heap'[o] = "none" /\ owned'[o] = {}
  BY <1>2, <1>20, <1>22
<1> QED BY <1>1, <1>2, <1>16, <1>17, <1>19, <1>21, <1>23 DEF BusInv

LEMMA BusPrepare ==
    ASSUME BusInv, B!autoBuildCodecSink
    PROVE  BusInv'
<1> DEFINE w == B!World
<1>1. PICK inits \in [B!Media -> B!Inits] :
        B!Becomes(B!AddSink(B!AddSink(
             B!AddCodec(B!AddCodec(w, "video", inits["video"]), "audio", inits["audio"]), "video"), "audio"))
  BY DEF B!autoBuildCodecSink
<1>2. state = "initialized" /\ state' = "prepared" /\ UNCHANGED <<session, mDemuxer>>
  BY DEF B!autoBuildCodecSink
<1>3. /\ session \in 1..Sessions
      /\ w \in Worlds /\ FreedWell(w)
      /\ \A o \in B!Objects : o.session < session => w.heap[o] # "live"
      /\ \A o \in B!Objects : o.session >= session + 1 => w.heap[o] = "none" /\ w.owned[o] = {}
      /\ RootBuilt(w, mDemuxer)
      /\ LineEmpty(w, "video") /\ LineEmpty(w, "audio")
      /\ mDemuxer # NULL => w.meta["video"] = NULL /\ w.meta["audio"] = NULL
  BY <1>2, WorldFields DEF BusInv, NextSession, B!Media
<1>4. /\ "video" \in B!Media /\ "audio" \in B!Media /\ "video" \in B!Lines /\ "audio" \in B!Lines
      /\ B!Media = {"video", "audio"}
      /\ inits["video"] \in B!Inits /\ inits["audio"] \in B!Inits
  BY <1>1 DEF B!Media, B!Lines
<1> HIDE DEF w
<1>5. PICK a : a = B!AddCodec(w, "video", inits["video"])
  OBVIOUS
<1>6. a \in Worlds /\ FreedWell(a) /\ LineCoded(a, "video") /\ Elsewhere(a, w, "video")
  BY <1>3, <1>4, <1>5, AddCodecBuilds
<1>7. RootBuilt(a, mDemuxer) /\ LineEmpty(a, "audio") /\ a.meta["audio"] = w.meta["audio"]
  BY <1>6, <1>3, <1>4, RootStays, OtherLines DEF Elsewhere
<1>8. PICK b : b = B!AddCodec(a, "audio", inits["audio"])
  OBVIOUS
<1>9. b \in Worlds /\ FreedWell(b) /\ LineCoded(b, "audio") /\ Elsewhere(b, a, "audio")
  <2>1. mDemuxer # NULL => a.meta["audio"] = NULL
    BY <1>3, <1>4, <1>7
  <2> QED BY <2>1, <1>3, <1>4, <1>6, <1>7, <1>8, AddCodecBuilds
<1>10. RootBuilt(b, mDemuxer) /\ LineCoded(b, "video")
  BY <1>9, <1>6, <1>7, <1>3, <1>4, RootStays, OtherLines
<1>11. PICK c : c = B!AddSink(b, "video")
  OBVIOUS
<1>12. c \in Worlds /\ FreedWell(c) /\ LineBuilt(c, "video") /\ Elsewhere(c, b, "video")
  BY <1>9, <1>10, <1>3, <1>4, <1>11, AddSinkBuilds DEF FreedWell
<1>13. RootBuilt(c, mDemuxer) /\ LineCoded(c, "audio")
  BY <1>12, <1>9, <1>10, <1>3, <1>4, RootStays, OtherLines
<1>14. PICK d : d = B!AddSink(c, "audio")
  OBVIOUS
<1>15. d \in Worlds /\ FreedWell(d) /\ LineBuilt(d, "audio") /\ Elsewhere(d, c, "audio")
  BY <1>12, <1>13, <1>3, <1>4, <1>14, AddSinkBuilds DEF FreedWell
<1>16. RootBuilt(d, mDemuxer) /\ LineBuilt(d, "video")
  BY <1>15, <1>12, <1>13, <1>3, <1>4, RootStays, OtherLines
<1>17. B!Becomes(d)
  BY <1>1, <1>5, <1>8, <1>11, <1>14
<1>18. B!World' = d
  BY <1>15, <1>17, BecomesWorld
<1>19. RootBuilt(B!World, mDemuxer)' /\ \A m \in B!Media : LineBuilt(B!World, m)'
  BY <1>2, <1>4, <1>15, <1>16, <1>18, Carried
<1>20. (B!World \in Worlds)' /\ FreedWell(B!World)'
  BY <1>15, <1>18 DEF Worlds, FreedWell
<1>21. heap' = d.heap /\ owned' = d.owned
  BY <1>17, <1>15 DEF B!Becomes
<1>22. NextSession' = session + 1
  BY <1>2 DEF NextSession
<1>23. \A o \in B!Objects : o.session # session => d.heap[o] = w.heap[o] /\ d.owned[o] = w.owned[o]
  BY <1>6, <1>9, <1>12, <1>15 DEF Elsewhere
<1>24. \A o \in B!Objects : o.session \in Int
  BY ObjectsAre
<1>25. /\ \A o \in B!Objects : o.session < session => heap'[o] # "live"
       /\ \A o \in B!Objects : o.session >= session + 1 => heap'[o] = "none" /\ owned'[o] = {}
  BY <1>3, <1>21, <1>23, <1>24
<1> QED BY <1>2, <1>3, <1>19, <1>20, <1>21, <1>22, <1>25 DEF BusInv

(* A line on which nothing was built can be released like one that was.    *)
LEMMA EmptyIsBuilt ==
    ASSUME NEW w, NEW line \in B!Media, session \in 1..Sessions, LineEmpty(w, line)
    PROVE  LineBuilt(w, line)
<1>1. B!Obj("sink", line) # NULL
  BY ObjectsOfSession DEF B!Obj
<1>2. w.heap[B!Obj("sink", line)] = "none" /\ w.root[line] = NULL /\ w.owned[B!Obj("sink", line)] = {}
      /\ w.heap[B!Obj("decoder", line)] = "none" /\ w.heap[B!Obj("context", line)] = "none"
      /\ w.heap[B!Obj("in", line)] = "none" /\ w.heap[B!Obj("out", line)] = "none" /\ MetaKept(w, line)
  BY DEF LineEmpty, MetaKept, MetaLeft
<1>3. DecoderMissing(w, line)
  BY <1>2 DEF DecoderMissing
<1> QED BY <1>1, <1>2, <1>3 DEF LineBuilt

LEMMA BusRelease ==
    ASSUME BusInv, B!releaseNodes
    PROVE  BusInv'
<1> DEFINE w == B!World
           root == B!ReleaseChain(w, "root")
           video == B!ReleaseChain(root, "video")
           audio == B!ReleaseChain(video, "audio")
           metas == B!Delete(B!Delete(audio, audio.meta["video"]), audio.meta["audio"])
           last == B!clearNodeBus([metas EXCEPT !.meta = [m \in B!Media |-> NULL]])
<1>1. /\ state # "idle" /\ B!Becomes(last)
      /\ mDemuxer' = NULL /\ state' = "idle" /\ session' = session + 1
  BY DEF B!releaseNodes
<1>2. /\ session \in 1..Sessions
      /\ w \in Worlds /\ FreedWell(w)
      /\ \A o \in B!Objects : o.session < session => w.heap[o] # "live"
      /\ \A o \in B!Objects : o.session >= session + 1 => w.heap[o] = "none" /\ w.owned[o] = {}
      /\ RootBuilt(w, mDemuxer)
      /\ \/ \A m \in B!Media : LineEmpty(w, m)
         \/ \A m \in B!Media : LineBuilt(w, m)
  BY <1>1, WorldFields DEF BusInv, NextSession
<1>3. /\ "video" \in B!Media /\ "audio" \in B!Media /\ "root" \in B!Lines /\ "video" \in B!Lines /\ "audio" \in B!Lines
      /\ B!Media = {"video", "audio"}
  BY DEF B!Media, B!Lines
<1>4. LineBuilt(w, "video") /\ LineBuilt(w, "audio")
  BY <1>2, <1>3, EmptyIsBuilt
<1> HIDE DEF w
<1>5. PICK a : a = B!ReleaseChain(w, "root")
  OBVIOUS
<1>6. a \in Worlds /\ a.twice = w.twice /\ a.failed = w.failed /\ a.meta = w.meta /\ RootReleased(a) /\ Elsewhere(a, w, "root")
  BY <1>2, <1>5, ReleaseRoot
<1>7. LineBuilt(a, "video") /\ LineBuilt(a, "audio")
  BY <1>2, <1>3, <1>4, <1>6, OtherLines
<1>8. PICK b : b = B!ReleaseChain(a, "video")
  OBVIOUS
<1>9. b \in Worlds /\ b.twice = a.twice /\ b.failed = a.failed /\ b.meta = a.meta /\ LineReleased(b, "video") /\ Elsewhere(b, a, "video")
  BY <1>2, <1>3, <1>6, <1>7, <1>8, ReleaseLine
<1>10. LineBuilt(b, "audio")
  BY <1>2, <1>3, <1>7, <1>9, OtherLines
<1>11. PICK c : c = B!ReleaseChain(b, "audio")
  OBVIOUS
<1>12. c \in Worlds /\ c.twice = b.twice /\ c.failed = b.failed /\ c.meta = b.meta /\ LineReleased(c, "audio") /\ Elsewhere(c, b, "audio")
  BY <1>2, <1>3, <1>9, <1>10, <1>11, ReleaseLine
<1> DEFINE v == c.meta["video"]
           u == c.meta["audio"]
           Left == {v, u} \ {NULL}
<1>13. /\ v = NULL \/ (v = B!Obj("app", "video") /\ (c.heap[v] = "live" \/ B!Obj("decoder", "video") \in c.failed))
       /\ u = NULL \/ (u = B!Obj("app", "audio") /\ (c.heap[u] = "live" \/ B!Obj("decoder", "audio") \in c.failed))
  <2>1. /\ B!Obj("app", "video") \in B!Objects /\ B!Obj("app", "video").line = "video"
    BY <1>2, <1>3, ObjectsOfSession, ObjectFields DEF B!Obj
  <2>2. v = b.meta["video"]
    BY <1>12
  <2> QED BY <2>1, <2>2, <1>9, <1>12, <1>3 DEF LineReleased, MetaLeft, Elsewhere
<1>14. \A o \in B!Objects : o.session = session => c.heap[o] # "live" \/ o \in Left
  <2> SUFFICES ASSUME NEW o \in B!Objects, o.session = session, c.heap[o] = "live"
               PROVE  o \in Left
    OBVIOUS
  <2>1. o # NULL /\ o.line \in {"root", "video", "audio"}
    BY ObjectsAre, <1>3
  <2>2. CASE o.line = "root"
    BY <2>2, <1>6, <1>9, <1>12 DEF RootReleased, Elsewhere
  <2>3. CASE o.line = "video"
    <3>1. b.heap[o] = "live"
      BY <2>3, <1>12 DEF Elsewhere
    <3> QED BY <3>1, <2>1, <2>3, <1>9, <1>12 DEF LineReleased
  <2>4. CASE o.line = "audio"
    BY <2>1, <2>4, <1>12 DEF LineReleased
  <2> QED BY <2>1, <2>2, <2>3, <2>4
<1>15. \A o \in B!Objects : o.session # session => c.heap[o] = w.heap[o] /\ c.owned[o] = w.owned[o]
  BY <1>6, <1>9, <1>12 DEF Elsewhere
<1>16. \A o \in B!Objects : c.owned[o] = w.owned[o] \/ o.session = session
  BY <1>15
<1>17. (Left \subseteq B!Objects /\ v # u) \/ Left = {}
  <2>1. /\ B!Obj("app", "video") \in B!Objects /\ B!Obj("app", "audio") \in B!Objects
        /\ B!Obj("app", "video").line = "video" /\ B!Obj("app", "audio").line = "audio"
    BY <1>2, <1>3, ObjectsOfSession, ObjectFields DEF B!Obj
  <2> QED BY <2>1, <1>13
<1>33. \A o \in Left : c.heap[o] # "freed" \/ (o.what = "app" /\ B!Object("decoder", o.line, o.session) \in c.failed)
  BY <1>13, ObjectFields DEF B!Obj
<1>34. FreedWell(c)
  BY <1>2, <1>6, <1>9, <1>12 DEF FreedWell
<1> HIDE DEF v, u
<1>18. PICK d : d = B!Delete(c, v)
  OBVIOUS
<1>19. /\ d \in Worlds /\ FreedWell(d) /\ d.failed = c.failed /\ d.owned = c.owned /\ d.meta = c.meta
       /\ \A o \in B!Objects : o # v => d.heap[o] = c.heap[o]
       /\ v # NULL => d.heap[v] = "freed"
  <2>1. CASE v = NULL
    BY <2>1, <1>18, <1>12, <1>34 DEF B!Delete
  <2>2. CASE v # NULL
    <3>1. v \in B!Objects
      BY <2>2, <1>17
    <3>2. /\ d \in Worlds
          /\ d.heap = [c.heap EXCEPT ![v] = "freed"]
          /\ d.twice = c.twice \union Again(c, {v}) /\ d.failed = c.failed
          /\ d.root = c.root /\ d.links = c.links
          /\ d.meta = c.meta /\ d.owned = c.owned
      BY <3>1, <1>12, <1>18, DeleteWorld
    <3>3. FreedWell(d)
      BY <3>2, <2>2, <1>33, <1>34 DEF FreedWell, Again
    <3> QED BY <3>1, <3>2, <3>3, <1>12 DEF Worlds
  <2> QED BY <2>1, <2>2
<1>20. PICK e : e = B!Delete(d, u)
  OBVIOUS
<1>21. /\ e \in Worlds /\ FreedWell(e) /\ e.owned = c.owned
       /\ \A o \in B!Objects : o # u => e.heap[o] = d.heap[o]
       /\ u # NULL => e.heap[u] = "freed"
  <2>1. CASE u = NULL
    BY <2>1, <1>19, <1>20 DEF B!Delete
  <2>2. CASE u # NULL
    <3>1. u \in B!Objects /\ d.heap[u] = c.heap[u]
      BY <2>2, <1>17, <1>19
    <3>2. /\ e \in Worlds
          /\ e.heap = [d.heap EXCEPT ![u] = "freed"]
          /\ e.twice = d.twice \union Again(d, {u}) /\ e.failed = d.failed
          /\ e.root = d.root /\ e.links = d.links
          /\ e.meta = d.meta /\ e.owned = d.owned
      BY <3>1, <1>19, <1>20, DeleteWorld
    <3>3. FreedWell(e)
      BY <3>1, <3>2, <2>2, <1>19, <1>33 DEF FreedWell, Again
    <3> QED BY <3>1, <3>2, <3>3, <1>19 DEF Worlds
  <2> QED BY <2>1, <2>2
<1>22. \A o \in B!Objects : o.session = session => e.heap[o] # "live"
  <2> SUFFICES ASSUME NEW o \in B!Objects, o.session = session
               PROVE  e.heap[o] # "live"
    OBVIOUS
  <2>1. o # NULL
    OBVIOUS
  <2> QED BY <2>1, <1>14, <1>19, <1>21
<1>23. \A o \in B!Objects : o.session # session => e.heap[o] = w.heap[o] /\ e.owned[o] = w.owned[o]
  <2>1. /\ v = NULL \/ v.session = session
        /\ u = NULL \/ u.session = session
    BY <1>13, ObjectFields DEF B!Obj
  <2>2. NULL \notin B!Objects
    OBVIOUS
  <2> QED BY <2>1, <2>2, <1>15, <1>19, <1>21
<1>24. PICK f : f = B!clearNodeBus([e EXCEPT !.meta = [m \in B!Media |-> NULL]])
  OBVIOUS
<1>25. f = [[e EXCEPT !.meta = [m \in B!Media |-> NULL]] EXCEPT !.root = [l \in B!Lines |-> NULL]]
  BY <1>24 DEF B!clearNodeBus
<1>26. /\ f \in Worlds /\ f.heap = e.heap /\ f.owned = e.owned /\ f.twice = e.twice /\ f.failed = e.failed
       /\ f.meta = [m \in B!Media |-> NULL] /\ f.root = [l \in B!Lines |-> NULL]
  BY <1>21, <1>25 DEF Worlds, Refs
<1>27. B!Becomes(f)
  BY <1>1, <1>5, <1>8, <1>11, <1>18, <1>20, <1>24 DEF v, u
<1>28. (B!World \in Worlds)' /\ FreedWell(B!World)'
  <2>1. FreedWell(f)
    BY <1>21, <1>26 DEF FreedWell
  <2> QED BY <2>1, <1>26, <1>27, BecomesWorld DEF Worlds, FreedWell
<1>29. /\ heap' = e.heap /\ owned' = e.owned
       /\ mMeta' = [m \in B!Media |-> NULL] /\ mRootNodes' = [l \in B!Lines |-> NULL]
  BY <1>26, <1>27, <1>21 DEF B!Becomes
<1>30. NextSession' = session + 1
  BY <1>1 DEF NextSession
<1>31. \A o \in B!Objects : o.session \in Int
  BY ObjectsAre
<1>32. /\ \A o \in B!Objects : o.session < session + 1 => heap'[o] # "live"
       /\ \A o \in B!Objects : o.session >= session + 1 => heap'[o] = "none" /\ owned'[o] = {}
  BY <1>2, <1>22, <1>23, <1>29, <1>31
<1> QED BY <1>1, <1>2, <1>28, <1>29, <1>30, <1>32 DEF BusInv

LEMMA BusNext ==
    ASSUME BusInv, NodesNext \/ UNCHANGED <<part, vars, busVars, fileVars>>
    PROVE  BusInv'
<1>1. CASE UNCHANGED busVars
  <2>1. UNCHANGED <<state, session, heap, twice, failed, mRootNodes, links, mNodeBus, mDemuxer, mMeta, owned>>
    BY <1>1 DEF busVars
  <2> QED BY <2>1, BusSame
<1>2. CASE B!OpenSource
  BY <1>2, BusOpen
<1>3. CASE B!OpenWithoutSource
  BY <1>3, BusOpenEmpty
<1>4. ASSUME NEW line \in B!Media, B!registerMetadata(line)
      PROVE  BusInv'
  BY <1>4, BusMeta
<1>5. CASE B!autoBuildCodecSink
  BY <1>5, BusPrepare
<1>6. CASE B!excuteCommand
  BY <1>6, BusSame DEF B!excuteCommand
<1>7. ASSUME NEW what, NEW line, B!LookUp(what, line)
      PROVE  BusInv'
  BY <1>7, BusSame DEF B!LookUp
<1>8. CASE B!releaseNodes
  BY <1>8, BusRelease
<1>9. CASE B!Next
  BY <1>9, <1>2, <1>3, <1>4, <1>5, <1>6, <1>7, <1>8 DEF B!Next, B!Media
<1>10. B!Next \/ UNCHANGED busVars
  BY DEF NodesNext
<1> QED BY <1>1, <1>9, <1>10

LEMMA BusAlways == NodesSpec => []BusInv
<1>1. NodesInit => BusInv
  BY BusInit DEF NodesInit
<1>2. BusInv /\ [NodesNext]_<<part, vars, busVars, fileVars>> => BusInv'
  BY BusNext
<1> QED BY <1>1, <1>2, PTL DEF NodesSpec

(* Whatever the sources, the decoders that can be made and the commands    *)
(* are, nothing is freed twice but the metadata of an application whose    *)
(* decoder could not be initialised, and reset() leaves nothing behind     *)
(* (RTNodeBus::releaseNodes()).                                            *)
THEOREM NothingLeftBehind == NodesSpec => []FreedOnce
<1>1. BusInv => FreedOnce
  <2> SUFFICES ASSUME BusInv
               PROVE  FreedOnce
    OBVIOUS
  <2>1. \A o \in twice : B!Excused(o)
    BY WorldFields DEF BusInv, FreedWell, B!Excused
  <2>2. ASSUME state = "idle", NEW o \in B!Objects
        PROVE  heap[o] # "live"
    <3>1. session \in Nat /\ o.session \in Int /\ NextSession = session
      BY <2>2, ObjectsAre DEF BusInv, NextSession
    <3>2. o.session < session => heap[o] # "live"
      BY DEF BusInv
    <3>3. o.session >= session => heap[o] = "none"
      BY <3>1 DEF BusInv
    <3> QED BY <3>1, <3>2, <3>3
  <2> QED BY <2>1, <2>2 DEF FreedOnce, B!FreedOnce
<1> QED BY <1>1, BusAlways, PTL

LEMMA LineChain ==
    ASSUME session \in 1..Sessions, B!World \in Worlds,
           NEW line \in B!Media, LineBuilt(B!World, line),
           NEW c, c = B!ChainFrom[mRootNodes[line]]
    PROVE  /\ c \in Seq(B!Objects)
           /\ \A n \in B!Nodes : n.session = session /\ n.line = line /\ heap[n] = "live" => \E i \in DOMAIN c : c[i] = n
           /\ \A i \in DOMAIN c : c[i] \in B!Nodes /\ heap[c[i]] = "live" /\ c[i].line = line /\ c[i].what # "demuxer"
           /\ \A i, j \in DOMAIN c : i < j => c[i].what = "decoder" /\ c[i] # c[j]
<1> DEFINE n == B!Obj("decoder", line)
           sink == B!Obj("sink", line)
           last == IF heap[sink] = "live" THEN sink ELSE NULL
<1>1. /\ n \in B!Nodes /\ sink \in B!Nodes /\ n \in B!Objects /\ sink \in B!Objects
      /\ n.line = line /\ sink.line = line /\ n.what = "decoder" /\ sink.what = "sink"
      /\ n.session = session /\ sink.session = session /\ n # sink
  BY ObjectsOfSession, ObjectFields DEF B!Obj, B!Nodes
<1>2. \A o \in B!Nodes : o.session = session /\ o.line = line => o \in {n, sink}
  BY ObjectsAre DEF B!Obj, B!Nodes, B!Media
<1>3. /\ last = sink => links[sink].next = NULL
      /\ \/ heap[n] = "live" /\ mRootNodes[line] = n /\ links[n].next = last
         \/ heap[n] # "live" /\ mRootNodes[line] = last
  BY WorldFields DEF LineBuilt, DecoderBuilt, DecoderMissing
<1> HIDE DEF n, sink
<1>4. NULL \notin {n, sink}
  BY <1>1
<1>5. B!ChainFrom[NULL] = <<>>
  BY DEF B!ChainFrom
<1>6. \A o \in B!Objects : B!ChainFrom[o] = <<o>> \o (IF links[o].next = NULL THEN <<>> ELSE <<links[o].next>>)
  BY DEF B!ChainFrom
<1>7. CASE heap[n] = "live" /\ last = sink
  <2>1. c = <<n>> \o <<sink>>
    BY <1>7, <1>3, <1>6, <1>1, <1>4
  <2>2. <<n>> \in Seq(B!Objects) /\ <<sink>> \in Seq(B!Objects)
    BY <1>1
  <2>3. c \in Seq(B!Objects) /\ Len(c) = 2 /\ c[1] = n /\ c[2] = sink
    BY <2>1, <2>2
  <2>4. DOMAIN c = {1, 2} /\ heap[sink] = "live"
    BY <2>3, <1>7, <1>4
  <2> QED BY <2>3, <2>4, <1>7, <1>1, <1>2
<1>8. CASE heap[n] = "live" /\ last # sink
  <2>1. c = <<n>> \o <<>>
    BY <1>8, <1>3, <1>6, <1>1, <1>4
  <2>2. c = <<n>>
    BY <2>1
  <2>3. DOMAIN c = {1} /\ c[1] = n /\ heap[sink] # "live"
    BY <2>2, <1>8
  <2> QED BY <2>2, <2>3, <1>8, <1>1, <1>2
<1>9. CASE heap[n] # "live" /\ last = sink
  <2>1. c = <<sink>> \o <<>>
    BY <1>9, <1>3, <1>6, <1>1, <1>4
  <2>2. c = <<sink>>
    BY <2>1
  <2>3. DOMAIN c = {1} /\ c[1] = sink /\ heap[sink] = "live"
    BY <2>2, <1>9, <1>4
  <2> QED BY <2>2, <2>3, <1>9, <1>1, <1>2
<1>10. CASE heap[n] # "live" /\ last # sink
  <2>1. c = <<>>
    BY <1>10, <1>3, <1>5
  <2>2. DOMAIN c = {} /\ heap[sink] # "live"
    BY <2>1, <1>10
  <2> QED BY <2>1, <2>2, <1>10, <1>1, <1>2
<1> QED BY <1>7, <1>8, <1>9, <1>10

LEMMA RootChain ==
    ASSUME session \in 1..Sessions, B!World \in Worlds, RootBuilt(B!World, mDemuxer),
           NEW c, c = B!ChainFrom[mRootNodes["root"]]
    PROVE  /\ c \in Seq(B!Objects)
           /\ \A n \in B!Nodes : n.session = session /\ n.line = "root" /\ heap[n] = "live" => \E i \in DOMAIN c : c[i] = n
           /\ \A i \in DOMAIN c : c[i] \in B!Nodes /\ heap[c[i]] = "live" /\ c[i].line = "root"
           /\ \A i, j \in DOMAIN c : i = j
<1> DEFINE n == B!Obj("demuxer", "root")
<1>1. n \in B!Nodes /\ n \in B!Objects /\ n.line = "root" /\ n.session = session
  BY ObjectsOfSession, ObjectFields DEF B!Obj, B!Nodes
<1>2. \A o \in B!Nodes : o.session = session /\ o.line = "root" => o = n
  BY ObjectsAre DEF B!Obj, B!Nodes, B!Media
<1>3. \/ heap[n] = "live" /\ mRootNodes["root"] = n /\ links[n].next = NULL
      \/ heap[n] # "live" /\ mRootNodes["root"] = NULL
  BY WorldFields DEF RootBuilt
<1> HIDE DEF n
<1>4. CASE heap[n] = "live"
  <2>1. c = <<n>> \o <<>>
    BY <1>4, <1>3, <1>1 DEF B!ChainFrom
  <2>2. c = <<n>>
    BY <2>1
  <2>3. DOMAIN c = {1} /\ c[1] = n
    BY <2>2
  <2> QED BY <2>2, <2>3, <1>4, <1>1, <1>2
<1>5. CASE heap[n] # "live"
  <2>1. c = <<>>
    BY <1>5, <1>3 DEF B!ChainFrom
  <2>2. DOMAIN c = {}
    BY <2>1
  <2> QED BY <2>1, <2>2, <1>5, <1>2
<1> QED BY <1>4, <1>5

(* What the elements of s are, where s is three sequences one after the    *)
(* other, and what two of them are, one before the other.                  *)
Joined(s, a, b, c) ==
    /\ \A k \in DOMAIN a : \E i \in DOMAIN s : s[i] = a[k]
    /\ \A k \in DOMAIN b : \E i \in DOMAIN s : s[i] = b[k]
    /\ \A k \in DOMAIN c : \E i \in DOMAIN s : s[i] = c[k]
    /\ \A i \in DOMAIN s :
         \/ \E k \in DOMAIN a : s[i] = a[k]
         \/ \E k \in DOMAIN b : s[i] = b[k]
         \/ \E k \in DOMAIN c : s[i] = c[k]
    /\ \A i, j \in DOMAIN s : i < j =>
         \/ \E k, l \in DOMAIN a : k < l /\ s[i] = a[k] /\ s[j] = a[l]
         \/ \E k, l \in DOMAIN b : k < l /\ s[i] = b[k] /\ s[j] = b[l]
         \/ \E k, l \in DOMAIN c : k < l /\ s[i] = c[k] /\ s[j] = c[l]
         \/ \E k \in DOMAIN a, l \in DOMAIN b : s[i] = a[k] /\ s[j] = b[l]
         \/ \E k \in DOMAIN a, l \in DOMAIN c : s[i] = a[k] /\ s[j] = c[l]
         \/ \E k \in DOMAIN b, l \in DOMAIN c : s[i] = b[k] /\ s[j] = c[l]

LEMMA ThreeChains ==
    ASSUME NEW a \in Seq(B!Objects), NEW b \in Seq(B!Objects), NEW c \in Seq(B!Objects),
           NEW s, s = a \o b \o c
    PROVE  Joined(s, a, b, c)
<1> DEFINE A == Len(a)
           N == Len(b)
           C == Len(c)
<1>1. /\ A \in Nat /\ N \in Nat /\ C \in Nat
      /\ DOMAIN a = 1..A /\ DOMAIN b = 1..N /\ DOMAIN c = 1..C
  OBVIOUS
<1>2. a \o b \in Seq(B!Objects) /\ Len(a \o b) = A + N
      /\ \A i \in 1..(A + N) : (a \o b)[i] = IF i <= A THEN a[i] ELSE b[i - A]
  OBVIOUS
<1>3. /\ DOMAIN s = 1..(A + N + C)
      /\ \A i \in 1..(A + N + C) : s[i] = IF i <= A + N THEN (a \o b)[i] ELSE c[i - (A + N)]
  BY <1>2
<1>4. /\ \A i \in 1..A : i \in DOMAIN s /\ s[i] = a[i]
      /\ \A i \in 1..N : A + i \in DOMAIN s /\ s[A + i] = b[i]
      /\ \A i \in 1..C : A + N + i \in DOMAIN s /\ s[A + N + i] = c[i]
  BY <1>1, <1>2, <1>3
<1>5. \A i \in DOMAIN s :
        \/ i \in 1..A /\ s[i] = a[i]
        \/ i - A \in 1..N /\ s[i] = b[i - A]
        \/ i - A - N \in 1..C /\ s[i] = c[i - A - N]
  BY <1>1, <1>2, <1>3
<1> HIDE DEF A, N, C
<1>6. /\ \A k \in DOMAIN a : \E i \in DOMAIN s : s[i] = a[k]
      /\ \A k \in DOMAIN b : \E i \in DOMAIN s : s[i] = b[k]
      /\ \A k \in DOMAIN c : \E i \in DOMAIN s : s[i] = c[k]
  BY <1>1, <1>4
<1>8. \A i \in DOMAIN s :
         \/ \E k \in DOMAIN a : s[i] = a[k]
         \/ \E k \in DOMAIN b : s[i] = b[k]
         \/ \E k \in DOMAIN c : s[i] = c[k]
  BY <1>1, <1>5
<1>7. ASSUME NEW i \in DOMAIN s, NEW j \in DOMAIN s, i < j
      PROVE  \/ \E k, l \in DOMAIN a : k < l /\ s[i] = a[k] /\ s[j] = a[l]
             \/ \E k, l \in DOMAIN b : k < l /\ s[i] = b[k] /\ s[j] = b[l]
             \/ \E k, l \in DOMAIN c : k < l /\ s[i] = c[k] /\ s[j] = c[l]
             \/ \E k \in DOMAIN a, l \in DOMAIN b : s[i] = a[k] /\ s[j] = b[l]
             \/ \E k \in DOMAIN a, l \in DOMAIN c : s[i] = a[k] /\ s[j] = c[l]
             \/ \E k \in DOMAIN b, l \in DOMAIN c : s[i] = b[k] /\ s[j] = c[l]
  <2>1. i \in Int /\ j \in Int /\ (i - A < j - A) /\ (i - A - N < j - A - N)
    BY <1>1, <1>3, <1>7
  <2>2. CASE i \in 1..A /\ s[i] = a[i]
    <3>1. CASE j \in 1..A /\ s[j] = a[j]
      BY <2>2, <3>1, <1>1, <1>7
    <3>2. CASE j - A \in 1..N /\ s[j] = b[j - A]
      BY <2>2, <3>2, <1>1
    <3>3. CASE j - A - N \in 1..C /\ s[j] = c[j - A - N]
      BY <2>2, <3>3, <1>1
    <3> QED BY <3>1, <3>2, <3>3, <1>5
  <2>3. CASE i - A \in 1..N /\ s[i] = b[i - A]
    <3>1. ~(j \in 1..A)
      BY <2>1, <2>3, <1>1
    <3>2. CASE j - A \in 1..N /\ s[j] = b[j - A]
      BY <2>1, <2>3, <3>2, <1>1
    <3>3. CASE j - A - N \in 1..C /\ s[j] = c[j - A - N]
      BY <2>3, <3>3, <1>1
    <3> QED BY <3>1, <3>2, <3>3, <1>5
  <2>4. CASE i - A - N \in 1..C /\ s[i] = c[i - A - N]
    <3>1. ~(j \in 1..A) /\ ~(j - A \in 1..N)
      BY <2>1, <2>4, <1>1, SMTT(30)
    <3>2. CASE j - A - N \in 1..C /\ s[j] = c[j - A - N]
      BY <2>1, <2>4, <3>2, <1>1
    <3> QED BY <3>1, <3>2, <1>5
  <2> QED BY <2>2, <2>3, <2>4, <1>5
<1> QED BY <1>6, <1>7, <1>8 DEF Joined

LEMMA CommandReaches ==
    ASSUME BusInv, B!excuteCommand
    PROVE  /\ {reached'[i] : i \in DOMAIN reached'} = {n \in B!Nodes : heap[n] = "live"}
           /\ \A i, j \in DOMAIN reached' : i < j =>
                /\ reached'[i] # reached'[j]
                /\ reached'[j].what # "demuxer"
                /\ reached'[i].line = reached'[j].line => reached'[i].what = "decoder"
<1>1. PICK r : r = B!ChainFrom[mRootNodes["root"]]
  OBVIOUS
<1>2. PICK a : a = B!ChainFrom[mRootNodes["video"]]
  OBVIOUS
<1>3. PICK b : b = B!ChainFrom[mRootNodes["audio"]]
  OBVIOUS
<1>4. state = "prepared" /\ reached' = r \o a \o b
  BY <1>1, <1>2, <1>3 DEF B!excuteCommand
<1>5. PICK s : s = r \o a \o b
  OBVIOUS
<1>6. /\ session \in 1..Sessions /\ B!World \in Worlds /\ RootBuilt(B!World, mDemuxer)
      /\ LineBuilt(B!World, "video") /\ LineBuilt(B!World, "audio")
      /\ "video" \in B!Media /\ "audio" \in B!Media /\ NextSession = session + 1
      /\ \A o \in B!Objects : o.session < session => heap[o] # "live"
      /\ \A o \in B!Objects : o.session >= NextSession => heap[o] = "none"
  BY <1>4 DEF BusInv, B!Media, NextSession
<1>7. /\ r \in Seq(B!Objects)
      /\ \A n \in B!Nodes : n.session = session /\ n.line = "root" /\ heap[n] = "live" => \E i \in DOMAIN r : r[i] = n
      /\ \A i \in DOMAIN r : r[i] \in B!Nodes /\ heap[r[i]] = "live" /\ r[i].line = "root"
      /\ \A i, j \in DOMAIN r : i = j
  BY <1>1, <1>6, RootChain
<1>8. /\ a \in Seq(B!Objects)
      /\ \A n \in B!Nodes : n.session = session /\ n.line = "video" /\ heap[n] = "live" => \E i \in DOMAIN a : a[i] = n
      /\ \A i \in DOMAIN a : a[i] \in B!Nodes /\ heap[a[i]] = "live" /\ a[i].line = "video" /\ a[i].what # "demuxer"
      /\ \A i, j \in DOMAIN a : i < j => a[i].what = "decoder" /\ a[i] # a[j]
  <2>1. session \in 1..Sessions /\ B!World \in Worlds /\ LineBuilt(B!World, "video") /\ "video" \in B!Media
    BY <1>6
  <2> QED BY <2>1, <1>2, LineChain
<1>9. /\ b \in Seq(B!Objects)
      /\ \A n \in B!Nodes : n.session = session /\ n.line = "audio" /\ heap[n] = "live" => \E i \in DOMAIN b : b[i] = n
      /\ \A i \in DOMAIN b : b[i] \in B!Nodes /\ heap[b[i]] = "live" /\ b[i].line = "audio" /\ b[i].what # "demuxer"
      /\ \A i, j \in DOMAIN b : i < j => b[i].what = "decoder" /\ b[i] # b[j]
  <2>1. session \in 1..Sessions /\ B!World \in Worlds /\ LineBuilt(B!World, "audio") /\ "audio" \in B!Media
    BY <1>6
  <2> QED BY <2>1, <1>3, LineChain
<1>15. r \in Seq(B!Objects) /\ a \in Seq(B!Objects) /\ b \in Seq(B!Objects)
  BY <1>7, <1>8, <1>9
<1>16. Joined(s, r, a, b)
  BY <1>5, <1>15, ThreeChains
<1>10. /\ \A k \in DOMAIN r : \E i \in DOMAIN s : s[i] = r[k]
       /\ \A k \in DOMAIN a : \E i \in DOMAIN s : s[i] = a[k]
       /\ \A k \in DOMAIN b : \E i \in DOMAIN s : s[i] = b[k]
       /\ \A i \in DOMAIN s :
            \/ \E k \in DOMAIN r : s[i] = r[k]
            \/ \E k \in DOMAIN a : s[i] = a[k]
            \/ \E k \in DOMAIN b : s[i] = b[k]
  BY <1>16 DEF Joined
<1>11. \A i, j \in DOMAIN s : i < j =>
                \/ \E k, l \in DOMAIN r : k < l /\ s[i] = r[k] /\ s[j] = r[l]
                \/ \E k, l \in DOMAIN a : k < l /\ s[i] = a[k] /\ s[j] = a[l]
                \/ \E k, l \in DOMAIN b : k < l /\ s[i] = b[k] /\ s[j] = b[l]
                \/ \E k \in DOMAIN r, l \in DOMAIN a : s[i] = r[k] /\ s[j] = a[l]
                \/ \E k \in DOMAIN r, l \in DOMAIN b : s[i] = r[k] /\ s[j] = b[l]
                \/ \E k \in DOMAIN a, l \in DOMAIN b : s[i] = a[k] /\ s[j] = b[l]
  BY <1>16 DEF Joined
<1>12. \A n \in B!Nodes : heap[n] = "live" => n.session = session /\ n.line \in {"root", "video", "audio"}
  <2>1. \A n \in B!Nodes : n \in B!Objects /\ n.session \in Int /\ n.line \in {"root", "video", "audio"}
    BY ObjectsAre DEF B!Nodes, B!Media
  <2> QED BY <2>1, <1>6
<1>13. {s[i] : i \in DOMAIN s} = {n \in B!Nodes : heap[n] = "live"}
  <2>1. ASSUME NEW i \in DOMAIN s
        PROVE  s[i] \in B!Nodes /\ heap[s[i]] = "live"
    BY <1>10, <1>7, <1>8, <1>9
  <2>2. ASSUME NEW x \in B!Nodes, heap[x] = "live"
        PROVE  \E i \in DOMAIN s : s[i] = x
    BY <2>2, <1>10, <1>12, <1>7, <1>8, <1>9
  <2> QED BY <2>1, <2>2
<1>14. ASSUME NEW i \in DOMAIN s, NEW j \in DOMAIN s, i < j
       PROVE  /\ s[i] # s[j]
              /\ s[j].what # "demuxer"
              /\ s[i].line = s[j].line => s[i].what = "decoder"
  <2>1. ~ \E k, l \in DOMAIN r : k < l /\ s[i] = r[k] /\ s[j] = r[l]
    <3>1. \A k \in DOMAIN r : k \in Int
      BY <1>7
    <3> QED BY <3>1, <1>7
  <2>2. CASE \E k, l \in DOMAIN a : k < l /\ s[i] = a[k] /\ s[j] = a[l]
    BY <2>2, <1>8
  <2>3. CASE \E k, l \in DOMAIN b : k < l /\ s[i] = b[k] /\ s[j] = b[l]
    BY <2>3, <1>9
  <2>4. CASE \E k \in DOMAIN r, l \in DOMAIN a : s[i] = r[k] /\ s[j] = a[l]
    <3>1. s[i].line = "root" /\ s[j].line = "video" /\ s[j].what # "demuxer"
      BY <2>4, <1>7, <1>8
    <3> QED BY <3>1
  <2>5. CASE \E k \in DOMAIN r, l \in DOMAIN b : s[i] = r[k] /\ s[j] = b[l]
    <3>1. s[i].line = "root" /\ s[j].line = "audio" /\ s[j].what # "demuxer"
      BY <2>5, <1>7, <1>9
    <3> QED BY <3>1
  <2>6. CASE \E k \in DOMAIN a, l \in DOMAIN b : s[i] = a[k] /\ s[j] = b[l]
    <3>1. s[i].line = "video" /\ s[j].line = "audio" /\ s[j].what # "demuxer"
      BY <2>6, <1>8, <1>9
    <3> QED BY <3>1
  <2> QED BY <2>1, <2>2, <2>3, <2>4, <2>5, <2>6, <1>11, <1>14
<1> HIDE DEF B!Nodes
<1> QED BY <1>4, <1>5, <1>13, <1>14, SMTT(30)

(* A command of the player reaches every node of the source that plays,    *)
(* each once, the demuxer first and a decoder before the sink that it      *)
(* feeds (RTNodeBus::excuteCommand(), RTNodeAdapter::runCmd()).            *)
THEOREM CommandsReachAll == NodesSpec => CommandReachesAll
<1>1. BusInv /\ [NodesNext]_<<part, vars, busVars, fileVars>> =>
        [reached' # reached =>
         /\ {reached'[i] : i \in DOMAIN reached'} = {n \in B!Nodes : heap[n] = "live"}
         /\ \A i, j \in DOMAIN reached' : i < j =>
              /\ reached'[i] # reached'[j]
              /\ reached'[j].what # "demuxer"
              /\ reached'[i].line = reached'[j].line => reached'[i].what = "decoder"]_B!vars
  <2> SUFFICES ASSUME BusInv, [NodesNext]_<<part, vars, busVars, fileVars>>, reached' # reached
               PROVE  /\ {reached'[i] : i \in DOMAIN reached'} = {n \in B!Nodes : heap[n] = "live"}
                      /\ \A i, j \in DOMAIN reached' : i < j =>
                           /\ reached'[i] # reached'[j]
                           /\ reached'[j].what # "demuxer"
                           /\ reached'[i].line = reached'[j].line => reached'[i].what = "decoder"
    OBVIOUS
  <2>1. B!excuteCommand
    BY DEF NodesNext, busVars, B!Next, B!OpenSource, B!autoBuild, B!OpenWithoutSource,
           B!registerMetadata, B!autoBuildCodecSink, B!LookUp, B!releaseNodes
  <2> QED BY <2>1, CommandReaches
<1> QED BY <1>1, BusAlways, PTL DEF NodesSpec, CommandReachesAll, B!CommandReachesAll

-------------------------------------------------------------------------------
HIDE NodesAssumption

(***************************************************************************)
(* The ports of the codec nodes.                                           *)
(***************************************************************************)
(* Where buffers are: two queues, and two sets that are lent out of the    *)
(* one and come back to the other.  Nothing is at two places, and all of   *)
(* it is known.                                                            *)
Apart(front, back, lent, held, known) ==
    /\ \A i, j \in DOMAIN front : front[i] = front[j] => i = j
    /\ \A i, j \in DOMAIN back : back[i] = back[j] => i = j
    /\ \A i \in DOMAIN front : /\ front[i] \in known /\ front[i] \notin lent /\ front[i] \notin held
                               /\ \A j \in DOMAIN back : front[i] # back[j]
    /\ \A i \in DOMAIN back : back[i] \in known /\ back[i] \notin lent /\ back[i] \notin held
    /\ lent \subseteq known /\ held \subseteq known
    /\ \A x \in lent : x \notin held

LEMMA ApartTurned ==
    ASSUME NEW front, NEW back, NEW lent, NEW held, NEW known, Apart(front, back, lent, held, known)
    PROVE  Apart(front, back, held, lent, known) /\ Apart(back, front, lent, held, known)
BY DEF Apart

(* The first of a queue is lent.                                           *)
LEMMA ApartLend ==
    ASSUME NEW front \in Seq(Int), NEW back \in Seq(Int), NEW lent, NEW held, NEW known,
           Apart(front, back, lent, held, known), front # <<>>
    PROVE  Apart(Tail(front), back, lent \union {Head(front)}, held, known)
<1>1. /\ Len(Tail(front)) = Len(front) - 1 /\ Len(front) \in Nat \ {0}
      /\ \A i \in 1..Len(Tail(front)) : Tail(front)[i] = front[i + 1]
  BY HeadTailProperties
<1>2. DOMAIN Tail(front) = 1..(Len(front) - 1) /\ DOMAIN front = 1..Len(front)
  BY <1>1
<1>3. \A i \in DOMAIN Tail(front) : i \in DOMAIN front /\ i + 1 \in DOMAIN front /\ Tail(front)[i] = front[i + 1]
  BY <1>1, <1>2
<1>4. Head(front) = front[1] /\ 1 \in DOMAIN front
  BY <1>1, <1>2
<1>5. \A i, j \in DOMAIN Tail(front) : Tail(front)[i] = Tail(front)[j] => i = j
  <2> SUFFICES ASSUME NEW i \in DOMAIN Tail(front), NEW j \in DOMAIN Tail(front), Tail(front)[i] = Tail(front)[j]
               PROVE  i = j
    OBVIOUS
  <2>1. i + 1 = j + 1
    BY <1>3 DEF Apart
  <2> QED BY <1>2, <2>1
<1>6. \A i \in DOMAIN Tail(front) :
         /\ Tail(front)[i] \in known /\ Tail(front)[i] \notin lent \union {Head(front)} /\ Tail(front)[i] \notin held
         /\ \A j \in DOMAIN back : Tail(front)[i] # back[j]
  <2> SUFFICES ASSUME NEW i \in DOMAIN Tail(front)
               PROVE  /\ Tail(front)[i] \in known /\ Tail(front)[i] \notin lent \union {Head(front)} /\ Tail(front)[i] \notin held
                      /\ \A j \in DOMAIN back : Tail(front)[i] # back[j]
    OBVIOUS
  <2>1. i + 1 \in DOMAIN front /\ i + 1 # 1 /\ Tail(front)[i] = front[i + 1]
    BY <1>2, <1>3
  <2>2. front[i + 1] # front[1]
    BY <1>4, <2>1 DEF Apart
  <2> QED BY <1>4, <2>1, <2>2 DEF Apart
<1> QED BY <1>4, <1>5, <1>6 DEF Apart

(* Something that was lent is queued.                                      *)
LEMMA ApartReturn ==
    ASSUME NEW front \in Seq(Int), NEW back \in Seq(Int), NEW lent, NEW held, NEW known, NEW x \in lent, x \in Int,
           Apart(front, back, lent, held, known)
    PROVE  Apart(Append(front, x), back, lent \ {x}, held, known)
<1>1. /\ DOMAIN Append(front, x) = 1..(Len(front) + 1) /\ DOMAIN front = 1..Len(front) /\ Len(front) \in Nat
      /\ \A i \in DOMAIN front : Append(front, x)[i] = front[i]
      /\ Append(front, x)[Len(front) + 1] = x
  OBVIOUS
<1>2. \A i \in DOMAIN Append(front, x) : i \in DOMAIN front \/ (Append(front, x)[i] = x /\ i = Len(front) + 1)
  BY <1>1
<1>3. x \in known /\ x \notin held /\ (\A i \in DOMAIN front : front[i] # x) /\ \A i \in DOMAIN back : back[i] # x
  BY DEF Apart
<1>4. \A i, j \in DOMAIN Append(front, x) : Append(front, x)[i] = Append(front, x)[j] => i = j
  BY <1>1, <1>2, <1>3 DEF Apart
<1>5. \A i \in DOMAIN Append(front, x) :
         /\ Append(front, x)[i] \in known /\ Append(front, x)[i] \notin lent \ {x} /\ Append(front, x)[i] \notin held
         /\ \A j \in DOMAIN back : Append(front, x)[i] # back[j]
  BY <1>1, <1>2, <1>3 DEF Apart
<1> QED BY <1>3, <1>4, <1>5 DEF Apart

(* Something that is held is queued, in the one or the other.              *)
LEMMA ApartHeld ==
    ASSUME NEW front \in Seq(Int), NEW back \in Seq(Int), NEW lent, NEW held, NEW known, NEW x \in held, x \in Int,
           Apart(front, back, lent, held, known)
    PROVE  /\ Apart(Append(front, x), back, lent, held \ {x}, known)
           /\ Apart(front, Append(back, x), lent, held \ {x}, known)
<1>1. Apart(front, back, held, lent, known) /\ Apart(back, front, lent, held, known)
  BY ApartTurned
<1>2. Apart(back, front, held, lent, known)
  BY <1>1, ApartTurned
<1>3. Apart(Append(front, x), back, held \ {x}, lent, known)
  BY <1>1, ApartReturn
<1>4. Apart(Append(back, x), front, held \ {x}, lent, known)
  BY <1>2, ApartReturn
<1>5. Apart(Append(back, x), front, lent, held \ {x}, known)
  BY <1>4, ApartTurned
<1> QED BY <1>3, <1>5, ApartTurned

(* Something new is lent.                                                  *)
LEMMA ApartNew ==
    ASSUME NEW front, NEW back, NEW lent, NEW held, NEW known, NEW x, x \notin known,
           Apart(front, back, lent, held, known), NEW all, known \subseteq all, x \in all
    PROVE  Apart(front, back, lent \union {x}, held, all)
BY DEF Apart

(* What was lent may be forgotten.                                         *)
LEMMA ApartLess ==
    ASSUME NEW front, NEW back, NEW lent, NEW held, NEW known, NEW less \in SUBSET lent,
           Apart(front, back, lent, held, known)
    PROVE  Apart(front, back, less, held, known)
BY DEF Apart

LEMMA ApartEmpty ==
    ASSUME NEW front, NEW back, NEW lent, NEW held, NEW known, NEW f, NEW g, DOMAIN f = {}, DOMAIN g = {},
           Apart(front, back, lent, held, known)
    PROVE  Apart(f, g, lent, held, known)
BY DEF Apart

(* A queue without repetition holds no more than there is.                 *)
LEMMA QueueFits ==
    ASSUME NEW q \in Seq(Int), NEW n \in Nat, NEW low \in Int,
           \A i, j \in DOMAIN q : q[i] = q[j] => i = j,
           \A i \in DOMAIN q : q[i] \in low..(low + n - 1)
    PROVE  Len(q) <= n
<1>1. DOMAIN q = 1..Len(q) /\ Len(q) \in Nat
  OBVIOUS
<1>2. q \in [1..Len(q) -> low..(low + n - 1)]
  BY <1>1
<1>3. q \in Injection(1..Len(q), low..(low + n - 1))
  BY <1>1, <1>2 DEF Injection, IsInjective
<1>4. IsFiniteSet(low..(low + n - 1)) /\ Cardinality(low..(low + n - 1)) = n
  <2>1. low + n - 1 \in Int
    OBVIOUS
  <2> QED BY <2>1, FS_Interval
<1>5. Cardinality(1..Len(q)) = Len(q)
  BY <1>1, FS_Interval, SMTT(30)
<1>6. Cardinality(1..Len(q)) <= Cardinality(low..(low + n - 1))
  BY <1>3, <1>4, FS_Injection
<1> QED BY <1>4, <1>5, <1>6

(* Frames follow each other without a gap, and an FFmpeg encoder repeats   *)
(* some; 0 stands for no frame yet.                                        *)
Follows(x, y, maker) == y = x + 1 \/ (y = x /\ (maker = "ff" \/ x = 0))
LastGiven(last, given) == IF given = <<>> THEN last ELSE given[Len(given)]
LastIn(last, given, inside) == IF inside = <<>> THEN LastGiven(last, given) ELSE inside[Len(inside)]

(* The frame that the client took last, those that wait for it, and those  *)
(* inside the codec.                                                       *)
Linked(last, given, inside, maker) ==
    /\ given # <<>> => Follows(last, given[1], maker)
    /\ \A i \in 1..(Len(given) - 1) : Follows(given[i], given[i + 1], maker)
    /\ inside # <<>> => Follows(LastGiven(last, given), inside[1], maker)
    /\ \A i \in 1..(Len(inside) - 1) : Follows(inside[i], inside[i + 1], maker)
    /\ \A i \in 1..Len(inside) : inside[i] # 0

LEMMA TailOf ==
    ASSUME NEW s \in Seq(Nat), s # <<>>
    PROVE  /\ Tail(s) \in Seq(Nat) /\ Len(Tail(s)) = Len(s) - 1 /\ Len(s) \in Nat \ {0}
           /\ \A i \in 1..(Len(s) - 1) : Tail(s)[i] = s[i + 1]
           /\ Head(s) = s[1] /\ s[1] \in Nat
           /\ Tail(s) = <<>> <=> Len(s) = 1
           /\ s[Len(s)] \in Nat
<1>1. /\ Tail(s) \in Seq(Nat) /\ Len(Tail(s)) = Len(s) - 1 /\ Len(s) \in Nat \ {0}
      /\ \A i \in 1..Len(Tail(s)) : Tail(s)[i] = s[i + 1]
  BY HeadTailProperties
<1>2. Tail(s) = <<>> <=> Len(Tail(s)) = 0
  BY <1>1, EmptySeq
<1> QED BY <1>1, <1>2, SMTT(30)

LEMMA AppendOf ==
    ASSUME NEW s \in Seq(Nat), NEW x \in Nat
    PROVE  /\ Append(s, x) \in Seq(Nat) /\ Len(Append(s, x)) = Len(s) + 1 /\ Len(s) \in Nat
           /\ \A i \in 1..Len(s) : Append(s, x)[i] = s[i]
           /\ Append(s, x)[Len(s) + 1] = x
           /\ Append(s, x) # <<>> /\ (s = <<>> <=> Len(s) = 0)
OBVIOUS

(* The client takes the first that waits.                                  *)
LEMMA LinkedTaken ==
    ASSUME NEW last \in Nat, NEW given \in Seq(Nat), NEW inside \in Seq(Nat), NEW maker,
           Linked(last, given, inside, maker), given # <<>>,
           NEW next, next = IF Head(given) = 0 THEN last ELSE Head(given)
    PROVE  /\ Linked(next, Tail(given), inside, maker)
           /\ LastIn(next, Tail(given), inside) = LastIn(last, given, inside)
           /\ Head(given) = 0 \/ Follows(last, Head(given), maker)
           /\ next \in Nat
<1>1. PICK rest : rest = Tail(given)
  OBVIOUS
<1>2. /\ rest \in Seq(Nat) /\ Len(rest) = Len(given) - 1 /\ Len(given) \in Nat \ {0}
      /\ \A i \in 1..(Len(given) - 1) : rest[i] = given[i + 1]
      /\ Head(given) = given[1] /\ given[1] \in Nat
      /\ (rest = <<>> <=> Len(given) = 1)
  BY <1>1, TailOf
<1>3. Follows(last, given[1], maker)
  BY DEF Linked
<1>4. given[1] = 0 => last = 0
  BY <1>2, <1>3 DEF Follows
<1>5. next = given[1] /\ next \in Nat
  BY <1>2, <1>4
<1>6. ASSUME rest # <<>> PROVE Follows(next, rest[1], maker)
  <2>1. 1 \in 1..(Len(given) - 1)
    BY <1>2, <1>6
  <2>2. rest[1] = given[1 + 1]
    BY <1>2, <2>1
  <2>3. Follows(given[1], given[1 + 1], maker)
    BY <2>1 DEF Linked
  <2> QED BY <1>5, <2>2, <2>3
<1>7. \A i \in 1..(Len(rest) - 1) : Follows(rest[i], rest[i + 1], maker)
  <2> SUFFICES ASSUME NEW i \in 1..(Len(rest) - 1) PROVE Follows(rest[i], rest[i + 1], maker)
    OBVIOUS
  <2>1. i \in 1..(Len(given) - 1) /\ i + 1 \in 1..(Len(given) - 1)
    BY <1>2
  <2>2. rest[i] = given[i + 1] /\ rest[i + 1] = given[i + 1 + 1]
    BY <1>2, <2>1
  <2>3. Follows(given[i + 1], given[i + 1 + 1], maker)
    BY <2>1 DEF Linked
  <2> QED BY <2>2, <2>3
<1>8. LastGiven(next, rest) = LastGiven(last, given)
  <2>1. CASE Len(given) = 1
    BY <1>2, <1>5, <2>1 DEF LastGiven
  <2>2. CASE Len(given) # 1
    <3>1. Len(rest) \in 1..(Len(given) - 1) /\ rest # <<>> /\ given # <<>> /\ Len(rest) + 1 = Len(given)
      BY <1>2, <2>2
    <3>2. rest[Len(rest)] = given[Len(rest) + 1]
      BY <1>2, <3>1
    <3> QED BY <3>1, <3>2 DEF LastGiven
  <2> QED BY <2>1, <2>2
<1>9. Linked(next, rest, inside, maker)
  BY <1>6, <1>7, <1>8 DEF Linked
<1> QED BY <1>1, <1>2, <1>3, <1>5, <1>8, <1>9 DEF LastIn

(* The oldest that is inside comes out.                                    *)
LEMMA LinkedOut ==
    ASSUME NEW last \in Nat, NEW given \in Seq(Nat), NEW inside \in Seq(Nat), NEW maker,
           Linked(last, given, inside, maker), inside # <<>>
    PROVE  /\ Linked(last, Append(given, Head(inside)), Tail(inside), maker)
           /\ LastIn(last, Append(given, Head(inside)), Tail(inside)) = LastIn(last, given, inside)
<1>1. PICK rest : rest = Tail(inside)
  OBVIOUS
<1>2. /\ rest \in Seq(Nat) /\ Len(rest) = Len(inside) - 1 /\ Len(inside) \in Nat \ {0}
      /\ \A i \in 1..(Len(inside) - 1) : rest[i] = inside[i + 1]
      /\ Head(inside) = inside[1] /\ inside[1] \in Nat
      /\ (rest = <<>> <=> Len(inside) = 1)
  BY <1>1, TailOf
<1>3. PICK x : x = Head(inside)
  OBVIOUS
<1>4. PICK more : more = Append(given, x)
  OBVIOUS
<1>5. /\ more \in Seq(Nat) /\ Len(more) = Len(given) + 1 /\ Len(given) \in Nat
      /\ \A i \in 1..Len(given) : more[i] = given[i]
      /\ more[Len(given) + 1] = x
      /\ more # <<>> /\ (given = <<>> <=> Len(given) = 0)
  BY <1>2, <1>3, <1>4, AppendOf
<1>6. Follows(LastGiven(last, given), x, maker)
  BY <1>2, <1>3 DEF Linked
<1>7. Follows(last, more[1], maker)
  <2>1. CASE Len(given) = 0
    BY <1>5, <1>6, <2>1 DEF LastGiven
  <2>2. CASE Len(given) # 0
    <3>1. given # <<>> /\ 1 \in 1..Len(given)
      BY <1>5, <2>2
    <3>2. more[1] = given[1]
      BY <1>5, <3>1
    <3>3. Follows(last, given[1], maker)
      BY <3>1 DEF Linked
    <3> QED BY <3>2, <3>3
  <2> QED BY <2>1, <2>2
<1>8. \A i \in 1..(Len(more) - 1) : Follows(more[i], more[i + 1], maker)
  <2> SUFFICES ASSUME NEW i \in 1..Len(given) PROVE Follows(more[i], more[i + 1], maker)
    BY <1>5
  <2>1. CASE i = Len(given)
    <3>1. LastGiven(last, given) = given[i]
      BY <1>5, <2>1 DEF LastGiven
    <3> QED BY <1>5, <1>6, <2>1, <3>1
  <2>2. CASE i # Len(given)
    <3>1. i \in 1..(Len(given) - 1) /\ i + 1 \in 1..Len(given)
      BY <1>5, <2>2
    <3> QED BY <1>5, <3>1 DEF Linked
  <2> QED BY <2>1, <2>2
<1>9. LastGiven(last, more) = x
  BY <1>5 DEF LastGiven
<1>10. ASSUME rest # <<>> PROVE Follows(x, rest[1], maker)
  <2>1. 1 \in 1..(Len(inside) - 1)
    BY <1>2, <1>10
  <2>2. rest[1] = inside[1 + 1]
    BY <1>2, <2>1
  <2>3. Follows(inside[1], inside[1 + 1], maker)
    BY <2>1 DEF Linked
  <2> QED BY <1>2, <1>3, <2>2, <2>3
<1>11. \A i \in 1..(Len(rest) - 1) : Follows(rest[i], rest[i + 1], maker)
  <2> SUFFICES ASSUME NEW i \in 1..(Len(rest) - 1) PROVE Follows(rest[i], rest[i + 1], maker)
    OBVIOUS
  <2>1. i \in 1..(Len(inside) - 1) /\ i + 1 \in 1..(Len(inside) - 1)
    BY <1>2
  <2>2. rest[i] = inside[i + 1] /\ rest[i + 1] = inside[i + 1 + 1]
    BY <1>2, <2>1
  <2>3. Follows(inside[i + 1], inside[i + 1 + 1], maker)
    BY <2>1 DEF Linked
  <2> QED BY <2>2, <2>3
<1>12. \A i \in 1..Len(rest) : rest[i] # 0
  <2> SUFFICES ASSUME NEW i \in 1..Len(rest) PROVE rest[i] # 0
    OBVIOUS
  <2>1. i + 1 \in 1..Len(inside) /\ rest[i] = inside[i + 1]
    BY <1>2
  <2> QED BY <2>1 DEF Linked
<1>13. Linked(last, more, rest, maker)
  BY <1>7, <1>8, <1>9, <1>10, <1>11, <1>12 DEF Linked
<1>14. LastIn(last, more, rest) = LastIn(last, given, inside)
  <2>1. inside # <<>> /\ LastIn(last, given, inside) = inside[Len(inside)]
    BY DEF LastIn
  <2>2. CASE Len(inside) = 1
    BY <1>2, <1>3, <1>9, <2>1, <2>2 DEF LastIn
  <2>3. CASE Len(inside) # 1
    <3>1. rest # <<>> /\ Len(rest) \in 1..(Len(inside) - 1) /\ Len(rest) + 1 = Len(inside)
      BY <1>2, <2>3
    <3>2. rest[Len(rest)] = inside[Len(inside)]
      BY <1>2, <3>1
    <3> QED BY <2>1, <3>1, <3>2 DEF LastIn
  <2> QED BY <2>2, <2>3
<1> QED BY <1>1, <1>3, <1>4, <1>13, <1>14

(* The codec accepts one more.                                             *)
LEMMA LinkedIn ==
    ASSUME NEW last \in Nat, NEW given \in Seq(Nat), NEW inside \in Seq(Nat), NEW maker,
           Linked(last, given, inside, maker), NEW x \in Nat \ {0}, Follows(LastIn(last, given, inside), x, maker)
    PROVE  /\ Linked(last, given, Append(inside, x), maker)
           /\ LastIn(last, given, Append(inside, x)) = x
<1>1. PICK more : more = Append(inside, x)
  OBVIOUS
<1>2. /\ more \in Seq(Nat) /\ Len(more) = Len(inside) + 1 /\ Len(inside) \in Nat
      /\ \A i \in 1..Len(inside) : more[i] = inside[i]
      /\ more[Len(inside) + 1] = x
      /\ more # <<>> /\ (inside = <<>> <=> Len(inside) = 0)
  BY <1>1, AppendOf
<1>3. Follows(LastGiven(last, given), more[1], maker)
  <2>1. CASE Len(inside) = 0
    BY <1>2, <2>1 DEF LastIn
  <2>2. CASE Len(inside) # 0
    <3>1. inside # <<>> /\ 1 \in 1..Len(inside)
      BY <1>2, <2>2
    <3>2. more[1] = inside[1]
      BY <1>2, <3>1
    <3>3. Follows(LastGiven(last, given), inside[1], maker)
      BY <3>1 DEF Linked
    <3> QED BY <3>2, <3>3
  <2> QED BY <2>1, <2>2
<1>4. \A i \in 1..(Len(more) - 1) : Follows(more[i], more[i + 1], maker)
  <2> SUFFICES ASSUME NEW i \in 1..Len(inside) PROVE Follows(more[i], more[i + 1], maker)
    BY <1>2
  <2>1. CASE i = Len(inside)
    <3>1. LastIn(last, given, inside) = inside[i]
      BY <1>2, <2>1 DEF LastIn
    <3> QED BY <1>2, <2>1, <3>1
  <2>2. CASE i # Len(inside)
    <3>1. i \in 1..(Len(inside) - 1) /\ i + 1 \in 1..Len(inside)
      BY <1>2, <2>2
    <3> QED BY <1>2, <3>1 DEF Linked
  <2> QED BY <2>1, <2>2
<1>5. \A i \in 1..Len(more) : more[i] # 0
  <2> SUFFICES ASSUME NEW i \in 1..Len(more) PROVE more[i] # 0
    OBVIOUS
  <2>1. i \in 1..Len(inside) \/ i = Len(inside) + 1
    BY <1>2
  <2> QED BY <1>2, <2>1 DEF Linked
<1>6. Linked(last, given, more, maker)
  BY <1>2, <1>3, <1>4, <1>5 DEF Linked
<1> QED BY <1>1, <1>2, <1>6 DEF LastIn

(* The change of the format comes before every frame.                      *)
LEMMA LinkedInfo ==
    ASSUME NEW given \in Seq(Nat), NEW inside \in Seq(Nat), NEW maker, given = <<>>,
           Linked(0, given, inside, maker)
    PROVE  /\ Linked(0, Append(given, 0), inside, maker)
           /\ LastIn(0, Append(given, 0), inside) = LastIn(0, given, inside)
<1>1. PICK more : more = Append(given, 0)
  OBVIOUS
<1>2. Len(more) = 1 /\ more[1] = 0 /\ more # <<>>
  BY <1>1, AppendOf
<1>3. LastGiven(0, more) = 0 /\ LastGiven(0, given) = 0
  BY <1>2 DEF LastGiven
<1>4. Linked(0, more, inside, maker)
  BY <1>2, <1>3 DEF Linked, Follows
<1> QED BY <1>1, <1>3, <1>4 DEF LastIn

Ports == {"unIn", "usIn", "unOut", "usOut"}
InPorts == {"unIn", "usIn"}
BuffersOf(p) == IF p \in InPorts THEN InBufs ELSE OutBufs
Handles == {"ctx", "av", "mpp", "grp", "list", "extra"}
OutState == [frame : Nat, status : {"unknown", "ready", "info"}]
GroupState == [at : {"none", "free", "lent"}, mpp : {"null", "junk", "set"}]

PortsTypeOK ==
    /\ kind \in {"ff", "he", "hd"} /\ node \in {"new", "ready", "failed", "gone", "crashed"}
    /\ handles \subseteq Handles
    /\ pool \in [Ports -> [q : Seq(Int), num : Int]]
    /\ \A p \in Ports : pool[p].q \in Seq(BuffersOf(p))
    /\ made \in [in : Nat, out : Nat]
    /\ frameIn \in [InBufs -> Nat]
    /\ out \in [OutBufs -> OutState]
    /\ codec \in [inside : Seq(Nat), info : BOOLEAN, refused : Nat]
    /\ group \in [OutBufs -> GroupState]
    /\ thread \in [alive : BOOLEAN, state : {"IDLE", "LOOP", "EXIT"}, pc : {"top", "enter", "out", "send", "get"},
                   input : InBufs \union {None}, output : OutBufs \union {None}]
    /\ client \in [in : SUBSET InBufs, out : SUBSET OutBufs, sent : Nat, last : Nat, skipped : BOOLEAN]
    /\ starts \in Nat

Resting == [alive |-> FALSE, state |-> "IDLE", pc |-> "top", input |-> None, output |-> None]
Emptied == [p \in Ports |-> [q |-> <<>>, num |-> 0]]

(* A thread lives in a node that is ready, and where it stands tells what  *)
(* it holds.                                                               *)
ThreadInv ==
    /\ thread.alive => node = "ready" /\ starts # 0
    /\ ~thread.alive => thread = Resting
    /\ thread.pc = "send" => thread.input # None /\ (kind = "hd" \/ thread.output # None)
    /\ thread.pc = "get" => /\ kind = "ff" => thread.input # None
                            /\ kind # "hd" => thread.output # None

(* Which buffers a node of each kind, and before it is ready, has where.   *)
NodeInv ==
    /\ node # "ready" => pool = Emptied
    /\ kind = "hd" => pool["unOut"].q = <<>> /\ thread.output = None
    /\ kind # "hd" => \A b \in OutBufs : group[b].at # "free"
    /\ node = "new" => /\ made = [in |-> 0, out |-> 0] /\ handles = {} /\ starts = 0
                       /\ client = [in |-> {}, out |-> {}, sent |-> 0, last |-> 0, skipped |-> FALSE]
                       /\ \A b \in OutBufs : group[b].at = "none" /\ out[b].frame = 0
                       /\ codec.inside = <<>>

Hand(x) == {x} \ {None}

(* Every buffer that was made is at most at one place.                     *)
HandsInv ==
    /\ Apart(pool["unIn"].q, pool["usIn"].q, client.in, Hand(thread.input), 1..made.in)
    /\ Apart(pool["unOut"].q, pool["usOut"].q, client.out, Hand(thread.output) \union Free, (-made.out)..(-1))

(* The count of a port and its queue stay within the limit, and of the     *)
(* port that allocates they are what was allocated.                        *)
MakesOut == IF kind = "hd" THEN "usOut" ELSE "unOut"
CountInv ==
    /\ \A p \in Ports : pool[p].num + Len(pool[p].q) <= mMaxNum(p)
    /\ node = "ready" => /\ made.in = pool["unIn"].num + Len(pool["unIn"].q)
                         /\ made.out = pool[MakesOut].num + Len(pool[MakesOut].q)

HandleInv ==
    /\ kind = "ff" => (node = "gone" => handles = {})
    /\ kind = "hd" => handles \subseteq {"ctx", "mpp", "grp", "list"}
    /\ kind = "he" => handles \subseteq {"ctx", "mpp", "grp", "extra"}
    /\ node = "gone" /\ kind = "hd" => handles = {}
    /\ node = "gone" /\ kind = "he" => handles \subseteq {"grp"}

(* Until the first stop: frames are taken in the order in which they were  *)
(* sent, and what the client took, what waits for it, what is inside the   *)
(* codec and the input that the thread holds follow each other.            *)
FramesOf(q, o) == [i \in 1..Len(q) |-> o[q[i]].frame]
Orderly == kind # "he" /\ node = "ready" /\ (starts = 0 \/ (starts = 1 /\ thread.alive /\ thread.state # "EXIT"))
Taken == client.sent - Len(pool["usIn"].q)
Given == FramesOf(pool["usOut"].q, out)
Newest == LastIn(client.last, Given, codec.inside)

FrameInv ==
    Orderly =>
      /\ Taken >= 0
      /\ \A i \in DOMAIN pool["usIn"].q : frameIn[pool["usIn"].q[i]] = Taken + i
      /\ thread.input # None => frameIn[thread.input] = Taken /\ Taken > 0
      /\ Linked(client.last, Given, codec.inside, kind)
      /\ thread.input = None => Newest = Taken
      /\ thread.input # None => Newest + 1 = Taken \/ (kind = "ff" /\ Newest = Taken)
      /\ kind = "ff" /\ thread.pc = "get" => Newest = Taken
      /\ kind = "hd" /\ codec.info => pool["usOut"].q = <<>> /\ client.last = 0
      /\ kind = "hd" => \A b \in OutBufs : b < -made.out => out[b].frame = 0
      /\ client.skipped = FALSE

PortsInv == PortsTypeOK /\ ThreadInv /\ NodeInv /\ HandsInv /\ CountInv /\ HandleInv /\ FrameInv

LEMMA Numbers ==
    /\ InBufs \subseteq Nat \ {0} /\ OutBufs \subseteq Int /\ None \notin Int
    /\ \A b \in OutBufs : b < 0 /\ -b \in InBufs
    /\ \A b \in InBufs : -b \in OutBufs
    /\ None \notin InBufs /\ None \notin OutBufs
    /\ \A p \in Ports : mMaxNum(p) \in Nat /\ 1..mMaxNum(MakesOut) \subseteq InBufs
    /\ 1..mMaxNum("unIn") \subseteq InBufs
    /\ mMaxNum("unIn") <= mMaxNum("usIn") /\ mMaxNum(MakesOut) <= mMaxNum("usOut")
    /\ kind # "hd" => mMaxNum(MakesOut) <= mMaxNum("unOut")
    /\ Count \in Nat /\ Count <= mMaxNum("unIn") /\ Count <= mMaxNum(MakesOut)
<1>1. FfCount \in Nat /\ HwCount \in Nat /\ PoolMin \in Nat
  BY PortsAssumption
<1>2. Least(HwCount) \in Nat /\ Least(FfCount) \in Nat /\ Least(4 * FfCount) \in Nat
      /\ Least(FfCount) <= Least(4 * FfCount) /\ HwCount <= Least(HwCount) /\ FfCount <= Least(FfCount)
  BY <1>1 DEF Least
<1>3. InBufs \subseteq Nat \ {0}
  BY <1>2 DEF InBufs
<1>4. \A b \in InBufs : -b \in OutBufs
  BY DEF OutBufs
<1>5. \A b \in OutBufs : b \in Int /\ b < 0 /\ -b \in InBufs
  <2> SUFFICES ASSUME NEW b \in OutBufs PROVE b \in Int /\ b < 0 /\ -b \in InBufs
    OBVIOUS
  <2>1. PICK i \in InBufs : b = -i
    BY DEF OutBufs
  <2>2. i \in Int /\ i > 0 /\ -(-i) = i
    BY <1>3
  <2> QED BY <2>1, <2>2
<1>6. /\ \A p \in Ports : mMaxNum(p) \in Nat
      /\ mMaxNum("unIn") \in {Least(HwCount), Least(FfCount)}
      /\ mMaxNum(MakesOut) \in {Least(HwCount), Least(FfCount)}
      /\ mMaxNum("unIn") <= mMaxNum("usIn") /\ mMaxNum(MakesOut) <= mMaxNum("usOut")
      /\ kind # "hd" => mMaxNum(MakesOut) <= mMaxNum("unOut")
      /\ Count \in Nat /\ Count <= mMaxNum("unIn") /\ Count <= mMaxNum(MakesOut)
  BY <1>1, <1>2 DEF mMaxNum, MakesOut, Count, Ports
<1> QED BY <1>2, <1>3, <1>4, <1>5, <1>6, PortsAssumption DEF InBufs

LEMMA PortTypes ==
    ASSUME PortsTypeOK
    PROVE  /\ \A p \in Ports : /\ pool[p].q \in Seq(Int) /\ pool[p].q \in Seq(BuffersOf(p))
                               /\ pool[p].num \in Int /\ Len(pool[p].q) \in Nat
                               /\ DOMAIN pool[p].q = 1..Len(pool[p].q)
                               /\ \A i \in DOMAIN pool[p].q : pool[p].q[i] \in BuffersOf(p)
           /\ {"unIn", "usIn", "unOut", "usOut"} = Ports /\ MakesOut \in Ports
           /\ BuffersOf("unIn") = InBufs /\ BuffersOf("usIn") = InBufs
           /\ BuffersOf("unOut") = OutBufs /\ BuffersOf("usOut") = OutBufs
           /\ thread.input \in InBufs \union {None} /\ thread.output \in OutBufs \union {None}
           /\ made.in \in Nat /\ made.out \in Nat
<1>1. \A p \in Ports : /\ pool[p].q \in Seq(Int) /\ pool[p].q \in Seq(BuffersOf(p)) /\ pool[p].num \in Int
  BY DEF PortsTypeOK
<1>2. ASSUME NEW p \in Ports
      PROVE  /\ Len(pool[p].q) \in Nat /\ DOMAIN pool[p].q = 1..Len(pool[p].q)
             /\ \A i \in DOMAIN pool[p].q : pool[p].q[i] \in BuffersOf(p)
  <2>1. pool[p].q \in Seq(BuffersOf(p))
    BY <1>1
  <2> QED BY <2>1
<1> QED BY <1>1, <1>2 DEF PortsTypeOK, Ports, BuffersOf, InPorts, MakesOut

(* A call of borrowObj(): nothing, the first that is idle, or a new one.   *)
LEMMA Lent ==
    ASSUME PortsTypeOK, CountInv, NEW p \in Ports, NEW got, got = borrowObj(p), Lend(got, p),
           Allocates(p) => node = "ready"
    PROVE  /\ pool' \in [Ports -> [q : Seq(Int), num : Int]]
           /\ pool'[p].q \in Seq(BuffersOf(p)) /\ \A r \in Ports : r # p => pool'[r] = pool[r]
           /\ made' \in [in : Nat, out : Nat] /\ got.obj \in BuffersOf(p) \union {None}
           /\ pool'[p].num + Len(pool'[p].q) <= mMaxNum(p)
           /\ \/ /\ got.obj = None /\ made' = made /\ pool'[p].q = pool[p].q
                 /\ Allocates(p) => pool'[p] = pool[p]
              \/ /\ pool[p].q # <<>> /\ got.obj = Head(pool[p].q) /\ made' = made
                 /\ pool'[p].q = Tail(pool[p].q) /\ Len(Tail(pool[p].q)) = Len(pool[p].q) - 1
                 /\ pool'[p].num = pool[p].num + 1
              \/ /\ Allocates(p) /\ got.obj = NewBuffer(p) /\ pool[p].q = <<>> /\ pool'[p].q = pool[p].q
                 /\ pool'[p].num = pool[p].num + 1 /\ pool[p].num < mMaxNum(p)
                 /\ made' = IF p = "unIn" THEN [made EXCEPT !.in = @ + 1] ELSE [made EXCEPT !.out = @ + 1]
<1>0. /\ pool[p].q \in Seq(Int) /\ pool[p].q \in Seq(BuffersOf(p)) /\ pool[p].num \in Int
      /\ pool \in [Ports -> [q : Seq(Int), num : Int]] /\ made \in [in : Nat, out : Nat]
      /\ mMaxNum(p) \in Nat /\ pool[p].num + Len(pool[p].q) <= mMaxNum(p)
  BY PortTypes, Numbers DEF PortsTypeOK, CountInv
<1>1. pool' = got.pool
  BY DEF Lend
<1>2. CASE pool[p].num >= mMaxNum(p)
  <2>1. got = [obj |-> None, pool |-> pool, new |-> FALSE]
    BY <1>2 DEF borrowObj
  <2> QED BY <1>0, <1>1, <2>1 DEF Lend
<1>3. CASE pool[p].num < mMaxNum(p) /\ pool[p].q # <<>>
  <2>1. got = [obj |-> Head(pool[p].q),
               pool |-> [pool EXCEPT ![p] = [q |-> Tail(pool[p].q), num |-> pool[p].num + 1]],
               new |-> FALSE]
    <3>1. ~(pool[p].num >= mMaxNum(p)) /\ (pool[p].q = <<>> /\ Allocates(p)) = FALSE
      BY <1>0, <1>3
    <3>2. borrowObj(p) = [obj |-> Head(pool[p].q),
                          pool |-> [pool EXCEPT ![p] = [q |-> Tail(pool[p].q), num |-> pool[p].num + 1]],
                          new |-> (pool[p].q = <<>> /\ Allocates(p))]
      BY <3>1, <1>3, Zenon DEF borrowObj
    <3> QED BY <3>1, <3>2
  <2>2. made' = made /\ got.obj = Head(pool[p].q)
    BY <2>1 DEF Lend
  <2>3. /\ Tail(pool[p].q) \in Seq(Int) /\ Tail(pool[p].q) \in Seq(BuffersOf(p))
        /\ Head(pool[p].q) \in BuffersOf(p) /\ Len(Tail(pool[p].q)) = Len(pool[p].q) - 1
    BY <1>0, <1>3, HeadTailProperties
  <2>4. pool' = [pool EXCEPT ![p] = [q |-> Tail(pool[p].q), num |-> pool[p].num + 1]]
    BY <1>1, <2>1
  <2>5. /\ pool' \in [Ports -> [q : Seq(Int), num : Int]] /\ \A r \in Ports : r # p => pool'[r] = pool[r]
        /\ pool'[p].q = Tail(pool[p].q) /\ pool'[p].num = pool[p].num + 1
    BY <1>0, <2>3, <2>4
  <2>6. pool'[p].num + Len(pool'[p].q) <= mMaxNum(p)
    BY <1>0, <2>3, <2>5
  <2> QED BY <1>0, <1>3, <2>2, <2>3, <2>5, <2>6
<1>4. CASE pool[p].num < mMaxNum(p) /\ pool[p].q = <<>> /\ ~Allocates(p)
  <2>1. got = [obj |-> None, pool |-> [pool EXCEPT ![p] = [q |-> pool[p].q, num |-> pool[p].num + 1]], new |-> FALSE]
    <3>1. ~(pool[p].num >= mMaxNum(p)) /\ (pool[p].q = <<>> /\ Allocates(p)) = FALSE
      BY <1>0, <1>4
    <3>2. borrowObj(p) = [obj |-> None, pool |-> [pool EXCEPT ![p] = [q |-> pool[p].q, num |-> pool[p].num + 1]],
                          new |-> (pool[p].q = <<>> /\ Allocates(p))]
      BY <3>1, <1>4, Zenon DEF borrowObj
    <3> QED BY <3>1, <3>2
  <2>2. made' = made /\ got.obj = None
    BY <2>1 DEF Lend
  <2>4. pool' = [pool EXCEPT ![p] = [q |-> pool[p].q, num |-> pool[p].num + 1]]
    BY <1>1, <2>1
  <2>5. /\ pool' \in [Ports -> [q : Seq(Int), num : Int]] /\ \A r \in Ports : r # p => pool'[r] = pool[r]
        /\ pool'[p].q = pool[p].q /\ pool'[p].num = pool[p].num + 1
    BY <1>0, <2>4
  <2>6. pool'[p].num + Len(pool'[p].q) <= mMaxNum(p)
    BY <1>0, <1>4, <2>5
  <2> QED BY <1>0, <1>4, <2>2, <2>5, <2>6
<1>5. CASE pool[p].num < mMaxNum(p) /\ pool[p].q = <<>> /\ Allocates(p)
  <2>1. got = [obj |-> NewBuffer(p), pool |-> [pool EXCEPT ![p] = [q |-> pool[p].q, num |-> pool[p].num + 1]], new |-> TRUE]
    <3>1. ~(pool[p].num >= mMaxNum(p)) /\ (pool[p].q = <<>> /\ Allocates(p)) = TRUE
      BY <1>0, <1>5
    <3>2. borrowObj(p) = [obj |-> NewBuffer(p), pool |-> [pool EXCEPT ![p] = [q |-> pool[p].q, num |-> pool[p].num + 1]],
                          new |-> (pool[p].q = <<>> /\ Allocates(p))]
      BY <3>1, <1>5, Zenon DEF borrowObj
    <3> QED BY <3>1, <3>2
  <2>2. /\ made' = IF p = "unIn" THEN [made EXCEPT !.in = @ + 1] ELSE [made EXCEPT !.out = @ + 1]
        /\ got.obj = NewBuffer(p)
    BY <2>1 DEF Lend
  <2>3. made' \in [in : Nat, out : Nat]
    BY <1>0, <2>2, SMTT(30)
  <2>4. pool' = [pool EXCEPT ![p] = [q |-> pool[p].q, num |-> pool[p].num + 1]]
    BY <1>1, <2>1
  <2>5. /\ pool' \in [Ports -> [q : Seq(Int), num : Int]] /\ \A r \in Ports : r # p => pool'[r] = pool[r]
        /\ pool'[p].q = pool[p].q /\ pool'[p].num = pool[p].num + 1
    BY <1>0, <2>4
  <2>6. pool'[p].num + Len(pool'[p].q) <= mMaxNum(p)
    BY <1>0, <1>5, <2>5
  <2>7. p \in {"unIn", MakesOut} /\ node = "ready" /\ Len(pool[p].q) = 0
    BY <1>5 DEF Allocates, MakesOut
  <2>8. NewBuffer(p) \in BuffersOf(p)
    <3>1. CASE p = "unIn"
      <4>1. made.in = pool[p].num /\ made.in \in Nat /\ made.in + 1 \in 1..mMaxNum("unIn")
        BY <1>0, <1>5, <2>7, <3>1 DEF CountInv
      <4> QED BY <3>1, <4>1, Numbers DEF NewBuffer, BuffersOf, InPorts
    <3>2. CASE p = MakesOut /\ p # "unIn"
      <4>1. made.out = pool[p].num /\ made.out \in Nat /\ made.out + 1 \in 1..mMaxNum(MakesOut)
        BY <1>0, <1>5, <2>7, <3>2 DEF CountInv
      <4>2. -(made.out + 1) \in OutBufs
        BY <4>1, Numbers, <3>2
      <4> QED BY <3>2, <4>2 DEF NewBuffer, BuffersOf, InPorts, MakesOut
    <3> QED BY <2>7, <3>1, <3>2
  <2> QED BY <1>0, <1>5, <2>2, <2>3, <2>5, <2>6, <2>8
<1> QED BY <1>0, <1>2, <1>3, <1>4, <1>5

(* The pools after a buffer came back to one.                              *)
AfterReturn(pools, p, x, v) ==
    /\ v \in [Ports -> [q : Seq(Int), num : Int]] /\ \A r \in Ports : r # p => v[r] = pools[r]
    /\ v[p].q \in Seq(BuffersOf(p)) /\ v[p].q = Append(pools[p].q, x)
    /\ v[p].num = pools[p].num - 1 /\ Len(v[p].q) = Len(pools[p].q) + 1
    /\ v[p].num + Len(v[p].q) = pools[p].num + Len(pools[p].q)

PoolTypes(pools) ==
    /\ pools \in [Ports -> [q : Seq(Int), num : Int]]
    /\ \A p \in Ports : pools[p].q \in Seq(BuffersOf(p))

LEMMA Returned ==
    ASSUME NEW pools, PoolTypes(pools), NEW p \in Ports, NEW x \in BuffersOf(p)
    PROVE  AfterReturn(pools, p, x, returnObj(pools, p, x)) /\ PoolTypes(returnObj(pools, p, x))
<1>0. pools \in [Ports -> [q : Seq(Int), num : Int]] /\ pools[p].q \in Seq(BuffersOf(p))
  BY DEF PoolTypes
<1>1. x \in Int
  BY Numbers DEF BuffersOf
<1>2. /\ Append(pools[p].q, x) \in Seq(Int) /\ Append(pools[p].q, x) \in Seq(BuffersOf(p))
      /\ Len(Append(pools[p].q, x)) = Len(pools[p].q) + 1 /\ Len(pools[p].q) \in Nat /\ pools[p].num \in Int
  BY <1>0, <1>1
<1> DEFINE v == returnObj(pools, p, x)
<1>3. v = [pools EXCEPT ![p] = [q |-> Append(pools[p].q, x), num |-> pools[p].num - 1]]
  BY DEF returnObj
<1> HIDE DEF v
<1>4. /\ v \in [Ports -> [q : Seq(Int), num : Int]] /\ \A r \in Ports : r # p => v[r] = pools[r]
      /\ v[p].q = Append(pools[p].q, x) /\ v[p].num = pools[p].num - 1
  BY <1>0, <1>2, <1>3
<1>5. v[p].num + Len(v[p].q) = pools[p].num + Len(pools[p].q)
  <2>1. v[p].num = pools[p].num - 1 /\ Len(v[p].q) = Len(pools[p].q) + 1
    BY <1>2, <1>4
  <2>2. pools[p].num \in Int /\ Len(pools[p].q) \in Nat
    BY <1>2
  <2>3. \A a, c \in Int : (a - 1) + (c + 1) = a + c
    OBVIOUS
  <2>4. (pools[p].num - 1) + (Len(pools[p].q) + 1) = pools[p].num + Len(pools[p].q)
    BY <2>2, <2>3
  <2> QED BY <2>1, <2>4
<1>6. AfterReturn(pools, p, x, v)
  BY <1>2, <1>4, <1>5 DEF AfterReturn
<1>7. \A r \in Ports : v[r].q \in Seq(BuffersOf(r))
  BY <1>2, <1>4 DEF PoolTypes
<1>8. PoolTypes(v)
  BY <1>4, <1>7 DEF PoolTypes
<1> QED BY <1>6, <1>8 DEF v

LEMMA ReturnedTo ==
    ASSUME PortsTypeOK, NEW p \in Ports, NEW x \in BuffersOf(p), pool' = returnObj(pool, p, x)
    PROVE  AfterReturn(pool, p, x, pool')
<1>1. PoolTypes(pool)
  BY DEF PortsTypeOK, PoolTypes
<1>2. AfterReturn(pool, p, x, returnObj(pool, p, x))
  BY <1>1, Returned
<1> QED BY <1>2

-----------------------------------------------------------------------------
(* Init, and the commands that only move the thread.                       *)

LEMMA PortsInitInv == Init => PortsInv
<1> SUFFICES ASSUME Init PROVE PortsInv
  OBVIOUS
<1>1. PortsTypeOK
  <2>1. <<>> \in Seq(Int) /\ <<>> \in Seq(Nat) /\ <<>> \in Seq(InBufs) /\ <<>> \in Seq(OutBufs)
    OBVIOUS
  <2>2. pool \in [Ports -> [q : Seq(Int), num : Int]] /\ \A p \in Ports : pool[p].q = <<>>
    BY <2>1 DEF Init, Ports
  <2>3. codec \in [inside : Seq(Nat), info : BOOLEAN, refused : Nat]
    BY <2>1 DEF Init
  <2>4. /\ made \in [in : Nat, out : Nat] /\ frameIn \in [InBufs -> Nat] /\ out \in [OutBufs -> OutState]
        /\ group \in [OutBufs -> GroupState]
        /\ thread \in [alive : BOOLEAN, state : {"IDLE", "LOOP", "EXIT"}, pc : {"top", "enter", "out", "send", "get"},
                   input : InBufs \union {None}, output : OutBufs \union {None}]
        /\ client \in [in : SUBSET InBufs, out : SUBSET OutBufs, sent : Nat, last : Nat, skipped : BOOLEAN]
        /\ starts \in Nat /\ kind \in {"ff", "he", "hd"} /\ node = "new" /\ handles = {}
    BY DEF Init, OutState, GroupState
  <2> QED BY <2>1, <2>2, <2>3, <2>4 DEF PortsTypeOK, BuffersOf
<1>2. ThreadInv
  BY DEF Init, ThreadInv, Resting
<1>3. NodeInv
  BY DEF Init, NodeInv, Emptied, Ports
<1>4. HandsInv
  <2>1. Free = {} /\ Hand(None) = {} /\ thread.input = None /\ thread.output = None /\ client.in = {} /\ client.out = {}
    BY DEF Init, Free, Hand
  <2>2. \A p \in Ports : pool[p].q = <<>> /\ DOMAIN pool[p].q = {}
    BY DEF Init, Ports
  <2> QED BY <2>1, <2>2 DEF HandsInv, Apart, Ports
<1>5. CountInv
  <2>1. \A p \in Ports : pool[p].num = 0 /\ Len(pool[p].q) = 0
    BY DEF Init, Ports
  <2> QED BY <2>1, Numbers DEF CountInv, Init
<1>6. HandleInv
  BY DEF Init, HandleInv
<1>7. FrameInv
  BY DEF Init, FrameInv, Orderly
<1> QED BY <1>1, <1>2, <1>3, <1>4, <1>5, <1>6, <1>7 DEF PortsInv

(* Where buffers and frames stay, and the thread holds what it held.       *)
LEMMA Moved ==
    ASSUME PortsInv, PortsTypeOK', UNCHANGED <<kind, node, handles, pool, made, frameIn, out, group, client, codec>>,
           thread'.input = thread.input, thread'.output = thread.output, starts \in Nat, starts' \in Nat
    PROVE  /\ node # "new" => NodeInv'
           /\ HandsInv' /\ CountInv' /\ HandleInv'
           /\ Given' = Given /\ Newest' = Newest /\ Taken' = Taken
<1>1. Given' = Given
  BY DEF Given, FramesOf
<1> QED BY <1>1 DEF PortsInv, NodeInv, HandsInv, CountInv, HandleInv, Newest, Taken, Apart, Hand, Free, mMaxNum, MakesOut, Emptied

LEMMA StartPortsInv == PortsInv /\ Start => PortsInv'
<1> SUFFICES ASSUME PortsInv, Start PROVE PortsInv'
  OBVIOUS
<1>1. PortsTypeOK'
  <2>1. /\ UNCHANGED <<kind, node, handles, pool, made, frameIn, out, group, client, codec>>
        /\ thread' = [thread EXCEPT !.alive = TRUE, !.pc = "enter"] /\ starts' = starts + 1
    BY DEF Start
  <2>2. thread' \in [alive : BOOLEAN, state : {"IDLE", "LOOP", "EXIT"}, pc : {"top", "enter", "out", "send", "get"},
                    input : InBufs \union {None}, output : OutBufs \union {None}]
    BY <2>1 DEF PortsInv, PortsTypeOK
  <2>3. starts' \in Nat
    BY <2>1 DEF PortsInv, PortsTypeOK
  <2> QED BY <2>1, <2>2, <2>3 DEF PortsInv, PortsTypeOK
<1>2. /\ UNCHANGED <<kind, node, handles, pool, made, frameIn, out, group, client, codec>>
      /\ thread' = [thread EXCEPT !.alive = TRUE, !.pc = "enter"] /\ starts' = starts + 1 /\ ~thread.alive
      /\ thread'.input = thread.input /\ thread'.output = thread.output /\ thread'.pc = "enter" /\ thread'.alive = TRUE
      /\ thread'.state = thread.state /\ node = "ready"
  BY DEF PortsInv, PortsTypeOK, Start
<1>3. /\ node # "new" => NodeInv'
      /\ HandsInv' /\ CountInv' /\ HandleInv' /\ Given' = Given /\ Newest' = Newest /\ Taken' = Taken
  BY <1>1, <1>2, Moved DEF PortsInv, PortsTypeOK
<1>4. ThreadInv'
  <2>1. starts' # 0
    BY <1>2 DEF PortsInv, PortsTypeOK
  <2> QED BY <1>2, <2>1 DEF PortsInv, ThreadInv
<1>5. FrameInv'
  <2>1. Orderly' => Orderly
    BY <1>2 DEF Orderly, PortsInv, PortsTypeOK
  <2> QED BY <2>1, <1>2, <1>3 DEF FrameInv, PortsInv, ThreadInv, Resting
<1> QED BY <1>1, <1>2, <1>3, <1>4, <1>5 DEF PortsInv

LEMMA StopPortsInv == PortsInv /\ Stop => PortsInv'
<1> SUFFICES ASSUME PortsInv, Stop PROVE PortsInv'
  OBVIOUS
<1>1. PortsTypeOK'
  BY DEF PortsInv, PortsTypeOK, Stop
<1>2. /\ UNCHANGED <<kind, node, handles, pool, made, frameIn, out, group, client, codec>> /\ starts' = starts
      /\ thread'.input = thread.input /\ thread'.output = thread.output /\ thread'.pc = thread.pc
      /\ thread'.alive = thread.alive /\ thread.alive /\ thread'.state = "EXIT"
  BY DEF PortsInv, PortsTypeOK, Stop
<1>3. /\ node # "new" => NodeInv'
      /\ HandsInv' /\ CountInv' /\ HandleInv' /\ Given' = Given /\ Newest' = Newest /\ Taken' = Taken
  BY <1>1, <1>2, Moved DEF PortsInv, PortsTypeOK
<1>4. ThreadInv'
  BY <1>2 DEF PortsInv, ThreadInv
<1>5. FrameInv'
  <2>1. Orderly' => Orderly
    BY <1>2 DEF Orderly, PortsInv, PortsTypeOK
  <2> QED BY <2>1, <1>2, <1>3 DEF FrameInv, PortsInv
<1> QED BY <1>1, <1>2, <1>3, <1>4, <1>5 DEF PortsInv, ThreadInv

LEMMA EnterPortsInv == PortsInv /\ Enter => PortsInv'
<1> SUFFICES ASSUME PortsInv, Enter PROVE PortsInv'
  OBVIOUS
<1>1. PortsTypeOK'
  BY DEF PortsInv, PortsTypeOK, Enter, Idle, ports
<1>2. /\ UNCHANGED <<kind, node, handles, pool, made, frameIn, out, group, client, codec>> /\ starts' = starts
      /\ thread'.input = thread.input /\ thread'.output = thread.output /\ thread'.pc = "top"
      /\ thread'.alive = thread.alive /\ thread.alive /\ thread'.state # "IDLE"
      /\ thread.state = "EXIT" => thread'.state = "EXIT"
      /\ thread.pc = "enter"
  BY DEF PortsInv, PortsTypeOK, Enter, Idle, ports
<1>3. /\ node # "new" => NodeInv'
      /\ HandsInv' /\ CountInv' /\ HandleInv' /\ Given' = Given /\ Newest' = Newest /\ Taken' = Taken
  BY <1>1, <1>2, Moved DEF PortsInv, PortsTypeOK
<1>4. ThreadInv'
  BY <1>2 DEF PortsInv, ThreadInv
<1>5. FrameInv'
  <2>1. Orderly' => Orderly
    BY <1>2 DEF Orderly, PortsInv, PortsTypeOK
  <2> QED BY <2>1, <1>2, <1>3 DEF FrameInv, PortsInv
<1> QED BY <1>1, <1>2, <1>3, <1>4, <1>5 DEF PortsInv, ThreadInv

(* What the thread held is lost when it ends.                              *)
LEMMA LeavePortsInv == PortsInv /\ Leave => PortsInv'
<1> SUFFICES ASSUME PortsInv, Leave PROVE PortsInv'
  OBVIOUS
<1>2. /\ UNCHANGED <<kind, node, handles, pool, made, frameIn, out, group, client, codec>> /\ starts' = starts
      /\ thread' = Resting /\ thread.alive /\ thread.state = "EXIT"
  BY DEF Leave, Idle, ports, Resting
<1>1. PortsTypeOK'
  BY <1>2 DEF PortsInv, PortsTypeOK, Resting
<1>3. Free' = Free /\ Hand(None) = {} /\ thread'.input = None /\ thread'.output = None
  BY <1>2 DEF Free, Hand, Resting
<1>4. HandsInv'
  BY <1>2, <1>3 DEF HandsInv, PortsInv, Apart
<1>5. ThreadInv' /\ NodeInv' /\ CountInv' /\ HandleInv'
  BY <1>2 DEF PortsInv, ThreadInv, NodeInv, CountInv, HandleInv, Resting, mMaxNum, MakesOut, Emptied
<1>6. FrameInv'
  <2>1. starts # 0
    BY <1>2 DEF PortsInv, ThreadInv
  <2>2. thread'.alive = FALSE
    BY <1>2 DEF Resting
  <2>3. ~Orderly'
    BY <1>2, <2>1, <2>2 DEF Orderly
  <2> QED BY <2>3 DEF FrameInv
<1> QED BY <1>1, <1>4, <1>5, <1>6 DEF PortsInv

-----------------------------------------------------------------------------
(* The client's calls.                                                     *)

LEMMA PushPortsInv == ASSUME PortsInv, NEW b, Push(b) PROVE PortsInv'
<1>0. /\ PortsTypeOK /\ ThreadInv /\ NodeInv /\ HandsInv /\ CountInv /\ HandleInv /\ FrameInv
      /\ UNCHANGED <<kind, node, handles, made, out, codec, group, thread, starts>>
      /\ node = "ready" /\ b \in client.in /\ b \in InBufs /\ b \in Int
  <2>1. PortsTypeOK /\ b \in client.in
    BY DEF PortsInv, Push
  <2>2. client.in \subseteq InBufs
    BY <2>1 DEF PortsTypeOK
  <2> QED BY <2>1, <2>2, Numbers DEF PortsInv, Push
<1>1. /\ client' = [client EXCEPT !.in = @ \ {b}, !.sent = @ + 1]
      /\ client' \in [in : SUBSET InBufs, out : SUBSET OutBufs, sent : Nat, last : Nat, skipped : BOOLEAN]
      /\ client'.in = client.in \ {b} /\ client'.out = client.out /\ client'.sent = client.sent + 1
      /\ client'.last = client.last /\ client'.skipped = client.skipped /\ client.sent \in Nat
  <2>1. client' = [client EXCEPT !.in = @ \ {b}, !.sent = @ + 1]
    BY DEF Push
  <2>2. client \in [in : SUBSET InBufs, out : SUBSET OutBufs, sent : Nat, last : Nat, skipped : BOOLEAN]
    BY <1>0 DEF PortsTypeOK
  <2>3. client.in \ {b} \in SUBSET InBufs /\ client.sent + 1 \in Nat
    BY <2>2
  <2>4. client' = [client EXCEPT !.in = client.in \ {b}, !.sent = client.sent + 1]
    BY <2>1
  <2> QED BY <2>1, <2>2, <2>3, <2>4
<1>2. /\ frameIn' \in [InBufs -> Nat] /\ frameIn'[b] = client.sent + 1
      /\ \A c \in InBufs : c # b => frameIn'[c] = frameIn[c]
  BY <1>0, <1>1 DEF Push, PortsTypeOK
<1>3. "usIn" \in Ports /\ "unIn" \in Ports /\ "usOut" \in Ports /\ "unOut" \in Ports /\ MakesOut # "usIn"
      /\ BuffersOf("usIn") = InBufs
  BY DEF Ports, BuffersOf, InPorts, MakesOut
<1>4. /\ pool' \in [Ports -> [q : Seq(Int), num : Int]] /\ \A r \in Ports : r # "usIn" => pool'[r] = pool[r]
      /\ pool'["usIn"].q \in Seq(BuffersOf("usIn")) /\ pool'["usIn"].q = Append(pool["usIn"].q, b)
      /\ Len(pool'["usIn"].q) = Len(pool["usIn"].q) + 1
      /\ pool'["usIn"].num + Len(pool'["usIn"].q) = pool["usIn"].num + Len(pool["usIn"].q)
  <2>1. b \in BuffersOf("usIn") /\ pool' = returnObj(pool, "usIn", b)
    BY <1>0, <1>3 DEF Push
  <2> QED BY <1>0, <1>3, <2>1, ReturnedTo DEF AfterReturn
<1>5. PortsTypeOK'
  BY <1>0, <1>1, <1>2, <1>4, ZenonT(60) DEF PortsTypeOK, BuffersOf
<1>6. ThreadInv' /\ HandleInv'
  BY <1>0 DEF ThreadInv, HandleInv, Resting
<1>7. NodeInv'
  BY <1>0, <1>3, <1>4 DEF NodeInv
<1>8. HandsInv'
  <2>1. Apart(pool["usIn"].q, pool["unIn"].q, client.in, Hand(thread.input), 1..made.in)
    BY <1>0, ApartTurned DEF HandsInv
  <2>2. pool["usIn"].q \in Seq(Int) /\ pool["unIn"].q \in Seq(Int)
    BY <1>0, <1>3, PortTypes
  <2>3. Apart(Append(pool["usIn"].q, b), pool["unIn"].q, client.in \ {b}, Hand(thread.input), 1..made.in)
    BY <1>0, <2>1, <2>2, ApartReturn
  <2>4. Apart(pool'["unIn"].q, pool'["usIn"].q, client'.in, Hand(thread'.input), 1..made'.in)
    BY <1>0, <1>1, <1>3, <1>4, <2>3, ApartTurned
  <2> QED BY <1>0, <1>1, <1>3, <1>4, <2>4 DEF HandsInv, Free
<1>9. CountInv'
  <2>1. \A p \in Ports : mMaxNum(p)' = mMaxNum(p)
    BY <1>0 DEF mMaxNum
  <2> QED BY <1>0, <1>3, <1>4, <2>1 DEF CountInv, MakesOut
<1>10. FrameInv'
  <2>1. /\ Orderly' = Orderly /\ Given' = Given /\ Newest' = Newest /\ Taken' = Taken
    <3>1. Given' = Given
      BY <1>0, <1>3, <1>4 DEF Given, FramesOf
    <3>2. Taken' = Taken
      <4>1. Len(pool["usIn"].q) \in Nat
        BY <1>0, <1>3, PortTypes
      <4> QED BY <1>1, <1>4, <4>1 DEF Taken
    <3> QED BY <1>0, <1>1, <3>1, <3>2 DEF Newest, Orderly
  <2>2. /\ pool["usIn"].q \in Seq(Int) /\ Len(pool["usIn"].q) \in Nat
        /\ DOMAIN pool["usIn"].q = 1..Len(pool["usIn"].q)
        /\ \A i \in DOMAIN pool["usIn"].q : pool["usIn"].q[i] \in InBufs /\ pool["usIn"].q[i] # b
    BY <1>0, <1>3, PortTypes DEF HandsInv, Apart
  <2>3. thread.input # b
    <3>1. None # b
      BY <1>0, Numbers
    <3> QED BY <1>0, <3>1 DEF HandsInv, Apart, Hand
  <2>4. ASSUME Orderly
        PROVE  \A i \in DOMAIN pool'["usIn"].q : frameIn'[pool'["usIn"].q[i]] = Taken + i
    <3> SUFFICES ASSUME NEW i \in DOMAIN pool'["usIn"].q PROVE frameIn'[pool'["usIn"].q[i]] = Taken + i
      OBVIOUS
    <3>1. i \in 1..Len(pool["usIn"].q) \/ i = Len(pool["usIn"].q) + 1
      BY <1>4, <2>2
    <3>2. CASE i \in 1..Len(pool["usIn"].q)
      <4>1. pool'["usIn"].q[i] = pool["usIn"].q[i] /\ i \in DOMAIN pool["usIn"].q
        BY <1>0, <1>4, <2>2, <3>2
      <4>2. frameIn[pool["usIn"].q[i]] = Taken + i
        BY <1>0, <2>4, <4>1 DEF FrameInv
      <4> QED BY <1>2, <2>2, <4>1, <4>2
    <3>3. CASE i = Len(pool["usIn"].q) + 1
      <4>1. pool'["usIn"].q[i] = b
        BY <1>0, <1>4, <2>2, <3>3
      <4> QED BY <1>1, <1>2, <2>2, <3>3, <4>1 DEF Taken
    <3> QED BY <3>1, <3>2, <3>3
  <2>5. thread.input # None => thread.input \in InBufs /\ frameIn'[thread.input] = frameIn[thread.input]
    BY <1>0, <1>2, <2>3, PortTypes
  <2> QED BY <1>0, <1>1, <1>3, <1>4, <2>1, <2>4, <2>5 DEF FrameInv
<1> QED BY <1>5, <1>6, <1>7, <1>8, <1>9, <1>10 DEF PortsInv

-----------------------------------------------------------------------------
(* Where a borrowed buffer goes.                                           *)

Known(p) == IF p \in InPorts THEN 1..made.in ELSE (-made.out)..(-1)

LEMMA LentCounts ==
    ASSUME PortsTypeOK, CountInv, NEW p \in Ports, NEW got, got = borrowObj(p), Lend(got, p),
           Allocates(p) => node = "ready", UNCHANGED <<kind, node>>
    PROVE  CountInv'
<1>1. /\ \A r \in Ports : r # p => pool'[r] = pool[r]
      /\ pool'[p].num + Len(pool'[p].q) <= mMaxNum(p)
      /\ \/ /\ got.obj = None /\ made' = made /\ pool'[p].q = pool[p].q
            /\ Allocates(p) => pool'[p] = pool[p]
         \/ /\ made' = made /\ Len(pool'[p].q) = Len(pool[p].q) - 1 /\ pool'[p].num = pool[p].num + 1
         \/ /\ Allocates(p) /\ pool'[p].q = pool[p].q /\ pool'[p].num = pool[p].num + 1
            /\ made' = IF p = "unIn" THEN [made EXCEPT !.in = @ + 1] ELSE [made EXCEPT !.out = @ + 1]
  BY Lent
<1>2. \A r \in Ports : mMaxNum(r)' = mMaxNum(r)
  BY DEF mMaxNum
<1>3. \A r \in Ports : pool'[r].num + Len(pool'[r].q) <= mMaxNum(r)'
  BY <1>1, <1>2 DEF CountInv
<1>4. MakesOut' = MakesOut /\ node' = node
  BY DEF MakesOut
<1>5. /\ made \in [in : Nat, out : Nat] /\ MakesOut \in Ports /\ "unIn" \in Ports /\ MakesOut # "unIn"
      /\ \A r \in Ports : pool[r].num \in Int /\ Len(pool[r].q) \in Nat
  BY PortTypes DEF PortsTypeOK, MakesOut, Ports
<1>6. ASSUME Allocates(p)
      PROVE  \/ made' = made /\ pool'[p].num + Len(pool'[p].q) = pool[p].num + Len(pool[p].q)
             \/ /\ made' = IF p = "unIn" THEN [made EXCEPT !.in = @ + 1] ELSE [made EXCEPT !.out = @ + 1]
                /\ pool'[p].num + Len(pool'[p].q) = pool[p].num + Len(pool[p].q) + 1
  <2>1. pool[p].num \in Int /\ Len(pool[p].q) \in Nat
    BY <1>5
  <2>2. CASE made' = made /\ pool'[p] = pool[p]
    BY <2>2
  <2>3. CASE /\ made' = made /\ Len(pool'[p].q) = Len(pool[p].q) - 1 /\ pool'[p].num = pool[p].num + 1
    <3>1. (pool[p].num + 1) + (Len(pool[p].q) - 1) = pool[p].num + Len(pool[p].q)
      BY <2>1
    <3> QED BY <2>3, <3>1
  <2>4. CASE /\ pool'[p].q = pool[p].q /\ pool'[p].num = pool[p].num + 1
             /\ made' = IF p = "unIn" THEN [made EXCEPT !.in = @ + 1] ELSE [made EXCEPT !.out = @ + 1]
    <3>1. (pool[p].num + 1) + Len(pool[p].q) = pool[p].num + Len(pool[p].q) + 1
      BY <2>1
    <3> QED BY <2>4, <3>1
  <2> QED BY <1>1, <1>6, <2>2, <2>3, <2>4
<1>7. ASSUME node = "ready"
      PROVE  /\ made'.in = pool'["unIn"].num + Len(pool'["unIn"].q)
             /\ made'.out = pool'[MakesOut].num + Len(pool'[MakesOut].q)
  <2>1. /\ made.in = pool["unIn"].num + Len(pool["unIn"].q)
        /\ made.out = pool[MakesOut].num + Len(pool[MakesOut].q)
    BY <1>7 DEF CountInv
  <2>2. CASE ~Allocates(p)
    <3>1. p # "unIn" /\ p # MakesOut
      BY <2>2 DEF Allocates, MakesOut
    <3> QED BY <1>1, <1>5, <2>1, <2>2, <3>1
  <2>3. CASE p = "unIn"
    <3>1. Allocates(p) /\ pool'[MakesOut] = pool[MakesOut]
      BY <1>1, <1>5, <2>3 DEF Allocates
    <3> QED BY <1>5, <1>6, <2>1, <2>3, <3>1
  <2>4. CASE p = MakesOut
    <3>1. Allocates(p) /\ pool'["unIn"] = pool["unIn"] /\ p # "unIn"
      BY <1>1, <1>5, <2>4 DEF Allocates, MakesOut
    <3> QED BY <1>5, <1>6, <2>1, <2>4, <3>1
  <2> QED BY <2>2, <2>3, <2>4 DEF Allocates, MakesOut
<1> QED BY <1>3, <1>4, <1>7 DEF CountInv

LEMMA LentApart ==
    ASSUME PortsTypeOK, CountInv, NEW p \in Ports, NEW got, got = borrowObj(p), Lend(got, p),
           Allocates(p) => node = "ready",
           NEW back \in Seq(Int), NEW lent, NEW held, Apart(pool[p].q, back, lent, held, Known(p))
    PROVE  Apart(pool'[p].q, back, lent \union Hand(got.obj), held, Known(p)')
<1>1. /\ \/ /\ got.obj = None /\ made' = made /\ pool'[p].q = pool[p].q
         \/ /\ pool[p].q # <<>> /\ got.obj = Head(pool[p].q) /\ made' = made /\ pool'[p].q = Tail(pool[p].q)
         \/ /\ Allocates(p) /\ got.obj = NewBuffer(p) /\ pool'[p].q = pool[p].q
            /\ made' = IF p = "unIn" THEN [made EXCEPT !.in = @ + 1] ELSE [made EXCEPT !.out = @ + 1]
      /\ got.obj \in BuffersOf(p) \union {None}
  BY Lent
<1>2. pool[p].q \in Seq(Int) /\ made \in [in : Nat, out : Nat]
  BY PortTypes DEF PortsTypeOK
<1>3. CASE got.obj = None /\ made' = made /\ pool'[p].q = pool[p].q
  <2>1. lent \union Hand(got.obj) = lent /\ Known(p)' = Known(p)
    BY <1>3 DEF Hand, Known
  <2> QED BY <1>3, <2>1
<1>4. CASE pool[p].q # <<>> /\ got.obj = Head(pool[p].q) /\ made' = made /\ pool'[p].q = Tail(pool[p].q)
  <2>1. Apart(Tail(pool[p].q), back, lent \union {Head(pool[p].q)}, held, Known(p))
    BY <1>2, <1>4, ApartLend
  <2>2. Head(pool[p].q) # None
    <3>1. Head(pool[p].q) \in Int
      BY <1>2, <1>4
    <3> QED BY <3>1, Numbers
  <2>3. Hand(got.obj) = {Head(pool[p].q)} /\ Known(p)' = Known(p)
    BY <1>4, <2>2 DEF Hand, Known
  <2> QED BY <1>4, <2>1, <2>3
<1>5. CASE /\ Allocates(p) /\ got.obj = NewBuffer(p) /\ pool'[p].q = pool[p].q
           /\ made' = IF p = "unIn" THEN [made EXCEPT !.in = @ + 1] ELSE [made EXCEPT !.out = @ + 1]
  <2>1. /\ NewBuffer(p) \notin Known(p) /\ NewBuffer(p) \in Known(p)' /\ Known(p) \subseteq Known(p)'
        /\ NewBuffer(p) \in Int
    <3>1. CASE p = "unIn"
      <4>1. made'.in = made.in + 1 /\ NewBuffer(p) = made.in + 1 /\ Known(p) = 1..made.in /\ Known(p)' = 1..(made.in + 1)
            /\ made.in \in Nat
        BY <1>2, <1>5, <3>1 DEF NewBuffer, Known, InPorts
      <4> QED BY <4>1
    <3>2. CASE p # "unIn"
      <4>1. p \notin InPorts
        BY <1>5, <3>2 DEF Allocates, InPorts
      <4>2. made'.out = made.out + 1 /\ NewBuffer(p) = -(made.out + 1) /\ Known(p) = (-made.out)..(-1)
            /\ Known(p)' = (-(made.out + 1))..(-1) /\ made.out \in Nat
        BY <1>2, <1>5, <3>2, <4>1 DEF NewBuffer, Known
      <4> QED BY <4>2
    <3> QED BY <3>1, <3>2
  <2>2. Apart(pool[p].q, back, lent \union {NewBuffer(p)}, held, Known(p)')
    BY <2>1, ApartNew
  <2>3. Hand(got.obj) = {NewBuffer(p)}
    BY <1>5, <2>1, Numbers DEF Hand
  <2> QED BY <1>5, <2>2, <2>3
<1> QED BY <1>1, <1>3, <1>4, <1>5

LEMMA LentTypes ==
    ASSUME PortsTypeOK, CountInv, NEW p \in Ports, NEW got, got = borrowObj(p), Lend(got, p),
           Allocates(p) => node = "ready"
    PROVE  /\ pool' \in [Ports -> [q : Seq(Int), num : Int]] /\ \A r \in Ports : pool'[r].q \in Seq(BuffersOf(r))
           /\ made' \in [in : Nat, out : Nat] /\ got.obj \in BuffersOf(p) \union {None}
           /\ \A r \in Ports : r # p => pool'[r] = pool[r]
           /\ p # "unIn" => made'.in = made.in
           /\ p # MakesOut => made'.out = made.out
           /\ made'.out >= made.out
<1>1. /\ pool' \in [Ports -> [q : Seq(Int), num : Int]]
      /\ pool'[p].q \in Seq(BuffersOf(p)) /\ \A r \in Ports : r # p => pool'[r] = pool[r]
      /\ made' \in [in : Nat, out : Nat] /\ got.obj \in BuffersOf(p) \union {None}
      /\ \/ made' = made
         \/ /\ Allocates(p)
            /\ made' = IF p = "unIn" THEN [made EXCEPT !.in = @ + 1] ELSE [made EXCEPT !.out = @ + 1]
  BY Lent
<1>2. \A r \in Ports : pool[r].q \in Seq(BuffersOf(r))
  BY DEF PortsTypeOK
<1>3. \A r \in Ports : pool'[r].q \in Seq(BuffersOf(r))
  BY <1>1, <1>2
<1>4. made \in [in : Nat, out : Nat]
  BY DEF PortsTypeOK
<1>5. (p # "unIn" => made'.in = made.in) /\ (p # MakesOut => made'.out = made.out)
  BY <1>1, <1>4 DEF Allocates, MakesOut
<1>6. made'.out >= made.out
  BY <1>1, <1>4
<1> QED BY <1>1, <1>3, <1>5, <1>6

LEMMA TakeInPortsInv == PortsInv /\ Take("unIn", "in") => PortsInv'
<1> SUFFICES ASSUME PortsInv, Take("unIn", "in") PROVE PortsInv'
  OBVIOUS
<1> PICK got : got = borrowObj("unIn")
  OBVIOUS
<1>0. /\ PortsTypeOK /\ ThreadInv /\ NodeInv /\ HandsInv /\ CountInv /\ HandleInv /\ FrameInv
      /\ UNCHANGED <<kind, node, handles, frameIn, out, codec, group, thread, starts>>
      /\ node = "ready" /\ Lend(got, "unIn") /\ "unIn" \in Ports /\ "unIn" # MakesOut
      /\ client' = IF got.obj = None THEN client ELSE [client EXCEPT !.in = @ \union {got.obj}]
  BY DEF PortsInv, Take, Ports, MakesOut
<1>1. /\ pool' \in [Ports -> [q : Seq(Int), num : Int]] /\ \A r \in Ports : pool'[r].q \in Seq(BuffersOf(r))
      /\ made' \in [in : Nat, out : Nat] /\ got.obj \in BuffersOf("unIn") \union {None}
      /\ \A r \in Ports : r # "unIn" => pool'[r] = pool[r]
      /\ made'.out = made.out
  BY <1>0, LentTypes
<1>2. /\ client' \in [in : SUBSET InBufs, out : SUBSET OutBufs, sent : Nat, last : Nat, skipped : BOOLEAN]
      /\ client'.in = client.in \union Hand(got.obj) /\ client'.out = client.out /\ client'.sent = client.sent
      /\ client'.last = client.last /\ client'.skipped = client.skipped
  <2>1. client \in [in : SUBSET InBufs, out : SUBSET OutBufs, sent : Nat, last : Nat, skipped : BOOLEAN]
        /\ BuffersOf("unIn") = InBufs
    BY <1>0, PortTypes DEF PortsTypeOK
  <2>2. CASE got.obj = None
    BY <1>0, <2>1, <2>2 DEF Hand
  <2>3. CASE got.obj # None
    <3>1. client' = [client EXCEPT !.in = client.in \union {got.obj}] /\ Hand(got.obj) = {got.obj}
          /\ client.in \union {got.obj} \in SUBSET InBufs
      BY <1>0, <1>1, <2>1, <2>3 DEF Hand
    <3> QED BY <2>1, <3>1
  <2> QED BY <2>2, <2>3
<1>3. PortsTypeOK'
  BY <1>0, <1>1, <1>2, ZenonT(60) DEF PortsTypeOK, BuffersOf
<1>4. ThreadInv' /\ HandleInv' /\ CountInv'
  <2>1. CountInv'
    BY <1>0, LentCounts
  <2> QED BY <1>0, <2>1 DEF ThreadInv, HandleInv, Resting
<1>5. NodeInv'
  BY <1>0, <1>1 DEF NodeInv, Ports
<1>6. HandsInv'
  <2>1. Apart(pool["unIn"].q, pool["usIn"].q, client.in, Hand(thread.input), Known("unIn"))
    BY <1>0 DEF HandsInv, Known, InPorts
  <2>2. pool["usIn"].q \in Seq(Int)
    BY <1>0, PortTypes
  <2>3. Apart(pool'["unIn"].q, pool["usIn"].q, client.in \union Hand(got.obj), Hand(thread.input), Known("unIn")')
    BY <1>0, <2>1, <2>2, LentApart
  <2>4. pool'["usIn"] = pool["usIn"] /\ pool'["usOut"] = pool["usOut"] /\ pool'["unOut"] = pool["unOut"]
        /\ Known("unIn")' = 1..made'.in /\ Free' = Free
    BY <1>0, <1>1, PortTypes DEF Known, InPorts, Free
  <2> QED BY <1>0, <1>1, <1>2, <2>3, <2>4 DEF HandsInv
<1>7. FrameInv'
  <2>1. pool'["usIn"] = pool["usIn"] /\ pool'["usOut"] = pool["usOut"]
    BY <1>0, <1>1, PortTypes
  <2>2. Orderly' = Orderly /\ Given' = Given /\ Newest' = Newest /\ Taken' = Taken
    <3>1. Given' = Given
      BY <1>0, <2>1 DEF Given, FramesOf
    <3> QED BY <1>0, <1>2, <2>1, <3>1 DEF Newest, Taken, Orderly
  <2> QED BY <1>0, <1>1, <1>2, <2>1, <2>2 DEF FrameInv
<1> QED BY <1>3, <1>4, <1>5, <1>6, <1>7 DEF PortsInv

(* The frames that a queue of outputs stands for.                          *)
LEMMA FramesType ==
    ASSUME NEW q \in Seq(OutBufs), NEW o, \A b \in OutBufs : o[b].frame \in Nat
    PROVE  /\ FramesOf(q, o) \in Seq(Nat) /\ Len(FramesOf(q, o)) = Len(q) /\ Len(q) \in Nat
           /\ \A i \in 1..Len(q) : q[i] \in OutBufs /\ FramesOf(q, o)[i] = o[q[i]].frame
           /\ FramesOf(q, o) = <<>> <=> q = <<>>
<1>1. Len(q) \in Nat /\ \A i \in 1..Len(q) : q[i] \in OutBufs
  OBVIOUS
<1>2. FramesOf(q, o) = [i \in 1..Len(q) |-> o[q[i]].frame]
  BY DEF FramesOf
<1>3. FramesOf(q, o) \in [1..Len(q) -> Nat]
  BY <1>1, <1>2
<1>4. FramesOf(q, o) \in Seq(Nat) /\ Len(FramesOf(q, o)) = Len(q)
  BY <1>1, <1>3, SeqDef
<1> QED BY <1>1, <1>2, <1>4, EmptySeq

LEMMA FramesTail ==
    ASSUME NEW q \in Seq(OutBufs), NEW o, \A b \in OutBufs : o[b].frame \in Nat, q # <<>>
    PROVE  /\ FramesOf(Tail(q), o) = Tail(FramesOf(q, o)) /\ FramesOf(q, o) # <<>>
           /\ Head(FramesOf(q, o)) = o[Head(q)].frame
<1>1. /\ Tail(q) \in Seq(OutBufs) /\ Len(Tail(q)) = Len(q) - 1 /\ Len(q) \in Nat \ {0}
      /\ \A i \in 1..Len(Tail(q)) : Tail(q)[i] = q[i + 1]
      /\ Head(q) = q[1]
  BY HeadTailProperties
<1>2. PICK f : f = FramesOf(q, o)
  OBVIOUS
<1>3. f \in Seq(Nat) /\ Len(f) = Len(q) /\ f # <<>> /\ \A i \in 1..Len(q) : f[i] = o[q[i]].frame
  BY <1>2, FramesType
<1>4. /\ Tail(f) \in Seq(Nat) /\ Len(Tail(f)) = Len(q) - 1
      /\ \A i \in 1..(Len(q) - 1) : Tail(f)[i] = f[i + 1]
      /\ Head(f) = f[1]
  BY <1>3, TailOf
<1>5. PICK g : g = FramesOf(Tail(q), o)
  OBVIOUS
<1>6. g \in Seq(Nat) /\ Len(g) = Len(q) - 1 /\ \A i \in 1..(Len(q) - 1) : g[i] = o[Tail(q)[i]].frame
  <2>1. g \in Seq(Nat) /\ Len(g) = Len(Tail(q)) /\ \A i \in 1..Len(Tail(q)) : g[i] = o[Tail(q)[i]].frame
    BY <1>1, <1>5, FramesType
  <2> QED BY <1>1, <2>1
<1>7. \A i \in 1..Len(g) : g[i] = Tail(f)[i]
  <2> SUFFICES ASSUME NEW i \in 1..Len(g) PROVE g[i] = Tail(f)[i]
    OBVIOUS
  <2>1. i \in 1..(Len(q) - 1) /\ i + 1 \in 1..Len(q)
    BY <1>1, <1>6
  <2>2. g[i] = o[q[i + 1]].frame
    BY <1>1, <1>6, <2>1
  <2>3. Tail(f)[i] = f[i + 1] /\ f[i + 1] = o[q[i + 1]].frame
    BY <1>3, <1>4, <2>1
  <2> QED BY <2>2, <2>3
<1>8. g = Tail(f)
  BY <1>4, <1>6, <1>7, SeqEqual
<1>9. f[1] = o[q[1]].frame
  BY <1>1, <1>3
<1> QED BY <1>1, <1>2, <1>3, <1>4, <1>5, <1>8, <1>9

LEMMA FramesAppend ==
    ASSUME NEW q \in Seq(OutBufs), NEW o, \A b \in OutBufs : o[b].frame \in Nat, NEW x \in OutBufs
    PROVE  FramesOf(Append(q, x), o) = Append(FramesOf(q, o), o[x].frame)
<1>1. /\ Append(q, x) \in Seq(OutBufs) /\ Len(Append(q, x)) = Len(q) + 1 /\ Len(q) \in Nat
      /\ \A i \in 1..Len(q) : Append(q, x)[i] = q[i]
      /\ Append(q, x)[Len(q) + 1] = x
  OBVIOUS
<1>2. PICK f : f = FramesOf(q, o)
  OBVIOUS
<1>3. f \in Seq(Nat) /\ Len(f) = Len(q) /\ \A i \in 1..Len(q) : f[i] = o[q[i]].frame
  BY <1>2, FramesType
<1>4. PICK y : y = o[x].frame
  OBVIOUS
<1>5. /\ Append(f, y) \in Seq(Nat) /\ Len(Append(f, y)) = Len(f) + 1
      /\ \A i \in 1..Len(f) : Append(f, y)[i] = f[i]
      /\ Append(f, y)[Len(f) + 1] = y
  BY <1>3, <1>4, AppendOf
<1>6. PICK g : g = FramesOf(Append(q, x), o)
  OBVIOUS
<1>7. g \in Seq(Nat) /\ Len(g) = Len(q) + 1 /\ \A i \in 1..(Len(q) + 1) : g[i] = o[Append(q, x)[i]].frame
  <2>1. PICK t : t = Append(q, x)
    OBVIOUS
  <2>2. t \in Seq(OutBufs) /\ Len(t) = Len(q) + 1
    BY <1>1, <2>1
  <2>3. g \in Seq(Nat) /\ Len(g) = Len(t) /\ \A i \in 1..Len(t) : g[i] = o[t[i]].frame
    BY <1>6, <2>1, <2>2, FramesType, ZenonT(60)
  <2> QED BY <2>1, <2>2, <2>3
<1>8. \A i \in 1..Len(g) : g[i] = Append(f, y)[i]
  <2> SUFFICES ASSUME NEW i \in 1..Len(g) PROVE g[i] = Append(f, y)[i]
    OBVIOUS
  <2>1. i \in 1..Len(q) \/ i = Len(q) + 1
    BY <1>1, <1>7
  <2>2. CASE i \in 1..Len(q)
    <3>1. g[i] = o[q[i]].frame
      BY <1>1, <1>7, <2>2
    <3> QED BY <1>3, <1>5, <2>2, <3>1
  <2>3. CASE i = Len(q) + 1
    <3>1. g[i] = o[x].frame
      BY <1>1, <1>7, <2>3
    <3> QED BY <1>3, <1>4, <1>5, <2>3, <3>1
  <2> QED BY <2>1, <2>2, <2>3
<1>9. g = Append(f, y)
  BY <1>3, <1>5, <1>7, <1>8, SeqEqual
<1> QED BY <1>2, <1>4, <1>6, <1>9

LEMMA FramesKept ==
    ASSUME NEW q \in Seq(OutBufs), NEW o, NEW u, \A i \in DOMAIN q : u[q[i]].frame = o[q[i]].frame
    PROVE  FramesOf(q, u) = FramesOf(q, o)
<1>1. DOMAIN q = 1..Len(q)
  OBVIOUS
<1> QED BY <1>1 DEF FramesOf

(* What the client gets, and what it notes of it.                          *)
LEMMA ReceivedIs ==
    ASSUME PortsTypeOK, NEW b \in OutBufs
    PROVE  /\ Received(b) \in [in : SUBSET InBufs, out : SUBSET OutBufs, sent : Nat, last : Nat, skipped : BOOLEAN]
           /\ Received(b).in = client.in /\ Received(b).out = client.out \union {b} /\ Received(b).sent = client.sent
           /\ out[b].frame = 0 \/ kind = "he" => Received(b).last = client.last /\ Received(b).skipped = client.skipped
           /\ out[b].frame # 0 /\ kind # "he" => Received(b).last = out[b].frame
           /\ kind # "he" /\ client.skipped = FALSE /\ (out[b].frame = 0 \/ Follows(client.last, out[b].frame, kind))
              => Received(b).skipped = FALSE
<1>1. client \in [in : SUBSET InBufs, out : SUBSET OutBufs, sent : Nat, last : Nat, skipped : BOOLEAN]
      /\ out[b].frame \in Nat
  BY DEF PortsTypeOK, OutState
<1>2. client.out \union {b} \in SUBSET OutBufs
  BY <1>1
<1>3. CASE kind = "he" \/ out[b].frame = 0
  <2>1. Received(b) = [client EXCEPT !.out = client.out \union {b}]
    BY <1>3 DEF Received
  <2> QED BY <1>1, <1>2, <1>3, <2>1
<1>4. CASE kind # "he" /\ out[b].frame # 0
  <2> DEFINE next == out[b].frame = client.last + 1 \/ (kind = "ff" /\ out[b].frame = client.last)
             skips == client.skipped \/ ~next
  <2>1. Received(b) = [client EXCEPT !.out = client.out \union {b}, !.last = out[b].frame, !.skipped = skips]
    BY <1>4 DEF Received
  <2>2. skips \in BOOLEAN
    OBVIOUS
  <2>3. client.skipped = FALSE /\ Follows(client.last, out[b].frame, kind) => skips = FALSE
    BY <1>1, <1>4 DEF Follows
  <2> HIDE DEF skips
  <2> QED BY <1>1, <1>2, <1>4, <2>1, <2>2, <2>3
<1> QED BY <1>3, <1>4

LEMMA TakeOutPortsInv == PortsInv /\ Take("usOut", "out") => PortsInv'
<1> SUFFICES ASSUME PortsInv, Take("usOut", "out") PROVE PortsInv'
  OBVIOUS
<1> PICK got : got = borrowObj("usOut")
  OBVIOUS
<1>0. /\ PortsTypeOK /\ ThreadInv /\ NodeInv /\ HandsInv /\ CountInv /\ HandleInv /\ FrameInv
      /\ UNCHANGED <<kind, node, handles, frameIn, out, codec, group, thread, starts>>
      /\ node = "ready" /\ Lend(got, "usOut") /\ "usOut" \in Ports /\ "usOut" # "unIn"
      /\ client' = IF got.obj = None THEN client ELSE Received(got.obj)
  BY DEF PortsInv, Take, Ports
<1>1. /\ pool' \in [Ports -> [q : Seq(Int), num : Int]] /\ \A r \in Ports : pool'[r].q \in Seq(BuffersOf(r))
      /\ made' \in [in : Nat, out : Nat] /\ got.obj \in BuffersOf("usOut") \union {None}
      /\ \A r \in Ports : r # "usOut" => pool'[r] = pool[r]
      /\ made'.in = made.in /\ made'.out >= made.out
  BY <1>0, LentTypes
<1>2. /\ client \in [in : SUBSET InBufs, out : SUBSET OutBufs, sent : Nat, last : Nat, skipped : BOOLEAN]
      /\ BuffersOf("usOut") = OutBufs /\ \A b \in OutBufs : out[b].frame \in Nat
      /\ pool["usOut"].q \in Seq(Int) /\ pool["usOut"].q \in Seq(OutBufs)
      /\ pool["unOut"].q \in Seq(Int)
      /\ pool'["usIn"] = pool["usIn"] /\ pool'["unIn"] = pool["unIn"] /\ pool'["unOut"] = pool["unOut"]
      /\ made.out \in Nat
  BY <1>0, <1>1, PortTypes DEF PortsTypeOK, OutState
<1>3. ASSUME got.obj # None
      PROVE  /\ got.obj \in OutBufs /\ client' = Received(got.obj) /\ Hand(got.obj) = {got.obj}
  BY <1>0, <1>1, <1>2, <1>3 DEF Hand
<1>4. /\ client' \in [in : SUBSET InBufs, out : SUBSET OutBufs, sent : Nat, last : Nat, skipped : BOOLEAN]
      /\ client'.in = client.in /\ client'.out = client.out \union Hand(got.obj) /\ client'.sent = client.sent
  <2>1. CASE got.obj = None
    BY <1>0, <1>2, <2>1 DEF Hand
  <2>2. CASE got.obj # None
    <3> PICK b : b = got.obj
      OBVIOUS
    <3>1. b \in OutBufs /\ client' = Received(b) /\ Hand(got.obj) = {b}
      BY <1>3, <2>2
    <3> QED BY <1>0, <3>1, ReceivedIs
  <2> QED BY <2>1, <2>2
<1>5. PortsTypeOK'
  BY <1>0, <1>1, <1>4, SMTT(30) DEF PortsTypeOK
<1>6. ThreadInv' /\ HandleInv' /\ CountInv' /\ NodeInv'
  <2>1. CountInv'
    BY <1>0, LentCounts
  <2>2. NodeInv'
    BY <1>0, <1>2 DEF NodeInv
  <2> QED BY <1>0, <2>1, <2>2 DEF ThreadInv, HandleInv, Resting
<1>7. HandsInv'
  <2> DEFINE held == Hand(thread.output) \union Free
  <2>1. Apart(pool["usOut"].q, pool["unOut"].q, client.out, held, Known("usOut"))
    BY <1>0, ApartTurned DEF HandsInv, Known, InPorts
  <2> HIDE DEF held
  <2>2. Apart(pool'["usOut"].q, pool["unOut"].q, client.out \union Hand(got.obj), held, Known("usOut")')
    BY <1>0, <1>2, <2>1, LentApart
  <2>3. Apart(pool'["unOut"].q, pool'["usOut"].q, client'.out, held, Known("usOut")')
    BY <1>2, <1>4, <2>2, ApartTurned
  <2>4. Known("usOut")' = (-made'.out)..(-1) /\ held' = held
    BY <1>0 DEF Known, InPorts, Free, held
  <2>5. Apart(pool'["unIn"].q, pool'["usIn"].q, client'.in, Hand(thread'.input), 1..made'.in)
    BY <1>0, <1>1, <1>2, <1>4 DEF HandsInv
  <2> QED BY <1>0, <2>3, <2>4, <2>5 DEF HandsInv, held
<1>8. FrameInv'
  <2> SUFFICES ASSUME Orderly PROVE FrameInv'
    BY <1>0 DEF FrameInv, Orderly
  <2>1. Taken' = Taken
    BY <1>2, <1>4 DEF Taken
  <2>2. /\ Linked(client.last, Given, codec.inside, kind) /\ client.skipped = FALSE
        /\ kind = "hd" /\ codec.info => pool["usOut"].q = <<>> /\ client.last = 0
        /\ kind = "hd" => \A b \in OutBufs : b < -made.out => out[b].frame = 0
    BY <1>0 DEF FrameInv
  <2>3. Given' = FramesOf(pool'["usOut"].q, out)
    BY <1>0 DEF Given
  <2>4. /\ Linked(client'.last, Given', codec.inside, kind) /\ client'.skipped = FALSE
        /\ LastIn(client'.last, Given', codec.inside) = Newest
        /\ kind = "hd" /\ codec.info => pool'["usOut"].q = <<>> /\ client'.last = 0
    <3>1. \/ /\ got.obj = None /\ pool'["usOut"].q = pool["usOut"].q
          \/ /\ pool["usOut"].q # <<>> /\ got.obj = Head(pool["usOut"].q) /\ pool'["usOut"].q = Tail(pool["usOut"].q)
          \/ /\ Allocates("usOut") /\ got.obj = NewBuffer("usOut") /\ pool'["usOut"].q = pool["usOut"].q
      BY <1>0, Lent
    <3>2. CASE got.obj = None /\ pool'["usOut"].q = pool["usOut"].q
      <4>1. Given' = Given /\ client' = client
        BY <1>0, <2>3, <3>2 DEF Given
      <4> QED BY <2>2, <3>2, <4>1 DEF Newest
    <3>3. CASE pool["usOut"].q # <<>> /\ got.obj = Head(pool["usOut"].q) /\ pool'["usOut"].q = Tail(pool["usOut"].q)
      <4> PICK b : b = Head(pool["usOut"].q)
        OBVIOUS
      <4>1. b \in OutBufs
        BY <1>2, <3>3
      <4>2. got.obj # None /\ client' = Received(b)
        BY <1>3, <3>3, <4>1, Numbers
      <4>3. Given' = Tail(Given) /\ Given # <<>> /\ Head(Given) = out[b].frame
        BY <1>2, <2>3, <3>3, FramesTail DEF Given
      <4>4. Given \in Seq(Nat) /\ codec.inside \in Seq(Nat) /\ client.last \in Nat
        BY <1>0, <1>2, FramesType DEF Given, PortsTypeOK
      <4> PICK next : next = IF Head(Given) = 0 THEN client.last ELSE Head(Given)
        OBVIOUS
      <4>5. /\ Linked(next, Tail(Given), codec.inside, kind)
            /\ LastIn(next, Tail(Given), codec.inside) = LastIn(client.last, Given, codec.inside)
            /\ Head(Given) = 0 \/ Follows(client.last, Head(Given), kind)
        BY <2>2, <4>3, <4>4, LinkedTaken
      <4>6. kind # "he"
        BY DEF Orderly
      <4>7. client'.last = next /\ client'.skipped = FALSE
        BY <1>0, <2>2, <4>1, <4>2, <4>3, <4>5, <4>6, ReceivedIs
      <4>8. ~(kind = "hd" /\ codec.info)
        BY <2>2, <3>3
      <4> QED BY <4>3, <4>5, <4>7, <4>8 DEF Newest
    <3>4. CASE Allocates("usOut") /\ got.obj = NewBuffer("usOut") /\ pool'["usOut"].q = pool["usOut"].q
      <4>1. kind = "hd" /\ got.obj = -(made.out + 1) /\ got.obj \in Int
        BY <1>2, <3>4 DEF Allocates, NewBuffer
      <4> PICK b : b = got.obj
        OBVIOUS
      <4>2. b \in OutBufs /\ client' = Received(b)
        BY <1>3, <4>1, Numbers
      <4>3. b < -made.out
        BY <1>2, <4>1
      <4>4. out[b].frame = 0
        BY <2>2, <4>1, <4>2, <4>3
      <4>5. client'.last = client.last /\ client'.skipped = client.skipped
        BY <1>0, <4>2, <4>4, ReceivedIs
      <4>6. Given' = Given
        BY <2>3, <3>4 DEF Given
      <4> QED BY <2>2, <3>4, <4>5, <4>6 DEF Newest
    <3> QED BY <3>1, <3>2, <3>3, <3>4
  <2>5. Newest' = Newest
    BY <1>0, <2>4 DEF Newest
  <2>6. kind = "hd" => \A b \in OutBufs : b < -made'.out => out[b].frame = 0
    <3> SUFFICES ASSUME kind = "hd", NEW b \in OutBufs, b < -made'.out PROVE out[b].frame = 0
      OBVIOUS
    <3>1. b \in Int /\ made'.out \in Nat
      BY <1>1, Numbers
    <3>2. b < -made.out
      BY <1>1, <1>2, <3>1
    <3> QED BY <2>2, <3>2
  <2> QED BY <1>0, <1>2, <2>1, <2>4, <2>5, <2>6 DEF FrameInv
<1> QED BY <1>5, <1>6, <1>7, <1>8 DEF PortsInv

(* A return keeps the sum of a port's count and its queue.                 *)
LEMMA ReturnedCounts ==
    ASSUME PortsTypeOK, CountInv, NEW p \in Ports, NEW x, AfterReturn(pool, p, x, pool'),
           UNCHANGED <<kind, node, made>>
    PROVE  CountInv'
<1>1. \A r \in Ports : pool'[r].num + Len(pool'[r].q) = pool[r].num + Len(pool[r].q)
  BY DEF AfterReturn
<1>2. \A r \in Ports : mMaxNum(r)' = mMaxNum(r)
  BY DEF mMaxNum
<1>3. MakesOut' = MakesOut /\ MakesOut \in Ports /\ "unIn" \in Ports
  BY DEF MakesOut, Ports
<1>4. \A r \in Ports : pool'[r].num + Len(pool'[r].q) <= mMaxNum(r)'
  BY <1>1, <1>2 DEF CountInv
<1> QED BY <1>1, <1>3, <1>4 DEF CountInv

LEMMA ReturnedTypes ==
    ASSUME PortsTypeOK, NEW p \in Ports, NEW x \in BuffersOf(p), pool' = returnObj(pool, p, x)
    PROVE  /\ pool' \in [Ports -> [q : Seq(Int), num : Int]] /\ \A r \in Ports : pool'[r].q \in Seq(BuffersOf(r))
           /\ \A r \in Ports : r # p => pool'[r] = pool[r]
           /\ pool'[p].q = Append(pool[p].q, x)
<1>1. AfterReturn(pool, p, x, pool')
  BY ReturnedTo
<1>2. \A r \in Ports : pool[r].q \in Seq(BuffersOf(r))
  BY DEF PortsTypeOK
<1> QED BY <1>1, <1>2 DEF AfterReturn

LEMMA EncoderGivePortsInv ==
    ASSUME PortsInv, NEW b, kind # "hd", GiveBack(b), pool' = returnObj(pool, "unOut", b), UNCHANGED group
    PROVE  PortsInv'
<1>0. /\ PortsTypeOK /\ ThreadInv /\ NodeInv /\ HandsInv /\ CountInv /\ HandleInv /\ FrameInv
      /\ UNCHANGED <<kind, node, handles, made, frameIn, out, codec, group, thread, starts>>
      /\ node = "ready" /\ b \in client.out /\ client' = [client EXCEPT !.out = @ \ {b}]
      /\ "unOut" \in Ports
  BY DEF PortsInv, GiveBack, Ports
<1>1. /\ client' \in [in : SUBSET InBufs, out : SUBSET OutBufs, sent : Nat, last : Nat, skipped : BOOLEAN]
      /\ client'.in = client.in /\ client'.out = client.out \ {b} /\ client'.sent = client.sent
      /\ client'.last = client.last /\ client'.skipped = client.skipped
      /\ b \in OutBufs /\ b \in BuffersOf("unOut") /\ b \in Int
  <2>1. client \in [in : SUBSET InBufs, out : SUBSET OutBufs, sent : Nat, last : Nat, skipped : BOOLEAN]
        /\ BuffersOf("unOut") = OutBufs
    BY <1>0, PortTypes DEF PortsTypeOK
  <2>2. client.out \ {b} \in SUBSET OutBufs /\ b \in OutBufs
    BY <1>0, <2>1
  <2>3. client' = [client EXCEPT !.out = client.out \ {b}]
    BY <1>0
  <2> QED BY <2>1, <2>2, <2>3, Numbers
<1>2. /\ pool' \in [Ports -> [q : Seq(Int), num : Int]] /\ \A r \in Ports : pool'[r].q \in Seq(BuffersOf(r))
      /\ \A r \in Ports : r # "unOut" => pool'[r] = pool[r]
      /\ pool'["unOut"].q = Append(pool["unOut"].q, b)
  BY <1>0, <1>1, ReturnedTypes
<1>3. pool'["unIn"] = pool["unIn"] /\ pool'["usIn"] = pool["usIn"] /\ pool'["usOut"] = pool["usOut"]
  BY <1>2 DEF Ports
<1>4. PortsTypeOK'
  BY <1>0, <1>1, <1>2, ZenonT(60) DEF PortsTypeOK
<1>5. ThreadInv' /\ HandleInv' /\ NodeInv'
  BY <1>0, <1>3 DEF ThreadInv, HandleInv, Resting, NodeInv
<1>6. CountInv'
  BY <1>0, <1>1, ReturnedTo, ReturnedCounts
<1>7. HandsInv'
  <2>1. Apart(pool["unOut"].q, pool["usOut"].q, client.out, Hand(thread.output) \union Free, (-made.out)..(-1))
    BY <1>0 DEF HandsInv
  <2>2. pool["unOut"].q \in Seq(Int) /\ pool["usOut"].q \in Seq(Int)
    BY <1>0, PortTypes
  <2>3. Apart(Append(pool["unOut"].q, b), pool["usOut"].q, client.out \ {b}, Hand(thread.output) \union Free,
              (-made.out)..(-1))
    BY <1>0, <1>1, <2>1, <2>2, ApartReturn
  <2>4. Free' = Free
    BY <1>0 DEF Free
  <2> QED BY <1>0, <1>1, <1>2, <1>3, <2>3, <2>4 DEF HandsInv
<1>8. FrameInv'
  <2>1. Orderly' = Orderly /\ Given' = Given /\ Newest' = Newest /\ Taken' = Taken
    <3>1. Given' = Given
      BY <1>0, <1>3 DEF Given, FramesOf
    <3> QED BY <1>0, <1>1, <1>3, <3>1 DEF Newest, Taken, Orderly
  <2> QED BY <1>0, <1>1, <1>3, <2>1 DEF FrameInv
<1> QED BY <1>4, <1>5, <1>6, <1>7, <1>8 DEF PortsInv

LEMMA DecoderGivePortsInv ==
    ASSUME PortsInv, NEW b, kind = "hd", GiveBack(b), ma_fill_buffer_to_group(b), UNCHANGED pool
    PROVE  PortsInv'
<1>0. /\ PortsTypeOK /\ ThreadInv /\ NodeInv /\ HandsInv /\ CountInv /\ HandleInv /\ FrameInv
      /\ UNCHANGED <<kind, node, handles, pool, made, frameIn, out, codec, thread, starts>>
      /\ node = "ready" /\ b \in client.out /\ client' = [client EXCEPT !.out = @ \ {b}]
  BY DEF PortsInv, GiveBack
<1>1. /\ client' \in [in : SUBSET InBufs, out : SUBSET OutBufs, sent : Nat, last : Nat, skipped : BOOLEAN]
      /\ client'.in = client.in /\ client'.out = client.out \ {b} /\ client'.sent = client.sent
      /\ client'.last = client.last /\ client'.skipped = client.skipped /\ b \in OutBufs
  <2>1. client \in [in : SUBSET InBufs, out : SUBSET OutBufs, sent : Nat, last : Nat, skipped : BOOLEAN]
    BY <1>0 DEF PortsTypeOK
  <2>2. client.out \ {b} \in SUBSET OutBufs /\ b \in OutBufs
    BY <1>0, <2>1
  <2>3. client' = [client EXCEPT !.out = client.out \ {b}]
    BY <1>0
  <2> QED BY <2>1, <2>2, <2>3
<1>2. group' \in [OutBufs -> GroupState] /\ (Free' = Free \/ Free' = Free \union {b})
  <2>1. group \in [OutBufs -> GroupState]
    BY <1>0 DEF PortsTypeOK
  <2>2. CASE group[b].mpp = "set"
    <3>1. group' = [group EXCEPT ![b].at = "free"]
      BY <2>2 DEF ma_fill_buffer_to_group
    <3>2. group' \in [OutBufs -> GroupState] /\ group'[b].at = "free"
          /\ \A c \in OutBufs : c # b => group'[c] = group[c]
      BY <1>1, <2>1, <3>1 DEF GroupState
    <3> QED BY <1>1, <3>2 DEF Free
  <2>3. CASE group[b].mpp # "set"
    <3>1. group' = group
      BY <2>3 DEF ma_fill_buffer_to_group
    <3> QED BY <2>1, <3>1 DEF Free
  <2> QED BY <2>2, <2>3
<1>3. PortsTypeOK'
  BY <1>0, <1>1, <1>2, ZenonT(60) DEF PortsTypeOK
<1>4. ThreadInv' /\ HandleInv' /\ NodeInv' /\ CountInv'
  BY <1>0 DEF ThreadInv, HandleInv, Resting, NodeInv, CountInv, mMaxNum, MakesOut
<1>5. HandsInv'
  <2>1. Apart(pool["unOut"].q, pool["usOut"].q, client.out, Hand(thread.output) \union Free, (-made.out)..(-1))
    BY <1>0 DEF HandsInv
  <2>2. b \in (-made.out)..(-1) /\ (\A i \in DOMAIN pool["unOut"].q : pool["unOut"].q[i] # b)
        /\ \A i \in DOMAIN pool["usOut"].q : pool["usOut"].q[i] # b
    BY <1>0, <2>1 DEF Apart
  <2>3. \A held : (held = Hand(thread.output) \union Free \/ held = Hand(thread.output) \union Free \union {b})
                  => Apart(pool["unOut"].q, pool["usOut"].q, client.out \ {b}, held, (-made.out)..(-1))
    BY <2>1, <2>2 DEF Apart
  <2>4. Apart(pool["unOut"].q, pool["usOut"].q, client.out \ {b}, Hand(thread.output) \union Free', (-made.out)..(-1))
    BY <1>2, <2>3
  <2> QED BY <1>0, <1>1, <2>4 DEF HandsInv
<1>6. FrameInv'
  <2>1. Orderly' = Orderly /\ Given' = Given /\ Newest' = Newest /\ Taken' = Taken
    <3>1. Given' = Given
      BY <1>0 DEF Given
    <3> QED BY <1>0, <1>1, <3>1 DEF Newest, Taken, Orderly
  <2> QED BY <1>0, <1>1, <2>1 DEF FrameInv
<1> QED BY <1>3, <1>4, <1>5, <1>6 DEF PortsInv

-----------------------------------------------------------------------------
(* The node's thread.                                                      *)

LEMMA TakeInputPortsInv == PortsInv /\ TakeInput => PortsInv'
<1> SUFFICES ASSUME PortsInv, TakeInput PROVE PortsInv'
  OBVIOUS
<1>0. /\ PortsTypeOK /\ ThreadInv /\ NodeInv /\ HandsInv /\ CountInv /\ HandleInv /\ FrameInv
      /\ UNCHANGED <<kind, node, handles, frameIn, out, codec, group, client, starts>>
      /\ thread.alive /\ thread.pc = "top" /\ node = "ready" /\ "usIn" \in Ports
      /\ thread \in [alive : BOOLEAN, state : {"IDLE", "LOOP", "EXIT"}, pc : {"top", "enter", "out", "send", "get"},
                     input : InBufs \union {None}, output : OutBufs \union {None}]
  BY DEF PortsInv, PortsTypeOK, TakeInput, At, Idle, ThreadInv, Ports
<1>1. CASE thread.input # None
  <2>1. UNCHANGED <<pool, made>> /\ thread' = [thread EXCEPT !.pc = "out"]
    BY <1>1 DEF TakeInput, ports
  <2>2. thread' \in [alive : BOOLEAN, state : {"IDLE", "LOOP", "EXIT"}, pc : {"top", "enter", "out", "send", "get"},
                     input : InBufs \union {None}, output : OutBufs \union {None}]
        /\ thread'.alive = thread.alive /\ thread'.input = thread.input /\ thread'.output = thread.output
        /\ thread'.pc = "out" /\ thread'.state = thread.state
    BY <1>0, <2>1
  <2>3. PortsTypeOK'
    BY <1>0, <2>1, <2>2 DEF PortsTypeOK
  <2>4. NodeInv' /\ HandsInv' /\ CountInv' /\ HandleInv' /\ Given' = Given /\ Newest' = Newest /\ Taken' = Taken
    BY <1>0, <2>1, <2>2, <2>3, Moved DEF PortsTypeOK
  <2>5. ThreadInv'
    BY <1>0, <2>2 DEF ThreadInv
  <2>6. FrameInv'
    BY <1>0, <2>1, <2>2, <2>4 DEF FrameInv, Orderly
  <2> QED BY <2>3, <2>4, <2>5, <2>6 DEF PortsInv
<1>2. CASE thread.input = None
  <2> PICK got : got = borrowObj("usIn")
    OBVIOUS
  <2>0. Lend(got, "usIn") /\ thread' = [thread EXCEPT !.input = got.obj, !.pc = "out"] /\ ~Allocates("usIn")
    BY <1>2 DEF TakeInput, Allocates
  <2>1. /\ pool' \in [Ports -> [q : Seq(Int), num : Int]] /\ \A r \in Ports : pool'[r].q \in Seq(BuffersOf(r))
        /\ made' \in [in : Nat, out : Nat] /\ got.obj \in BuffersOf("usIn") \union {None}
        /\ \A r \in Ports : r # "usIn" => pool'[r] = pool[r]
    BY <1>0, <2>0, LentTypes
  <2>2. /\ \/ got.obj = None /\ pool'["usIn"].q = pool["usIn"].q
           \/ /\ pool["usIn"].q # <<>> /\ got.obj = Head(pool["usIn"].q)
              /\ pool'["usIn"].q = Tail(pool["usIn"].q) /\ Len(Tail(pool["usIn"].q)) = Len(pool["usIn"].q) - 1
        /\ made' = made
    BY <1>0, <2>0, Lent
  <2>3. /\ pool'["unIn"] = pool["unIn"] /\ pool'["usOut"] = pool["usOut"] /\ pool'["unOut"] = pool["unOut"]
        /\ BuffersOf("usIn") = InBufs
    BY <1>0, <2>1, PortTypes
  <2>4. thread' \in [alive : BOOLEAN, state : {"IDLE", "LOOP", "EXIT"}, pc : {"top", "enter", "out", "send", "get"},
                     input : InBufs \union {None}, output : OutBufs \union {None}]
        /\ thread'.alive = thread.alive /\ thread'.input = got.obj /\ thread'.output = thread.output
        /\ thread'.pc = "out" /\ thread'.state = thread.state
    BY <1>0, <2>0, <2>1, <2>3
  <2>5. PortsTypeOK'
    BY <1>0, <2>1, <2>4 DEF PortsTypeOK
  <2>6. ThreadInv' /\ HandleInv' /\ NodeInv' /\ CountInv'
    <3>1. CountInv'
      BY <1>0, <2>0, LentCounts
    <3> QED BY <1>0, <2>3, <2>4, <3>1 DEF ThreadInv, HandleInv, NodeInv
  <2>7. HandsInv'
    <3>1. Apart(pool["usIn"].q, pool["unIn"].q, Hand(thread.input), client.in, Known("usIn"))
      BY <1>0, ApartTurned DEF HandsInv, Known, InPorts
    <3>2. pool["unIn"].q \in Seq(Int)
      BY <1>0, PortTypes
    <3>3. Apart(pool'["usIn"].q, pool["unIn"].q, Hand(thread.input) \union Hand(got.obj), client.in, Known("usIn")')
      BY <1>0, <2>0, <3>1, <3>2, LentApart
    <3>4. Hand(thread.input) \union Hand(got.obj) = Hand(thread'.input) /\ Known("usIn")' = 1..made'.in /\ Free' = Free
      BY <1>0, <1>2, <2>4 DEF Hand, Known, InPorts, Free
    <3>5. Apart(pool'["unIn"].q, pool'["usIn"].q, client'.in, Hand(thread'.input), 1..made'.in)
      BY <1>0, <2>3, <3>3, <3>4, ApartTurned
    <3> QED BY <1>0, <2>2, <2>3, <2>4, <3>4, <3>5 DEF HandsInv
  <2>8. FrameInv'
    <3> SUFFICES ASSUME Orderly PROVE FrameInv'
      BY <1>0, <2>4 DEF FrameInv, Orderly
    <3>1. Given' = Given /\ Newest' = Newest
      <4>1. Given' = Given
        BY <1>0, <2>3 DEF Given, FramesOf
      <4> QED BY <1>0, <4>1 DEF Newest
    <3>2. /\ Taken >= 0 /\ Newest = Taken
          /\ \A i \in DOMAIN pool["usIn"].q : frameIn[pool["usIn"].q[i]] = Taken + i
      BY <1>0, <1>2 DEF FrameInv
    <3>3. /\ Taken' >= 0
          /\ \A i \in DOMAIN pool'["usIn"].q : frameIn[pool'["usIn"].q[i]] = Taken' + i
          /\ thread'.input # None => frameIn[thread'.input] = Taken' /\ Taken' > 0 /\ Newest + 1 = Taken'
          /\ thread'.input = None => Newest = Taken'
      <4>0. pool["usIn"].q \in Seq(Int) /\ client.sent \in Nat /\ client.sent' = client.sent /\ Len(pool["usIn"].q) \in Nat
        BY <1>0, PortTypes DEF PortsTypeOK
      <4>1. CASE got.obj = None /\ pool'["usIn"].q = pool["usIn"].q
        <5>1. Taken' = Taken
          BY <4>0, <4>1 DEF Taken
        <5> QED BY <2>4, <3>2, <4>1, <5>1
      <4>2. CASE /\ pool["usIn"].q # <<>> /\ got.obj = Head(pool["usIn"].q)
                 /\ pool'["usIn"].q = Tail(pool["usIn"].q) /\ Len(Tail(pool["usIn"].q)) = Len(pool["usIn"].q) - 1
        <5> PICK s : s = pool["usIn"].q
          OBVIOUS
        <5>1. /\ s \in Seq(Int) /\ Tail(s) \in Seq(Int) /\ Len(Tail(s)) = Len(s) - 1 /\ Len(s) \in Nat \ {0}
              /\ \A i \in 1..Len(Tail(s)) : Tail(s)[i] = s[i + 1]
              /\ Head(s) = s[1] /\ DOMAIN s = 1..Len(s) /\ DOMAIN Tail(s) = 1..(Len(s) - 1)
          BY <4>0, <4>2, HeadTailProperties
        <5>2. Taken' = Taken + 1 /\ Taken \in Int
          BY <4>0, <4>2 DEF Taken
        <5>3. frameIn[s[1]] = Taken + 1
          BY <3>2, <5>1
        <5>4. \A i \in DOMAIN Tail(s) : frameIn[Tail(s)[i]] = Taken' + i
          <6> SUFFICES ASSUME NEW i \in DOMAIN Tail(s) PROVE frameIn[Tail(s)[i]] = Taken' + i
            OBVIOUS
          <6>1. i \in 1..(Len(s) - 1) /\ i + 1 \in DOMAIN s /\ Tail(s)[i] = s[i + 1]
            BY <5>1
          <6>2. frameIn[s[i + 1]] = Taken + (i + 1)
            BY <3>2, <6>1
          <6> QED BY <5>2, <6>1, <6>2
        <5>5. thread'.input # None
          <6>1. s[1] \in Int
            BY <5>1
          <6> QED BY <2>4, <4>2, <5>1, <6>1, Numbers
        <5> QED BY <2>4, <3>2, <4>2, <5>1, <5>2, <5>3, <5>4, <5>5, SMTT(30)
      <4> QED BY <2>2, <4>1, <4>2
    <3> QED BY <1>0, <2>2, <2>3, <2>4, <3>1, <3>3 DEF FrameInv
  <2> QED BY <2>5, <2>6, <2>7, <2>8 DEF PortsInv
<1> QED BY <1>1, <1>2

LEMMA TakeOutputPortsInv == PortsInv /\ TakeOutput => PortsInv'
<1> SUFFICES ASSUME PortsInv, TakeOutput PROVE PortsInv'
  OBVIOUS
<1> PICK got : got = borrowObj("unOut")
  OBVIOUS
<1> DEFINE taken == IF thread.output = None /\ kind # "hd" THEN got.obj ELSE thread.output
           both == thread.input # None /\ (kind = "hd" \/ taken # None)
<1>0. /\ PortsTypeOK /\ ThreadInv /\ NodeInv /\ HandsInv /\ CountInv /\ HandleInv /\ FrameInv
      /\ UNCHANGED <<kind, node, handles, frameIn, out, codec, group, client, starts>>
      /\ thread.alive /\ thread.pc = "out" /\ node = "ready" /\ "unOut" \in Ports /\ "unOut" # "unIn"
      /\ thread \in [alive : BOOLEAN, state : {"IDLE", "LOOP", "EXIT"}, pc : {"top", "enter", "out", "send", "get"},
                     input : InBufs \union {None}, output : OutBufs \union {None}]
  BY DEF PortsInv, PortsTypeOK, TakeOutput, At, Idle, ThreadInv, Ports
<1>3. thread' = [thread EXCEPT !.output = taken, !.pc = IF both THEN "send" ELSE "top"]
  BY DEF TakeOutput
<1> HIDE DEF taken, both
<1>1. CASE ~(thread.output = None /\ kind # "hd")
  <2>1. UNCHANGED <<pool, made>> /\ taken = thread.output
    BY <1>1 DEF TakeOutput, ports, taken
  <2>2. thread' \in [alive : BOOLEAN, state : {"IDLE", "LOOP", "EXIT"}, pc : {"top", "enter", "out", "send", "get"},
                     input : InBufs \union {None}, output : OutBufs \union {None}]
        /\ thread'.alive = thread.alive /\ thread'.input = thread.input /\ thread'.output = thread.output
        /\ thread'.pc \in {"send", "top"} /\ thread'.state = thread.state
        /\ (thread'.pc = "send" => thread.input # None /\ (kind = "hd" \/ thread.output # None))
    BY <1>0, <1>3, <2>1 DEF both
  <2>3. PortsTypeOK'
    BY <1>0, <2>1, <2>2 DEF PortsTypeOK
  <2>4. NodeInv' /\ HandsInv' /\ CountInv' /\ HandleInv' /\ Given' = Given /\ Newest' = Newest /\ Taken' = Taken
    BY <1>0, <2>1, <2>2, <2>3, Moved DEF PortsTypeOK
  <2>5. ThreadInv'
    BY <1>0, <2>2 DEF ThreadInv
  <2>6. FrameInv'
    BY <1>0, <2>1, <2>2, <2>4 DEF FrameInv, Orderly
  <2> QED BY <2>3, <2>4, <2>5, <2>6 DEF PortsInv
<1>2. CASE thread.output = None /\ kind # "hd"
  <2>0. Lend(got, "unOut") /\ taken = got.obj
    BY <1>2 DEF TakeOutput, taken
  <2>1. /\ pool' \in [Ports -> [q : Seq(Int), num : Int]] /\ \A r \in Ports : pool'[r].q \in Seq(BuffersOf(r))
        /\ made' \in [in : Nat, out : Nat] /\ got.obj \in BuffersOf("unOut") \union {None}
        /\ \A r \in Ports : r # "unOut" => pool'[r] = pool[r]
        /\ made'.in = made.in
    BY <1>0, <2>0, LentTypes
  <2>3. /\ pool'["unIn"] = pool["unIn"] /\ pool'["usOut"] = pool["usOut"] /\ pool'["usIn"] = pool["usIn"]
        /\ BuffersOf("unOut") = OutBufs
    BY <1>0, <2>1, PortTypes
  <2>4. thread' \in [alive : BOOLEAN, state : {"IDLE", "LOOP", "EXIT"}, pc : {"top", "enter", "out", "send", "get"},
                     input : InBufs \union {None}, output : OutBufs \union {None}]
        /\ thread'.alive = thread.alive /\ thread'.input = thread.input /\ thread'.output = got.obj
        /\ thread'.pc \in {"send", "top"} /\ thread'.state = thread.state
        /\ (thread'.pc = "send" => thread.input # None /\ got.obj # None)
    BY <1>0, <1>2, <1>3, <2>0, <2>1, <2>3 DEF both
  <2>5. PortsTypeOK'
    BY <1>0, <2>1, <2>4 DEF PortsTypeOK
  <2>6. ThreadInv' /\ HandleInv' /\ NodeInv' /\ CountInv'
    <3>1. CountInv'
      BY <1>0, <2>0, LentCounts
    <3> QED BY <1>0, <1>2, <2>3, <2>4, <3>1 DEF ThreadInv, HandleInv, NodeInv
  <2>7. HandsInv'
    <3> DEFINE lent == Hand(thread.output) \union Free
    <3>1. Apart(pool["unOut"].q, pool["usOut"].q, lent, client.out, Known("unOut"))
      BY <1>0, ApartTurned DEF HandsInv, Known, InPorts
    <3>2. pool["usOut"].q \in Seq(Int)
      BY <1>0, PortTypes
    <3> HIDE DEF lent
    <3>3. Apart(pool'["unOut"].q, pool["usOut"].q, lent \union Hand(got.obj), client.out, Known("unOut")')
      BY <1>0, <2>0, <3>1, <3>2, LentApart
    <3>4. lent \union Hand(got.obj) = Hand(thread'.output) \union Free' /\ Known("unOut")' = (-made'.out)..(-1)
      BY <1>0, <1>2, <2>4 DEF Hand, Known, InPorts, Free, lent
    <3>5. Apart(pool'["unOut"].q, pool'["usOut"].q, client'.out, Hand(thread'.output) \union Free', (-made'.out)..(-1))
      <4>1. Apart(pool'["unOut"].q, pool["usOut"].q, client.out, lent \union Hand(got.obj), Known("unOut")')
        BY <3>3, ApartTurned
      <4> QED BY <1>0, <2>3, <3>4, <4>1
    <3> QED BY <1>0, <2>1, <2>3, <2>4, <3>5 DEF HandsInv
  <2>8. FrameInv'
    <3>1. Given' = Given /\ Newest' = Newest /\ Taken' = Taken
      <4>1. Given' = Given
        BY <1>0, <2>3 DEF Given, FramesOf
      <4> QED BY <1>0, <2>3, <4>1 DEF Newest, Taken
    <3> QED BY <1>0, <1>2, <2>3, <2>4, <3>1 DEF FrameInv, Orderly
  <2> QED BY <2>5, <2>6, <2>7, <2>8 DEF PortsInv
<1> QED BY <1>1, <1>2

ThreadType == [alive : BOOLEAN, state : {"IDLE", "LOOP", "EXIT"}, pc : {"top", "enter", "out", "send", "get"},
               input : InBufs \union {None}, output : OutBufs \union {None}]

LEMMA SendFramePortsInv == PortsInv /\ fa_encode_send_frame => PortsInv'
<1> SUFFICES ASSUME PortsInv, fa_encode_send_frame PROVE PortsInv'
  OBVIOUS
<1>0. /\ PortsTypeOK /\ ThreadInv /\ NodeInv /\ HandsInv /\ CountInv /\ HandleInv /\ FrameInv
      /\ UNCHANGED <<kind, node, handles, frameIn, client, starts, pool, made, out, group>>
      /\ thread.alive /\ thread.pc = "send" /\ node = "ready" /\ kind = "ff"
      /\ thread.input # None /\ thread.output # None /\ thread.input \in InBufs
      /\ frameIn[thread.input] \in Nat
      /\ codec \in [inside : Seq(Nat), info : BOOLEAN, refused : Nat]
      /\ thread \in ThreadType
  <2>1. PortsTypeOK /\ ThreadInv
    BY DEF PortsInv
  <2>2. thread \in ThreadType /\ codec \in [inside : Seq(Nat), info : BOOLEAN, refused : Nat] /\ frameIn \in [InBufs -> Nat]
    BY <2>1 DEF PortsTypeOK, ThreadType
  <2>3. thread.alive /\ thread.pc = "send" /\ kind = "ff"
    BY DEF fa_encode_send_frame, At
  <2>4. node = "ready" /\ thread.input # None /\ thread.output # None
    BY <2>1, <2>3 DEF ThreadInv
  <2>5. thread.input \in InBufs
    BY <2>2, <2>4 DEF ThreadType
  <2>6. UNCHANGED <<kind, node, handles, frameIn, client, starts, pool, made, out, group>>
    BY DEF fa_encode_send_frame, Idle, ports
  <2> QED BY <2>1, <2>2, <2>3, <2>4, <2>5, <2>6 DEF PortsInv
<1>1. \/ /\ codec' = [codec EXCEPT !.refused = @ + 1] /\ thread' = [thread EXCEPT !.pc = "top"]
      \/ /\ codec' = [codec EXCEPT !.inside = Append(@, frameIn[thread.input])] /\ thread' = [thread EXCEPT !.pc = "get"]
  BY DEF fa_encode_send_frame, Refuse, Accept
<1>2. /\ thread' \in ThreadType /\ thread'.alive = thread.alive /\ thread'.input = thread.input
      /\ thread'.output = thread.output /\ thread'.state = thread.state
      /\ \/ thread'.pc = "top" /\ codec'.inside = codec.inside
         \/ thread'.pc = "get" /\ codec'.inside = Append(codec.inside, frameIn[thread.input])
  <2>1. CASE codec' = [codec EXCEPT !.refused = @ + 1] /\ thread' = [thread EXCEPT !.pc = "top"]
    <3>1. codec'.inside = codec.inside
      BY <1>0, <2>1
    <3> QED BY <1>0, <2>1, <3>1 DEF ThreadType
  <2>2. CASE codec' = [codec EXCEPT !.inside = Append(@, frameIn[thread.input])] /\ thread' = [thread EXCEPT !.pc = "get"]
    <3>1. codec'.inside = Append(codec.inside, frameIn[thread.input])
      BY <1>0, <2>2
    <3> QED BY <1>0, <2>2, <3>1 DEF ThreadType
  <2> QED BY <1>1, <2>1, <2>2
<1>3. codec' \in [inside : Seq(Nat), info : BOOLEAN, refused : Nat] /\ codec'.info = codec.info
  <2>1. Append(codec.inside, frameIn[thread.input]) \in Seq(Nat)
    BY <1>0
  <2>2. CASE codec' = [codec EXCEPT !.refused = @ + 1]
    BY <1>0, <2>2
  <2>3. CASE codec' = [codec EXCEPT !.inside = Append(@, frameIn[thread.input])]
    BY <1>0, <2>1, <2>3
  <2> QED BY <1>1, <2>2, <2>3
<1>4. PortsTypeOK'
  BY <1>0, <1>2, <1>3 DEF PortsTypeOK, ThreadType
<1>5. ThreadInv' /\ HandleInv' /\ NodeInv' /\ CountInv' /\ HandsInv'
  <2>1. ThreadInv'
    BY <1>0, <1>2 DEF ThreadInv
  <2>2. HandsInv'
    BY <1>0, <1>2 DEF HandsInv, Free
  <2> QED BY <1>0, <1>2, <2>1, <2>2 DEF HandleInv, NodeInv, CountInv, mMaxNum, MakesOut
<1>6. FrameInv'
  <2> SUFFICES ASSUME Orderly PROVE FrameInv'
    BY <1>0, <1>2 DEF FrameInv, Orderly
  <2>1. Given' = Given /\ Taken' = Taken
    BY <1>0 DEF Given, Taken
  <2>2. /\ frameIn[thread.input] = Taken /\ Taken > 0
        /\ Linked(client.last, Given, codec.inside, kind)
        /\ Newest + 1 = Taken \/ Newest = Taken
    BY <1>0 DEF FrameInv
  <2>3. CASE thread'.pc = "top" /\ codec'.inside = codec.inside
    <3>1. Newest' = Newest
      BY <1>0, <2>1, <2>3 DEF Newest
    <3> QED BY <1>0, <1>2, <1>3, <2>1, <2>3, <3>1 DEF FrameInv
  <2>4. CASE thread'.pc = "get" /\ codec'.inside = Append(codec.inside, frameIn[thread.input])
    <3> PICK x : x = Taken
      OBVIOUS
    <3>1. x \in Nat \ {0} /\ codec'.inside = Append(codec.inside, x)
      BY <1>0, <2>2, <2>4
    <3>2. Given \in Seq(Nat) /\ codec.inside \in Seq(Nat) /\ client.last \in Nat
      <4>1. pool["usOut"].q \in Seq(OutBufs) /\ \A b \in OutBufs : out[b].frame \in Nat
        BY <1>0, PortTypes DEF PortsTypeOK, OutState
      <4> QED BY <1>0, <4>1, FramesType DEF Given, PortsTypeOK
    <3>3. Follows(LastIn(client.last, Given, codec.inside), x, kind)
      BY <1>0, <2>2 DEF Follows, Newest
    <3>4. Linked(client.last, Given, Append(codec.inside, x), kind)
          /\ LastIn(client.last, Given, Append(codec.inside, x)) = x
      BY <2>2, <3>1, <3>2, <3>3, LinkedIn, SMTT(30)
    <3>5. Newest' = Taken /\ Linked(client'.last, Given', codec'.inside, kind')
      BY <1>0, <2>1, <3>1, <3>4 DEF Newest
    <3> QED BY <1>0, <1>2, <1>3, <2>1, <2>4, <3>5 DEF FrameInv
  <2> QED BY <1>2, <2>3, <2>4
<1> QED BY <1>4, <1>5, <1>6 DEF PortsInv

LEMMA GivenTypes ==
    ASSUME PortsTypeOK
    PROVE  /\ Given \in Seq(Nat) /\ codec.inside \in Seq(Nat) /\ client.last \in Nat
           /\ pool["usOut"].q \in Seq(OutBufs) /\ \A b \in OutBufs : out[b].frame \in Nat
<1>1. pool["usOut"].q \in Seq(OutBufs) /\ \A b \in OutBufs : out[b].frame \in Nat
  BY PortTypes DEF PortsTypeOK, OutState
<1> QED BY <1>1, FramesType DEF Given, PortsTypeOK

(* The frames that wait when one more output is queued.                    *)
LEMMA GivenMore ==
    ASSUME PortsTypeOK, out' \in [OutBufs -> OutState], NEW b \in OutBufs, \A c \in OutBufs : c # b => out'[c] = out[c],
           \A i \in DOMAIN pool["usOut"].q : pool["usOut"].q[i] # b,
           pool'["usOut"].q = Append(pool["usOut"].q, b)
    PROVE  Given' = Append(Given, out'[b].frame)
<1>1. PICK q : q = pool["usOut"].q
  OBVIOUS
<1>2. q \in Seq(OutBufs) /\ DOMAIN q = 1..Len(q) /\ \A i \in DOMAIN q : q[i] \in OutBufs
  BY <1>1, PortTypes
<1>3. FramesOf(q, out') = FramesOf(q, out)
  <2>1. \A i \in DOMAIN q : out'[q[i]].frame = out[q[i]].frame
    BY <1>1, <1>2
  <2> QED BY <1>2, <2>1, FramesKept
<1>4. \A c \in OutBufs : out'[c].frame \in Nat
  BY DEF OutState
<1>5. FramesOf(Append(q, b), out') = Append(FramesOf(q, out'), out'[b].frame)
  BY <1>2, <1>4, FramesAppend
<1>6. Given' = FramesOf(Append(q, b), out') /\ Given = FramesOf(q, out)
  BY <1>1 DEF Given
<1> QED BY <1>3, <1>5, <1>6

LEMMA GetPacketPortsInv == PortsInv /\ fa_encode_get_packet => PortsInv'
<1> SUFFICES ASSUME PortsInv, fa_encode_get_packet PROVE PortsInv'
  OBVIOUS
<1>0. /\ PortsTypeOK /\ ThreadInv /\ NodeInv /\ HandsInv /\ CountInv /\ HandleInv /\ FrameInv
      /\ UNCHANGED <<kind, node, handles, frameIn, client, starts, made, group>>
      /\ thread.alive /\ thread.pc = "get" /\ node = "ready" /\ kind = "ff" /\ "usOut" \in Ports /\ "unIn" \in Ports
      /\ thread.input # None /\ thread.output # None /\ thread.input \in InBufs /\ thread.output \in OutBufs
      /\ codec \in [inside : Seq(Nat), info : BOOLEAN, refused : Nat]
      /\ thread \in ThreadType
  <2>1. PortsTypeOK /\ ThreadInv
    BY DEF PortsInv
  <2>2. thread \in ThreadType /\ codec \in [inside : Seq(Nat), info : BOOLEAN, refused : Nat]
    BY <2>1 DEF PortsTypeOK, ThreadType
  <2>3. thread.alive /\ thread.pc = "get" /\ kind = "ff"
    BY DEF fa_encode_get_packet, At
  <2>4. node = "ready" /\ thread.input # None /\ thread.output # None
    BY <2>1, <2>3 DEF ThreadInv
  <2>5. thread.input \in InBufs /\ thread.output \in OutBufs
    BY <2>2, <2>4 DEF ThreadType
  <2>6. UNCHANGED <<kind, node, handles, frameIn, client, starts, made, group>>
    BY DEF fa_encode_get_packet, Idle, ports
  <2> QED BY <2>1, <2>2, <2>3, <2>4, <2>5, <2>6 DEF PortsInv, Ports
<1>1. CASE Len(codec.inside) <= Delay
  <2>1. UNCHANGED <<pool, out, codec>> /\ thread' = [thread EXCEPT !.pc = "top"]
    BY <1>1 DEF fa_encode_get_packet, ports
  <2>2. thread' \in ThreadType /\ thread'.alive = thread.alive /\ thread'.input = thread.input
        /\ thread'.output = thread.output /\ thread'.pc = "top" /\ thread'.state = thread.state
    BY <1>0, <2>1 DEF ThreadType
  <2>3. PortsTypeOK'
    BY <1>0, <2>1, <2>2 DEF PortsTypeOK, ThreadType
  <2>4. NodeInv' /\ HandsInv' /\ CountInv' /\ HandleInv' /\ Given' = Given /\ Newest' = Newest /\ Taken' = Taken
    BY <1>0, <2>1, <2>2, <2>3, Moved DEF PortsTypeOK
  <2>5. ThreadInv'
    BY <1>0, <2>2 DEF ThreadInv
  <2>6. FrameInv'
    BY <1>0, <2>1, <2>2, <2>4 DEF FrameInv, Orderly
  <2> QED BY <2>3, <2>4, <2>5, <2>6 DEF PortsInv
<1>2. CASE ~(Len(codec.inside) <= Delay)
  <2> PICK b : b = thread.output
    OBVIOUS
  <2> PICK i : i = thread.input
    OBVIOUS
  <2>0. /\ out' = [out EXCEPT ![b] = [frame |-> Head(codec.inside), status |-> "ready"]]
        /\ codec' = [codec EXCEPT !.inside = Tail(@)]
        /\ pool' = returnObj(returnObj(pool, "usOut", b), "unIn", i)
        /\ thread' = [thread EXCEPT !.input = None, !.output = None, !.pc = "top"]
    BY <1>2 DEF fa_encode_get_packet, Done
  <2>1. codec.inside # <<>> /\ Head(codec.inside) \in Nat /\ Tail(codec.inside) \in Seq(Nat)
    <3>1. Len(<<>>) = 0 /\ Delay \in Nat /\ codec.inside \in Seq(Nat)
      BY <1>0, PortsAssumption
    <3>2. codec.inside # <<>>
      BY <1>2, <3>1
    <3> QED BY <3>1, <3>2
  <2>2. thread' \in ThreadType /\ thread'.alive = thread.alive /\ thread'.input = None
        /\ thread'.output = None /\ thread'.pc = "top" /\ thread'.state = thread.state
    BY <1>0, <2>0 DEF ThreadType
  <2>3. codec' \in [inside : Seq(Nat), info : BOOLEAN, refused : Nat] /\ codec'.inside = Tail(codec.inside)
        /\ codec'.info = codec.info
    BY <1>0, <2>0, <2>1
  <2>4. out' \in [OutBufs -> OutState] /\ out'[b].frame = Head(codec.inside)
        /\ \A c \in OutBufs : c # b => out'[c] = out[c]
    <3>1. [frame |-> Head(codec.inside), status |-> "ready"] \in OutState
      BY <2>1 DEF OutState
    <3> QED BY <1>0, <2>0, <3>1 DEF PortsTypeOK
  <2> PICK mid : mid = returnObj(pool, "usOut", b)
    OBVIOUS
  <2>5. b \in BuffersOf("usOut") /\ i \in BuffersOf("unIn") /\ PoolTypes(pool) /\ b \in Int /\ i \in Int
    <3>1. b \in OutBufs /\ i \in InBufs /\ PoolTypes(pool)
      BY <1>0 DEF PortsTypeOK, PoolTypes
    <3> QED BY <1>0, <3>1, PortTypes, Numbers
  <2>6. AfterReturn(pool, "usOut", b, mid) /\ PoolTypes(mid)
    BY <1>0, <2>5, Returned
  <2>7. AfterReturn(mid, "unIn", i, pool') /\ PoolTypes(pool')
    BY <1>0, <2>0, <2>5, <2>6, Returned
  <2>8. /\ pool'["usIn"] = pool["usIn"] /\ pool'["unOut"] = pool["unOut"]
        /\ pool'["unIn"].q = Append(pool["unIn"].q, i) /\ pool'["usOut"].q = Append(pool["usOut"].q, b)
        /\ \A r \in Ports : pool'[r].num + Len(pool'[r].q) = pool[r].num + Len(pool[r].q)
    <3>1. mid["unIn"] = pool["unIn"] /\ mid["usIn"] = pool["usIn"] /\ mid["unOut"] = pool["unOut"]
          /\ mid["usOut"].q = Append(pool["usOut"].q, b)
          /\ mid["usOut"].num + Len(mid["usOut"].q) = pool["usOut"].num + Len(pool["usOut"].q)
      BY <2>6 DEF AfterReturn, Ports
    <3>2. pool'["usOut"] = mid["usOut"] /\ pool'["usIn"] = mid["usIn"] /\ pool'["unOut"] = mid["unOut"]
          /\ pool'["unIn"].q = Append(mid["unIn"].q, i)
          /\ pool'["unIn"].num + Len(pool'["unIn"].q) = mid["unIn"].num + Len(mid["unIn"].q)
      BY <2>7 DEF AfterReturn, Ports
    <3> QED BY <3>1, <3>2 DEF Ports
  <2>9. PortsTypeOK'
    BY <1>0, <2>2, <2>3, <2>4, <2>7 DEF PortsTypeOK, PoolTypes, ThreadType
  <2>10. ThreadInv' /\ HandleInv' /\ NodeInv'
    BY <1>0, <2>2, <2>8 DEF ThreadInv, HandleInv, NodeInv
  <2>11. CountInv'
    BY <1>0, <2>8 DEF CountInv, mMaxNum, MakesOut, Ports
  <2>12. HandsInv'
    <3>1. Hand(thread.input) = {i} /\ Hand(thread.output) = {b} /\ Hand(None) = {} /\ Free' = Free
      BY <1>0 DEF Hand, Free
    <3>2. pool["unIn"].q \in Seq(Int) /\ pool["usIn"].q \in Seq(Int) /\ pool["unOut"].q \in Seq(Int)
          /\ pool["usOut"].q \in Seq(Int)
      BY <1>0, PortTypes
    <3>3. Apart(pool["unIn"].q, pool["usIn"].q, client.in, {i}, 1..made.in)
          /\ Apart(pool["unOut"].q, pool["usOut"].q, client.out, {b} \union Free, (-made.out)..(-1))
      BY <1>0, <3>1 DEF HandsInv
    <3>4. Apart(Append(pool["unIn"].q, i), pool["usIn"].q, client.in, {i} \ {i}, 1..made.in)
      BY <2>5, <3>2, <3>3, ApartHeld
    <3>5. Apart(pool["unOut"].q, Append(pool["usOut"].q, b), client.out, ({b} \union Free) \ {b}, (-made.out)..(-1))
      BY <2>5, <3>2, <3>3, ApartHeld
    <3>6. {i} \ {i} = Hand(None) /\ ({b} \union Free) \ {b} = Hand(None) \union Free
      BY <1>0, <3>1 DEF NodeInv, Free
    <3> QED BY <1>0, <2>2, <2>8, <3>1, <3>4, <3>5, <3>6 DEF HandsInv
  <2>13. FrameInv'
    <3> SUFFICES ASSUME Orderly PROVE FrameInv'
      BY <1>0, <2>2 DEF FrameInv, Orderly
    <3>1. Taken' = Taken
      BY <1>0, <2>8 DEF Taken
    <3>2. /\ Linked(client.last, Given, codec.inside, kind) /\ Newest = Taken
      BY <1>0 DEF FrameInv
    <3>3. Given' = Append(Given, Head(codec.inside))
      <4>1. \A j \in DOMAIN pool["usOut"].q : pool["usOut"].q[j] # b
        BY <1>0 DEF HandsInv, Apart, Hand
      <4> QED BY <1>0, <2>4, <2>8, <4>1, GivenMore
    <3>4. Linked(client.last, Append(Given, Head(codec.inside)), Tail(codec.inside), kind)
          /\ LastIn(client.last, Append(Given, Head(codec.inside)), Tail(codec.inside)) = LastIn(client.last, Given, codec.inside)
      BY <1>0, <2>1, <3>2, GivenTypes, LinkedOut
    <3>5. Newest' = Taken /\ Linked(client'.last, Given', codec'.inside, kind')
      BY <1>0, <2>3, <3>2, <3>3, <3>4 DEF Newest
    <3> QED BY <1>0, <2>2, <2>3, <2>8, <3>1, <3>5 DEF FrameInv
  <2> QED BY <2>9, <2>10, <2>11, <2>12, <2>13 DEF PortsInv
<1> QED BY <1>1, <1>2

LEMMA EncodeSendPortsInv == PortsInv /\ ma_encode_send_frame => PortsInv'
<1> SUFFICES ASSUME PortsInv, ma_encode_send_frame PROVE PortsInv'
  OBVIOUS
<1>0. /\ PortsTypeOK /\ ThreadInv /\ NodeInv /\ HandsInv /\ CountInv /\ HandleInv
      /\ UNCHANGED <<kind, node, handles, frameIn, client, starts, made, out, group>>
      /\ thread.alive /\ node = "ready" /\ kind = "he" /\ "unIn" \in Ports
      /\ thread.input # None /\ thread.output # None /\ thread.input \in InBufs
      /\ frameIn[thread.input] \in Nat
      /\ codec \in [inside : Seq(Nat), info : BOOLEAN, refused : Nat]
      /\ thread \in ThreadType
      /\ pool' = returnObj(pool, "unIn", thread.input) /\ thread' = [thread EXCEPT !.input = None, !.pc = "get"]
  <2>1. PortsTypeOK /\ ThreadInv
    BY DEF PortsInv
  <2>2. thread \in ThreadType /\ codec \in [inside : Seq(Nat), info : BOOLEAN, refused : Nat] /\ frameIn \in [InBufs -> Nat]
    BY <2>1 DEF PortsTypeOK, ThreadType
  <2>3. thread.alive /\ thread.pc = "send" /\ kind = "he"
    BY DEF ma_encode_send_frame, At
  <2>4. node = "ready" /\ thread.input # None /\ thread.output # None
    BY <2>1, <2>3 DEF ThreadInv
  <2>5. thread.input \in InBufs
    BY <2>2, <2>4 DEF ThreadType
  <2>6. /\ UNCHANGED <<kind, node, handles, frameIn, client, starts, made, out, group>>
        /\ pool' = returnObj(pool, "unIn", thread.input) /\ thread' = [thread EXCEPT !.input = None, !.pc = "get"]
    BY DEF ma_encode_send_frame, Idle
  <2> QED BY <2>1, <2>2, <2>3, <2>4, <2>5, <2>6 DEF PortsInv, Ports
<1>1. codec' \in [inside : Seq(Nat), info : BOOLEAN, refused : Nat]
  <2>1. Append(codec.inside, frameIn[thread.input]) \in Seq(Nat)
    BY <1>0
  <2>2. CASE codec' = [codec EXCEPT !.refused = @ + 1]
    BY <1>0, <2>2
  <2>3. CASE codec' = [codec EXCEPT !.inside = Append(@, frameIn[thread.input])]
    BY <1>0, <2>1, <2>3
  <2> QED BY <2>2, <2>3 DEF ma_encode_send_frame, Refuse, Accept
<1>2. thread' \in ThreadType /\ thread'.alive = thread.alive /\ thread'.input = None
      /\ thread'.output = thread.output /\ thread'.state = thread.state /\ thread'.pc = "get"
  BY <1>0 DEF ThreadType
<1> PICK i : i = thread.input
  OBVIOUS
<1>3. /\ pool' \in [Ports -> [q : Seq(Int), num : Int]] /\ \A r \in Ports : pool'[r].q \in Seq(BuffersOf(r))
      /\ \A r \in Ports : r # "unIn" => pool'[r] = pool[r]
      /\ pool'["unIn"].q = Append(pool["unIn"].q, i) /\ i \in Int
      /\ i \in BuffersOf("unIn") /\ pool' = returnObj(pool, "unIn", i)
  <2>1. i \in BuffersOf("unIn") /\ pool' = returnObj(pool, "unIn", i)
    BY <1>0, PortTypes
  <2> QED BY <1>0, <2>1, ReturnedTypes, Numbers, SMTT(30)
<1>4. PortsTypeOK'
  BY <1>0, <1>1, <1>2, <1>3 DEF PortsTypeOK, ThreadType
<1>5. ThreadInv' /\ HandleInv' /\ NodeInv' /\ FrameInv'
  <2>1. pool'["unOut"] = pool["unOut"]
    BY <1>3 DEF Ports
  <2> QED BY <1>0, <1>2, <2>1 DEF ThreadInv, HandleInv, NodeInv, FrameInv, Orderly
<1>6. CountInv'
  BY <1>0, <1>3, ReturnedTo, ReturnedCounts
<1>7. HandsInv'
  <2>1. Apart(pool["unIn"].q, pool["usIn"].q, client.in, {i}, 1..made.in)
    BY <1>0 DEF HandsInv, Hand
  <2>2. pool["unIn"].q \in Seq(Int) /\ pool["usIn"].q \in Seq(Int)
    BY <1>0, PortTypes
  <2>3. Apart(Append(pool["unIn"].q, i), pool["usIn"].q, client.in, {i} \ {i}, 1..made.in)
    BY <1>3, <2>1, <2>2, ApartHeld
  <2>4. {i} \ {i} = Hand(None) /\ Free' = Free
    BY <1>0 DEF Hand, Free
  <2>5. pool'["usIn"] = pool["usIn"] /\ pool'["unOut"] = pool["unOut"] /\ pool'["usOut"] = pool["usOut"]
    BY <1>3 DEF Ports
  <2> QED BY <1>0, <1>2, <1>3, <2>3, <2>4, <2>5 DEF HandsInv
<1> QED BY <1>4, <1>5, <1>6, <1>7 DEF PortsInv

LEMMA EncodeGetPortsInv == PortsInv /\ ma_encode_get_packet => PortsInv'
<1> SUFFICES ASSUME PortsInv, ma_encode_get_packet PROVE PortsInv'
  OBVIOUS
<1> PICK b : b = thread.output
  OBVIOUS
<1>0. /\ PortsTypeOK /\ ThreadInv /\ NodeInv /\ HandsInv /\ CountInv /\ HandleInv
      /\ UNCHANGED <<kind, node, handles, frameIn, client, starts, made, group>>
      /\ thread.alive /\ node = "ready" /\ kind = "he" /\ "usOut" \in Ports
      /\ b # None /\ b \in OutBufs
      /\ codec \in [inside : Seq(Nat), info : BOOLEAN, refused : Nat] /\ out \in [OutBufs -> OutState]
      /\ thread \in ThreadType
  <2>1. PortsTypeOK /\ ThreadInv
    BY DEF PortsInv
  <2>2. thread \in ThreadType /\ codec \in [inside : Seq(Nat), info : BOOLEAN, refused : Nat] /\ out \in [OutBufs -> OutState]
    BY <2>1 DEF PortsTypeOK, ThreadType
  <2>3. thread.alive /\ thread.pc = "get" /\ kind = "he"
    BY DEF ma_encode_get_packet, At
  <2>4. node = "ready" /\ thread.output # None
    BY <2>1, <2>3 DEF ThreadInv
  <2>5. thread.output \in OutBufs
    BY <2>2, <2>4 DEF ThreadType
  <2>6. UNCHANGED <<kind, node, handles, frameIn, client, starts, made, group>>
    BY DEF ma_encode_get_packet, Idle
  <2> QED BY <2>1, <2>2, <2>3, <2>4, <2>5, <2>6 DEF PortsInv, Ports
<1>1. codec' \in [inside : Seq(Nat), info : BOOLEAN, refused : Nat] /\ out' \in [OutBufs -> OutState]
  <2>1. CASE UNCHANGED <<out, codec>>
    BY <1>0, <2>1
  <2>2. CASE /\ codec.inside # <<>> /\ codec' = [codec EXCEPT !.inside = Tail(@)]
             /\ out' = [out EXCEPT ![thread.output] = [frame |-> Head(codec.inside), status |-> "ready"]]
    <3>1. Tail(codec.inside) \in Seq(Nat) /\ Head(codec.inside) \in Nat
      BY <1>0, <2>2
    <3>2. [frame |-> Head(codec.inside), status |-> "ready"] \in OutState
      BY <3>1 DEF OutState
    <3> QED BY <1>0, <2>2, <3>1, <3>2
  <2> QED BY <2>1, <2>2 DEF ma_encode_get_packet
<1>2. \/ pool' = pool /\ thread' = Done(b)
      \/ pool' = returnObj(pool, "usOut", b) /\ thread' = Done(None)
  BY DEF ma_encode_get_packet
<1>3. CASE pool' = pool /\ thread' = Done(b)
  <2>1. thread' \in ThreadType /\ thread'.alive = thread.alive /\ thread'.input = None
        /\ thread'.output = thread.output /\ thread'.state = thread.state /\ thread'.pc = "top"
    BY <1>0, <1>3 DEF ThreadType, Done
  <2>2. PortsTypeOK'
    BY <1>0, <1>1, <1>3, <2>1 DEF PortsTypeOK, ThreadType
  <2>3. ThreadInv' /\ HandleInv' /\ NodeInv' /\ FrameInv' /\ CountInv'
    BY <1>0, <1>3, <2>1 DEF ThreadInv, HandleInv, NodeInv, FrameInv, Orderly, CountInv, mMaxNum, MakesOut
  <2>4. HandsInv'
    <3>1. Hand(None) \in SUBSET Hand(thread.input) /\ Free' = Free
      BY <1>0 DEF Hand, Free
    <3>2. Apart(pool["unIn"].q, pool["usIn"].q, client.in, Hand(None), 1..made.in)
      BY <1>0, <3>1 DEF HandsInv, Apart
    <3> QED BY <1>0, <1>3, <2>1, <3>1, <3>2 DEF HandsInv
  <2> QED BY <2>2, <2>3, <2>4 DEF PortsInv
<1>4. CASE pool' = returnObj(pool, "usOut", b) /\ thread' = Done(None)
  <2>1. thread' \in ThreadType /\ thread'.alive = thread.alive /\ thread'.input = None
        /\ thread'.output = None /\ thread'.state = thread.state /\ thread'.pc = "top"
    BY <1>0, <1>4 DEF ThreadType, Done
  <2>2. /\ pool' \in [Ports -> [q : Seq(Int), num : Int]] /\ \A r \in Ports : pool'[r].q \in Seq(BuffersOf(r))
        /\ \A r \in Ports : r # "usOut" => pool'[r] = pool[r]
        /\ pool'["usOut"].q = Append(pool["usOut"].q, b) /\ b \in Int
        /\ b \in BuffersOf("usOut")
    <3>1. b \in BuffersOf("usOut")
      BY <1>0, PortTypes
    <3> QED BY <1>0, <1>4, <3>1, ReturnedTypes, Numbers
  <2>3. PortsTypeOK'
    BY <1>0, <1>1, <2>1, <2>2 DEF PortsTypeOK, ThreadType
  <2>4. ThreadInv' /\ HandleInv' /\ NodeInv' /\ FrameInv'
    <3>1. pool'["unOut"] = pool["unOut"]
      BY <2>2 DEF Ports
    <3> QED BY <1>0, <2>1, <3>1 DEF ThreadInv, HandleInv, NodeInv, FrameInv, Orderly
  <2>5. CountInv'
    BY <1>0, <1>4, <2>2, ReturnedTo, ReturnedCounts
  <2>6. HandsInv'
    <3>1. Hand(None) \in SUBSET Hand(thread.input) /\ Free' = Free /\ Hand(thread.output) = {b}
      BY <1>0 DEF Hand, Free
    <3>2. Apart(pool["unIn"].q, pool["usIn"].q, client.in, Hand(None), 1..made.in)
      BY <1>0, <3>1 DEF HandsInv, Apart
    <3>3. Apart(pool["unOut"].q, pool["usOut"].q, client.out, {b} \union Free, (-made.out)..(-1))
      BY <1>0, <3>1 DEF HandsInv
    <3>4. pool["unOut"].q \in Seq(Int) /\ pool["usOut"].q \in Seq(Int)
      BY <1>0, PortTypes
    <3>5. Apart(pool["unOut"].q, Append(pool["usOut"].q, b), client.out, ({b} \union Free) \ {b}, (-made.out)..(-1))
      BY <2>2, <3>3, <3>4, ApartHeld
    <3>6. ({b} \union Free) \ {b} = Hand(None) \union Free
      BY <1>0 DEF NodeInv, Free, Hand
    <3>7. pool'["usIn"] = pool["usIn"] /\ pool'["unOut"] = pool["unOut"] /\ pool'["unIn"] = pool["unIn"]
      BY <2>2 DEF Ports
    <3> QED BY <1>0, <2>1, <2>2, <3>1, <3>2, <3>5, <3>6, <3>7 DEF HandsInv
  <2> QED BY <2>3, <2>4, <2>5, <2>6 DEF PortsInv
<1> QED BY <1>2, <1>3, <1>4

LEMMA DecodeSendPortsInv == PortsInv /\ ma_decode_send_packet => PortsInv'
<1> SUFFICES ASSUME PortsInv, ma_decode_send_packet PROVE PortsInv'
  OBVIOUS
<1> PICK i : i = thread.input
  OBVIOUS
<1>0. /\ PortsTypeOK /\ ThreadInv /\ NodeInv /\ HandsInv /\ CountInv /\ HandleInv /\ FrameInv
      /\ UNCHANGED <<kind, node, handles, frameIn, client, starts, made, out, group>>
      /\ thread.alive /\ node = "ready" /\ kind = "hd" /\ "unIn" \in Ports
      /\ i # None /\ i \in InBufs /\ frameIn[i] \in Nat
      /\ codec \in [inside : Seq(Nat), info : BOOLEAN, refused : Nat]
      /\ thread \in ThreadType
  <2>1. PortsTypeOK /\ ThreadInv
    BY DEF PortsInv
  <2>2. thread \in ThreadType /\ codec \in [inside : Seq(Nat), info : BOOLEAN, refused : Nat] /\ frameIn \in [InBufs -> Nat]
    BY <2>1 DEF PortsTypeOK, ThreadType
  <2>3. thread.alive /\ thread.pc = "send" /\ kind = "hd"
    BY DEF ma_decode_send_packet, At
  <2>4. node = "ready" /\ thread.input # None
    BY <2>1, <2>3 DEF ThreadInv
  <2>5. thread.input \in InBufs
    BY <2>2, <2>4 DEF ThreadType
  <2>6. UNCHANGED <<kind, node, handles, frameIn, client, starts, made, out, group>>
    BY DEF ma_decode_send_packet, Idle
  <2> QED BY <2>1, <2>2, <2>3, <2>4, <2>5, <2>6 DEF PortsInv, Ports
<1>1. \/ codec' = [codec EXCEPT !.refused = @ + 1] /\ pool' = pool /\ thread' = [thread EXCEPT !.pc = "get"]
      \/ /\ codec' = [codec EXCEPT !.inside = Append(@, frameIn[i])]
         /\ pool' = returnObj(pool, "unIn", i) /\ thread' = [thread EXCEPT !.input = None, !.pc = "get"]
  BY DEF ma_decode_send_packet, Refuse, Accept
<1>2. CASE codec' = [codec EXCEPT !.refused = @ + 1] /\ pool' = pool /\ thread' = [thread EXCEPT !.pc = "get"]
  <2>1. thread' \in ThreadType /\ thread'.alive = thread.alive /\ thread'.input = thread.input
        /\ thread'.output = thread.output /\ thread'.state = thread.state /\ thread'.pc = "get"
    BY <1>0, <1>2 DEF ThreadType
  <2>2. codec' \in [inside : Seq(Nat), info : BOOLEAN, refused : Nat] /\ codec'.inside = codec.inside
        /\ codec'.info = codec.info
    <3>1. codec.refused + 1 \in Nat /\ codec' = [codec EXCEPT !.refused = codec.refused + 1]
      BY <1>0, <1>2
    <3> QED BY <1>0, <3>1
  <2>3. PortsTypeOK'
    BY <1>0, <1>2, <2>1, <2>2 DEF PortsTypeOK, ThreadType
  <2>4. ThreadInv' /\ HandleInv' /\ NodeInv' /\ CountInv' /\ HandsInv'
    <3>1. HandsInv'
      BY <1>0, <1>2, <2>1 DEF HandsInv, Free
    <3> QED BY <1>0, <1>2, <2>1, <2>2, <3>1 DEF ThreadInv, HandleInv, NodeInv, CountInv, mMaxNum, MakesOut
  <2>5. FrameInv'
    <3>1. Given' = Given /\ Taken' = Taken /\ Newest' = Newest
      <4>1. Given' = Given
        BY <1>0, <1>2 DEF Given
      <4> QED BY <1>0, <1>2, <2>2, <4>1 DEF Taken, Newest
    <3> QED BY <1>0, <1>2, <2>1, <2>2, <3>1 DEF FrameInv, Orderly
  <2> QED BY <2>3, <2>4, <2>5 DEF PortsInv
<1>3. CASE /\ codec' = [codec EXCEPT !.inside = Append(@, frameIn[i])]
           /\ pool' = returnObj(pool, "unIn", i) /\ thread' = [thread EXCEPT !.input = None, !.pc = "get"]
  <2>1. thread' \in ThreadType /\ thread'.alive = thread.alive /\ thread'.input = None
        /\ thread'.output = thread.output /\ thread'.state = thread.state /\ thread'.pc = "get"
    BY <1>0, <1>3 DEF ThreadType
  <2>2. codec' \in [inside : Seq(Nat), info : BOOLEAN, refused : Nat] /\ codec'.inside = Append(codec.inside, frameIn[i])
        /\ codec'.info = codec.info
    <3>1. Append(codec.inside, frameIn[i]) \in Seq(Nat)
      BY <1>0
    <3> QED BY <1>0, <1>3, <3>1
  <2>3. /\ pool' \in [Ports -> [q : Seq(Int), num : Int]] /\ \A r \in Ports : pool'[r].q \in Seq(BuffersOf(r))
        /\ \A r \in Ports : r # "unIn" => pool'[r] = pool[r]
        /\ pool'["unIn"].q = Append(pool["unIn"].q, i) /\ i \in Int
        /\ i \in BuffersOf("unIn")
    <3>1. i \in BuffersOf("unIn") /\ pool' = returnObj(pool, "unIn", i)
      BY <1>0, <1>3, PortTypes
    <3> QED BY <1>0, <3>1, ReturnedTypes, Numbers, SMTT(30)
  <2>4. pool'["usIn"] = pool["usIn"] /\ pool'["unOut"] = pool["unOut"] /\ pool'["usOut"] = pool["usOut"]
    BY <2>3 DEF Ports
  <2>5. PortsTypeOK'
    BY <1>0, <2>1, <2>2, <2>3 DEF PortsTypeOK, ThreadType
  <2>6. ThreadInv' /\ HandleInv' /\ NodeInv'
    BY <1>0, <2>1, <2>4 DEF ThreadInv, HandleInv, NodeInv
  <2>7. CountInv'
    BY <1>0, <1>3, <2>3, ReturnedTo, ReturnedCounts
  <2>8. HandsInv'
    <3>1. Apart(pool["unIn"].q, pool["usIn"].q, client.in, {i}, 1..made.in)
      BY <1>0 DEF HandsInv, Hand
    <3>2. pool["unIn"].q \in Seq(Int) /\ pool["usIn"].q \in Seq(Int)
      BY <1>0, PortTypes
    <3>3. Apart(Append(pool["unIn"].q, i), pool["usIn"].q, client.in, {i} \ {i}, 1..made.in)
      BY <2>3, <3>1, <3>2, ApartHeld
    <3>4. {i} \ {i} = Hand(None) /\ Free' = Free
      BY <1>0 DEF Hand, Free
    <3> QED BY <1>0, <2>1, <2>3, <2>4, <3>3, <3>4 DEF HandsInv
  <2>9. FrameInv'
    <3> SUFFICES ASSUME Orderly PROVE FrameInv'
      BY <1>0, <2>1 DEF FrameInv, Orderly
    <3>1. Given' = Given /\ Taken' = Taken
      BY <1>0, <2>4 DEF Given, FramesOf, Taken
    <3>2. /\ frameIn[i] = Taken /\ Taken > 0 /\ Taken >= 0
          /\ Linked(client.last, Given, codec.inside, kind) /\ Newest + 1 = Taken
      BY <1>0 DEF FrameInv
    <3> PICK x : x = Taken
      OBVIOUS
    <3>3. x \in Nat \ {0} /\ codec'.inside = Append(codec.inside, x)
      BY <1>0, <2>2, <3>2
    <3>4. Follows(LastIn(client.last, Given, codec.inside), x, kind)
      BY <3>2 DEF Follows, Newest
    <3>5. Linked(client.last, Given, Append(codec.inside, x), kind)
          /\ LastIn(client.last, Given, Append(codec.inside, x)) = x
      BY <1>0, <3>2, <3>3, <3>4, GivenTypes, LinkedIn
    <3>6. Newest' = Taken /\ Linked(client'.last, Given', codec'.inside, kind')
      BY <1>0, <3>1, <3>3, <3>5 DEF Newest
    <3> QED BY <1>0, <2>1, <2>2, <2>4, <3>1, <3>6 DEF FrameInv
  <2> QED BY <2>5, <2>6, <2>7, <2>8, <2>9 DEF PortsInv
<1> QED BY <1>1, <1>2, <1>3

LEMMA DecodeGetPortsInv == PortsInv /\ ma_decode_get_frame => PortsInv'
<1> SUFFICES ASSUME PortsInv, ma_decode_get_frame PROVE PortsInv'
  OBVIOUS
<1>0. /\ PortsTypeOK /\ ThreadInv /\ NodeInv /\ HandsInv /\ CountInv /\ HandleInv /\ FrameInv
      /\ UNCHANGED <<kind, node, handles, frameIn, client, starts, made>>
      /\ thread.alive /\ node = "ready" /\ kind = "hd" /\ "usOut" \in Ports
      /\ codec \in [inside : Seq(Nat), info : BOOLEAN, refused : Nat]
      /\ out \in [OutBufs -> OutState] /\ group \in [OutBufs -> GroupState]
      /\ thread \in ThreadType /\ thread' = [thread EXCEPT !.pc = "top"] /\ thread.output = None
  <2>1. PortsTypeOK /\ ThreadInv /\ NodeInv
    BY DEF PortsInv
  <2>2. /\ thread \in ThreadType /\ codec \in [inside : Seq(Nat), info : BOOLEAN, refused : Nat]
        /\ out \in [OutBufs -> OutState] /\ group \in [OutBufs -> GroupState]
    BY <2>1 DEF PortsTypeOK, ThreadType
  <2>3. thread.alive /\ kind = "hd" /\ thread' = [thread EXCEPT !.pc = "top"]
        /\ UNCHANGED <<kind, node, handles, frameIn, client, starts, made>>
    BY DEF ma_decode_get_frame, At, Idle
  <2>4. node = "ready" /\ thread.output = None
    BY <2>1, <2>3 DEF ThreadInv, NodeInv
  <2> QED BY <2>1, <2>2, <2>3, <2>4 DEF PortsInv, Ports
<1>1. thread' \in ThreadType /\ thread'.alive = thread.alive /\ thread'.input = thread.input
      /\ thread'.output = None /\ thread'.state = thread.state /\ thread'.pc = "top"
  BY <1>0 DEF ThreadType
<1>2. CASE UNCHANGED <<pool, out, group>> /\ (codec' = codec \/ codec' = [codec EXCEPT !.info = FALSE])
  <2>1. codec' \in [inside : Seq(Nat), info : BOOLEAN, refused : Nat] /\ codec'.inside = codec.inside
        /\ (codec'.info => codec.info)
    BY <1>0, <1>2
  <2>2. PortsTypeOK'
    BY <1>0, <1>1, <1>2, <2>1 DEF PortsTypeOK, ThreadType
  <2>3. ThreadInv' /\ HandleInv' /\ NodeInv' /\ CountInv' /\ HandsInv'
    <3>1. HandsInv'
      BY <1>0, <1>1, <1>2 DEF HandsInv, Free
    <3> QED BY <1>0, <1>1, <1>2, <3>1 DEF ThreadInv, HandleInv, NodeInv, CountInv, mMaxNum, MakesOut
  <2>4. FrameInv'
    <3>1. Given' = Given /\ Taken' = Taken /\ Newest' = Newest
      <4>1. Given' = Given
        BY <1>0, <1>2 DEF Given
      <4> QED BY <1>0, <1>2, <2>1, <4>1 DEF Taken, Newest
    <3> QED BY <1>0, <1>1, <1>2, <2>1, <3>1 DEF FrameInv, Orderly
  <2> QED BY <2>2, <2>3, <2>4 DEF PortsInv
<1>3. ASSUME NEW b \in Free, codec.inside # <<>>,
             codec' = IF codec.info THEN [codec EXCEPT !.info = FALSE] ELSE [codec EXCEPT !.inside = Tail(@)],
             out' = [out EXCEPT ![b] = IF codec.info THEN [frame |-> 0, status |-> "info"]
                                       ELSE [frame |-> Head(codec.inside), status |-> "ready"]],
             group' = [group EXCEPT ![b] = [at |-> "lent", mpp |-> IF @.mpp = "null" THEN "set" ELSE @.mpp]],
             pool' = returnObj(pool, "usOut", b)
      PROVE  PortsInv'
  <2>0. b \in OutBufs /\ b \in Int /\ b \in BuffersOf("usOut") /\ Head(codec.inside) \in Nat
        /\ Tail(codec.inside) \in Seq(Nat)
    <3>1. b \in OutBufs
      BY <1>3 DEF Free
    <3> QED BY <1>0, <1>3, <3>1, PortTypes, Numbers, SMTT(30)
  <2>1. codec' \in [inside : Seq(Nat), info : BOOLEAN, refused : Nat] /\ codec'.info = FALSE
        /\ codec'.inside = IF codec.info THEN codec.inside ELSE Tail(codec.inside)
    <3>1. CASE codec.info
      BY <1>0, <1>3, <3>1
    <3>2. CASE ~codec.info
      BY <1>0, <1>3, <2>0, <3>2
    <3> QED BY <3>1, <3>2
  <2>2. out' \in [OutBufs -> OutState] /\ out'[b].frame = (IF codec.info THEN 0 ELSE Head(codec.inside))
        /\ \A c \in OutBufs : c # b => out'[c] = out[c]
    <3>1. [frame |-> 0, status |-> "info"] \in OutState /\ [frame |-> Head(codec.inside), status |-> "ready"] \in OutState
      BY <2>0 DEF OutState
    <3>2. CASE codec.info
      BY <1>0, <1>3, <2>0, <3>1, <3>2
    <3>3. CASE ~codec.info
      BY <1>0, <1>3, <2>0, <3>1, <3>3
    <3> QED BY <3>2, <3>3
  <2>3. group' \in [OutBufs -> GroupState] /\ Free' = Free \ {b}
    <3> PICK to : to = [at |-> "lent", mpp |-> IF group[b].mpp = "null" THEN "set" ELSE group[b].mpp]
      OBVIOUS
    <3>1. to \in GroupState /\ to.at # "free"
      BY <1>0, <2>0 DEF GroupState
    <3>2. group' = [group EXCEPT ![b] = to]
      BY <1>3
    <3>3. group' \in [OutBufs -> GroupState] /\ group'[b] = to /\ \A c \in OutBufs : c # b => group'[c] = group[c]
      BY <1>0, <2>0, <3>1, <3>2
    <3> QED BY <3>1, <3>3 DEF Free
  <2>4. /\ pool' \in [Ports -> [q : Seq(Int), num : Int]] /\ \A r \in Ports : pool'[r].q \in Seq(BuffersOf(r))
        /\ \A r \in Ports : r # "usOut" => pool'[r] = pool[r]
        /\ pool'["usOut"].q = Append(pool["usOut"].q, b)
    BY <1>0, <1>3, <2>0, ReturnedTypes
  <2>5. pool'["usIn"] = pool["usIn"] /\ pool'["unOut"] = pool["unOut"] /\ pool'["unIn"] = pool["unIn"]
    BY <2>4 DEF Ports
  <2>6. PortsTypeOK'
    BY <1>0, <1>1, <2>1, <2>2, <2>3, <2>4 DEF PortsTypeOK, ThreadType
  <2>7. ThreadInv' /\ HandleInv' /\ NodeInv'
    BY <1>0, <1>1, <2>5 DEF ThreadInv, HandleInv, NodeInv
  <2>8. CountInv'
    BY <1>0, <1>3, <2>0, ReturnedTo, ReturnedCounts
  <2>9. Apart(pool["unOut"].q, pool["usOut"].q, client.out, Free, (-made.out)..(-1))
    <3>1. Hand(thread.output) \union Free = Free
      BY <1>0 DEF Hand
    <3> QED BY <1>0, <3>1 DEF HandsInv
  <2>10. HandsInv'
    <3>1. pool["unOut"].q \in Seq(Int) /\ pool["usOut"].q \in Seq(Int)
      BY <1>0, PortTypes
    <3>2. Apart(pool["unOut"].q, Append(pool["usOut"].q, b), client.out, Free \ {b}, (-made.out)..(-1))
      BY <1>3, <2>0, <2>9, <3>1, ApartHeld
    <3>3. Hand(thread'.output) \union Free' = Free \ {b}
      BY <1>1, <2>3 DEF Hand
    <3>4. Apart(pool'["unIn"].q, pool'["usIn"].q, client'.in, Hand(thread'.input), 1..made'.in)
      BY <1>0, <1>1, <2>5 DEF HandsInv
    <3> QED BY <1>0, <2>4, <2>5, <3>2, <3>3, <3>4 DEF HandsInv
  <2>11. FrameInv'
    <3> SUFFICES ASSUME Orderly PROVE FrameInv'
      BY <1>0, <1>1 DEF FrameInv, Orderly
    <3>1. Taken' = Taken
      BY <1>0, <2>5 DEF Taken
    <3>2. /\ Linked(client.last, Given, codec.inside, kind)
          /\ codec.info => pool["usOut"].q = <<>> /\ client.last = 0
          /\ \A c \in OutBufs : c < -made.out => out[c].frame = 0
      BY <1>0 DEF FrameInv
    <3>3. (\A j \in DOMAIN pool["usOut"].q : pool["usOut"].q[j] # b) /\ b \in (-made.out)..(-1)
      BY <1>3, <2>9 DEF Apart
    <3>4. Given' = Append(Given, out'[b].frame)
      BY <1>0, <2>0, <2>2, <2>4, <3>3, GivenMore
    <3>5. Linked(client.last, Given', codec'.inside, kind)
          /\ LastIn(client.last, Given', codec'.inside) = LastIn(client.last, Given, codec.inside)
      <4>1. CASE codec.info
        <5>1. Given = <<>>
          BY <1>0, <3>2, <4>1, GivenTypes, FramesType DEF Given
        <5>2. Linked(0, Append(Given, 0), codec.inside, kind)
              /\ LastIn(0, Append(Given, 0), codec.inside) = LastIn(0, Given, codec.inside)
          BY <1>0, <3>2, <4>1, <5>1, GivenTypes, LinkedInfo, ZenonT(60)
        <5>3. client.last = 0 /\ Given' = Append(Given, 0) /\ codec'.inside = codec.inside
          BY <2>1, <2>2, <3>2, <3>4, <4>1
        <5> QED BY <5>2, <5>3
      <4>2. CASE ~codec.info
        <5>1. Linked(client.last, Append(Given, Head(codec.inside)), Tail(codec.inside), kind)
              /\ LastIn(client.last, Append(Given, Head(codec.inside)), Tail(codec.inside))
                   = LastIn(client.last, Given, codec.inside)
          BY <1>0, <1>3, <3>2, GivenTypes, LinkedOut
        <5>2. Given' = Append(Given, Head(codec.inside)) /\ codec'.inside = Tail(codec.inside)
          BY <2>1, <2>2, <3>4, <4>2
        <5> QED BY <5>1, <5>2
      <4> QED BY <4>1, <4>2
    <3>6. Newest' = Newest /\ Linked(client'.last, Given', codec'.inside, kind')
      BY <1>0, <3>5 DEF Newest
    <3>7. \A c \in OutBufs : c < -made'.out => out'[c].frame = 0
      <4> SUFFICES ASSUME NEW c \in OutBufs, c < -made'.out PROVE out'[c].frame = 0
        OBVIOUS
      <4>1. c \in Int /\ made.out \in Nat
        BY <1>0, PortTypes, Numbers
      <4>2. c # b
        BY <1>0, <3>3, <4>1
      <4> QED BY <1>0, <2>2, <3>2, <4>2
    <3> QED BY <1>0, <1>1, <2>1, <2>5, <3>1, <3>6, <3>7 DEF FrameInv
  <2> QED BY <2>6, <2>7, <2>8, <2>10, <2>11 DEF PortsInv
<1>4. \/ UNCHANGED <<pool, out, group>> /\ (codec' = codec \/ codec' = [codec EXCEPT !.info = FALSE])
      \/ \E b \in Free :
           /\ codec.inside # <<>>
           /\ codec' = IF codec.info THEN [codec EXCEPT !.info = FALSE] ELSE [codec EXCEPT !.inside = Tail(@)]
           /\ out' = [out EXCEPT ![b] = IF codec.info THEN [frame |-> 0, status |-> "info"]
                                        ELSE [frame |-> Head(codec.inside), status |-> "ready"]]
           /\ group' = [group EXCEPT ![b] = [at |-> "lent", mpp |-> IF @.mpp = "null" THEN "set" ELSE @.mpp]]
           /\ pool' = returnObj(pool, "usOut", b)
  BY DEF ma_decode_get_frame
<1> QED BY <1>2, <1>3, <1>4

-----------------------------------------------------------------------------
(* init() and release().                                                   *)

LEMMA BuffersAre ==
    /\ Buffers(1) \in Seq(InBufs) /\ Len(Buffers(1)) = Count /\ \A i \in 1..Count : Buffers(1)[i] = i
    /\ Buffers(-1) \in Seq(OutBufs) /\ Len(Buffers(-1)) = Count /\ \A i \in 1..Count : Buffers(-1)[i] = -i
    /\ DOMAIN Buffers(1) = 1..Count /\ DOMAIN Buffers(-1) = 1..Count
    /\ Buffers(1) \in Seq(Int) /\ Buffers(-1) \in Seq(Int)
<1>1. Count \in Nat /\ 1..Count \subseteq InBufs /\ InBufs \subseteq Nat /\ OutBufs \subseteq Int
      /\ \A b \in InBufs : -b \in OutBufs
  <2>1. Count \in Nat /\ mMaxNum("unIn") \in Nat /\ Count <= mMaxNum("unIn") /\ 1..mMaxNum("unIn") \subseteq InBufs
    BY Numbers DEF Ports
  <2> QED BY <2>1, Numbers
<1>2. Buffers(1) = [i \in 1..Count |-> 1 * i] /\ Buffers(-1) = [i \in 1..Count |-> (-1) * i]
  BY DEF Buffers
<1>3. \A i \in 1..Count : 1 * i = i /\ (-1) * i = -i /\ i \in InBufs /\ -i \in OutBufs
  BY <1>1
<1>4. Buffers(1) \in [1..Count -> InBufs] /\ Buffers(-1) \in [1..Count -> OutBufs]
      /\ \A i \in 1..Count : Buffers(1)[i] = i /\ Buffers(-1)[i] = -i
  BY <1>2, <1>3
<1>5. Buffers(1) \in Seq(InBufs) /\ Buffers(-1) \in Seq(OutBufs)
  BY <1>1, <1>4, SeqDef
<1>6. Len(Buffers(1)) = Count /\ Len(Buffers(-1)) = Count
  BY <1>1, <1>4, <1>5
<1>7. Buffers(1) \in Seq(Int) /\ Buffers(-1) \in Seq(Int)
  <2>1. InBufs \subseteq Int /\ OutBufs \subseteq Int
    BY <1>1
  <2> QED BY <1>5, <2>1, SeqMonotonic
<1> QED BY <1>4, <1>5, <1>6, <1>7

LEMMA CreatedPortsInv ==
    ASSUME PortsInv, node = "new", UNCHANGED <<kind, frameIn, out, codec, thread, client, starts>>,
           handles' \subseteq Handles, HandleInv', node' \in {"ready", "failed"},
           node' = "failed" => UNCHANGED <<pool, made, group>>,
           node' = "ready" /\ kind # "hd" => EncoderPorts,
           node' = "ready" /\ kind = "hd" => hd_allocateBuffersOnPort
    PROVE  PortsInv'
<1>0. PortsTypeOK /\ ThreadInv /\ NodeInv /\ CountInv /\ HandsInv
  BY DEF PortsInv
<1>1. /\ thread = Resting /\ pool = Emptied /\ made = [in |-> 0, out |-> 0] /\ starts = 0
      /\ client = [in |-> {}, out |-> {}, sent |-> 0, last |-> 0, skipped |-> FALSE]
      /\ (\A b \in OutBufs : group[b].at = "none" /\ out[b].frame = 0) /\ codec.inside = <<>>
  BY <1>0 DEF ThreadInv, NodeInv
<1>2. thread.input = None /\ thread.output = None /\ thread.alive = FALSE /\ thread.pc = "top" /\ Hand(None) = {}
      /\ client.in = {} /\ client.out = {} /\ client.sent = 0 /\ client.last = 0 /\ client.skipped = FALSE
  BY <1>1 DEF Resting, Hand
<1>3. \A p \in Ports : pool[p].q = <<>> /\ pool[p].num = 0 /\ Len(pool[p].q) = 0
  BY <1>1 DEF Emptied
<1>4. CASE node' = "failed"
  <2>1. PortsTypeOK'
    BY <1>0, <1>4 DEF PortsTypeOK
  <2>2. ThreadInv' /\ NodeInv'
    BY <1>0, <1>1, <1>2, <1>4 DEF ThreadInv, NodeInv
  <2>3. HandsInv' /\ CountInv' /\ FrameInv'
    BY <1>0, <1>4 DEF HandsInv, CountInv, FrameInv, Orderly, mMaxNum, MakesOut, Free
  <2> QED BY <2>1, <2>2, <2>3 DEF PortsInv
<1>5. CASE node' = "ready"
  <2>0. /\ Count' = Count /\ Count \in Nat /\ MakesOut' = MakesOut /\ \A p \in Ports : mMaxNum(p)' = mMaxNum(p) /\ mMaxNum(p) \in Nat
        /\ \A p \in {"unIn", MakesOut} : Count <= mMaxNum(p)
    BY Numbers DEF Count, MakesOut, mMaxNum
  <2>1. /\ pool' \in [Ports -> [q : Seq(Int), num : Int]] /\ made' = [in |-> Count, out |-> Count]
        /\ pool'["usIn"].q = <<>> /\ pool'["usOut"].q = <<>> /\ pool'["unIn"].q = Buffers(1)
        /\ pool'["unIn"].num = 0 /\ pool'["usIn"].num = 0 /\ pool'["unOut"].num = 0
        /\ kind # "hd" => pool'["unOut"].q = Buffers(-1) /\ pool'["usOut"].num = 0
        /\ kind = "hd" => pool'["unOut"].q = <<>> /\ pool'["usOut"].num = Count
    <3>1. pool \in [Ports -> [q : Seq(Int), num : Int]]
      BY <1>0 DEF PortsTypeOK
    <3>2. CASE kind # "hd"
      <4>1. pool' = [pool EXCEPT !["unIn"].q = Buffers(1), !["unOut"].q = Buffers(-1)] /\ made' = [in |-> Count, out |-> Count]
        BY <1>5, <3>2 DEF EncoderPorts
      <4> QED BY <1>3, <3>1, <3>2, <4>1, BuffersAre DEF Ports
    <3>3. CASE kind = "hd"
      <4>1. pool' = [pool EXCEPT !["unIn"].q = Buffers(1), !["usOut"].num = Count] /\ made' = [in |-> Count, out |-> Count]
        BY <1>5, <3>3 DEF hd_allocateBuffersOnPort
      <4>2. pool["unIn"] = [q |-> <<>>, num |-> 0] /\ pool["usOut"] = [q |-> <<>>, num |-> 0]
        BY <1>1 DEF Emptied, Ports
      <4>3. pool' = [pool EXCEPT !["unIn"] = [q |-> Buffers(1), num |-> 0], !["usOut"] = [q |-> <<>>, num |-> Count]]
        <5>1. [pool["unIn"] EXCEPT !.q = Buffers(1)] = [q |-> Buffers(1), num |-> 0]
              /\ [pool["usOut"] EXCEPT !.num = Count] = [q |-> <<>>, num |-> Count]
          BY <4>2
        <5>2. pool' = [pool EXCEPT !["unIn"] = [pool["unIn"] EXCEPT !.q = Buffers(1)],
                                   !["usOut"] = [pool["usOut"] EXCEPT !.num = Count]]
          BY <4>1
        <5> QED BY <5>1, <5>2
      <4>4. [q |-> Buffers(1), num |-> 0] \in [q : Seq(Int), num : Int]
            /\ [q |-> <<>>, num |-> Count] \in [q : Seq(Int), num : Int]
        BY <2>0, BuffersAre
      <4>5. pool' \in [Ports -> [q : Seq(Int), num : Int]]
        BY <3>1, <4>3, <4>4 DEF Ports
      <4>6. /\ pool'["unIn"] = [q |-> Buffers(1), num |-> 0] /\ pool'["usOut"] = [q |-> <<>>, num |-> Count]
            /\ pool'["usIn"] = pool["usIn"] /\ pool'["unOut"] = pool["unOut"]
        BY <3>1, <4>3 DEF Ports
      <4> QED BY <1>3, <3>3, <4>1, <4>5, <4>6 DEF Ports
    <3> QED BY <3>2, <3>3
  <2>2. \A p \in Ports : pool'[p].q \in Seq(BuffersOf(p))
    <3>1. <<>> \in Seq(OutBufs) /\ <<>> \in Seq(InBufs)
      OBVIOUS
    <3> QED BY <2>1, <3>1, BuffersAre, SMTT(30) DEF Ports, BuffersOf, InPorts
  <2>3. /\ group' \in [OutBufs -> GroupState]
        /\ kind # "hd" => \A b \in OutBufs : group'[b].at = "none"
        /\ \A b \in Free' : b \in (-Count)..(-1)
        /\ kind # "hd" => Free' = {}
    <3>1. group \in [OutBufs -> GroupState]
      BY <1>0 DEF PortsTypeOK
    <3>2. CASE kind # "hd"
      <4>1. group' = group
        BY <1>5, <3>2 DEF EncoderPorts
      <4> QED BY <1>1, <3>1, <3>2, <4>1 DEF Free
    <3>3. CASE kind = "hd"
      <4>1. PICK was \in {"null", "junk"} :
              group' = [b \in OutBufs |-> IF -b \in 1..Count THEN ma_commit_buffer_to_group(was) ELSE group[b]]
        BY <1>5, <3>3 DEF hd_allocateBuffersOnPort
      <4>2. ma_commit_buffer_to_group(was) \in GroupState
        BY DEF ma_commit_buffer_to_group, GroupState
      <4>3. group' \in [OutBufs -> GroupState]
        BY <3>1, <4>1, <4>2
      <4>4. \A b \in Free' : b \in OutBufs /\ -b \in 1..Count
        BY <1>1, <4>1 DEF Free
      <4>5. \A b \in Free' : b \in (-Count)..(-1)
        <5> SUFFICES ASSUME NEW b \in Free' PROVE b \in (-Count)..(-1)
          OBVIOUS
        <5>1. b \in Int /\ -b \in 1..Count
          BY <4>4, Numbers
        <5> QED BY <2>0, <5>1
      <4> QED BY <3>3, <4>3, <4>5
    <3> QED BY <3>2, <3>3
  <2>4. PortsTypeOK'
    <3>1. made' \in [in : Nat, out : Nat]
      BY <2>0, <2>1
    <3>2. pool' \in [Ports -> [q : Seq(Int), num : Int]] /\ group' \in [OutBufs -> GroupState]
      BY <2>1, <2>3
    <3> QED BY <1>0, <1>5, <2>2, <3>1, <3>2 DEF PortsTypeOK
  <2>5. ThreadInv' /\ NodeInv'
    BY <1>0, <1>1, <1>2, <1>5, <2>1, <2>3 DEF ThreadInv, NodeInv
  <2>6. HandsInv'
    <3>1. Apart(Buffers(1), <<>>, {}, {}, 1..Count)
      BY <2>0, BuffersAre DEF Apart
    <3>2. Apart(pool'["unIn"].q, pool'["usIn"].q, client'.in, Hand(thread'.input), 1..made'.in)
      <4>1. client'.in = {} /\ Hand(thread'.input) = {} /\ made'.in = Count
        BY <1>2, <2>1
      <4> QED BY <2>1, <3>1, <4>1
    <3>3. Apart(pool'["unOut"].q, <<>>, {}, Free', (-Count)..(-1))
      <4>1. CASE kind # "hd"
        <5>1. \A i \in 1..Count : -i \in (-Count)..(-1)
          BY <2>0
        <5>2. \A i, j \in 1..Count : -i = -j => i = j
          BY <2>0
        <5>3. Apart(Buffers(-1), <<>>, {}, {}, (-Count)..(-1))
          <6> PICK f : f = Buffers(-1)
            OBVIOUS
          <6>1. DOMAIN f = 1..Count /\ \A i \in 1..Count : f[i] = -i
            BY BuffersAre
          <6>2. \A i \in DOMAIN f : f[i] \in (-Count)..(-1)
            BY <5>1, <6>1, ZenonT(60)
          <6>3. \A i, j \in DOMAIN f : f[i] = f[j] => i = j
            <7> SUFFICES ASSUME NEW i \in DOMAIN f, NEW j \in DOMAIN f, f[i] = f[j] PROVE i = j
              OBVIOUS
            <7>1. i \in 1..Count /\ j \in 1..Count /\ -i = -j
              BY <6>1
            <7> QED BY <2>0, <7>1
          <6>4. Apart(f, <<>>, {}, {}, (-Count)..(-1))
            BY <6>2, <6>3 DEF Apart
          <6> QED BY <6>4
        <5> QED BY <2>1, <2>3, <4>1, <5>3
      <4>2. CASE kind = "hd"
        BY <2>1, <2>3, <4>2 DEF Apart
      <4> QED BY <4>1, <4>2
    <3>4. Apart(pool'["unOut"].q, pool'["usOut"].q, client'.out, Hand(thread'.output) \union Free', (-made'.out)..(-1))
      <4>1. client'.out = {} /\ Hand(thread'.output) \union Free' = Free' /\ made'.out = Count /\ pool'["usOut"].q = <<>>
        BY <1>2, <2>1
      <4> QED BY <3>3, <4>1
    <3> QED BY <3>2, <3>4 DEF HandsInv
  <2>7. CountInv'
    <3>1. Len(<<>>) = 0 /\ Len(Buffers(1)) = Count /\ Len(Buffers(-1)) = Count
      BY BuffersAre
    <3>2. \A p \in Ports : pool'[p].num + Len(pool'[p].q) <= mMaxNum(p)'
      BY <2>0, <2>1, <3>1, SMTT(30) DEF Ports, MakesOut
    <3>3. made'.in = pool'["unIn"].num + Len(pool'["unIn"].q) /\ made'.out = pool'[MakesOut].num + Len(pool'[MakesOut].q)
      BY <2>0, <2>1, <3>1 DEF MakesOut
    <3> QED BY <2>0, <3>2, <3>3 DEF CountInv
  <2>8. FrameInv'
    <3>1. Given' = <<>> /\ Taken' = 0
      <4>1. FramesOf(<<>>, out) = <<>>
        BY DEF FramesOf
      <4>2. pool'["usOut"].q = <<>> /\ pool'["usIn"].q = <<>> /\ Len(<<>>) = 0 /\ client'.sent = 0
        BY <1>2, <2>1
      <4>3. Given' = FramesOf(pool'["usOut"].q, out)
        BY DEF Given
      <4>4. Taken' = client'.sent - Len(pool'["usIn"].q)
        BY DEF Taken
      <4>5. Given' = <<>>
        BY <4>1, <4>2, <4>3
      <4>6. Taken' = 0
        <5>1. Len(pool'["usIn"].q) = 0
          BY <4>2
        <5>2. client'.sent - Len(pool'["usIn"].q) = 0 - 0
          BY <4>2, <5>1
        <5> QED BY <4>4, <5>2
      <4> QED BY <4>5, <4>6
    <3>2. codec'.inside = <<>> /\ client'.last = 0 /\ client'.skipped = FALSE /\ thread'.input = None /\ thread'.pc = "top"
      BY <1>1, <1>2
    <3>3. Newest' = 0 /\ Linked(client'.last, Given', codec'.inside, kind')
      BY <3>1, <3>2 DEF Newest, LastIn, LastGiven, Linked
    <3>4. DOMAIN pool'["usIn"].q = {}
      BY <2>1
    <3> QED BY <1>1, <2>1, <3>1, <3>2, <3>3, <3>4 DEF FrameInv
  <2> QED BY <2>4, <2>5, <2>6, <2>7, <2>8 DEF PortsInv
<1> QED BY <1>4, <1>5

LEMMA CreatePortsInv == PortsInv /\ (ff_init \/ he_init \/ hd_init) => PortsInv'
<1>1. ASSUME PortsInv, ff_init PROVE PortsInv'
  <2>1. /\ node = "new" /\ UNCHANGED <<kind, frameIn, out, codec, thread, client, starts>> /\ kind = "ff"
        /\ node' \in {"ready", "failed"} /\ handles' \subseteq {"ctx", "av"}
    BY <1>1 DEF ff_init, Create, fa_video_encode_create
  <2>2. node' = "failed" => UNCHANGED <<pool, made, group>>
    BY <1>1 DEF ff_init, Create
  <2>3. node' = "ready" => EncoderPorts
    BY <1>1 DEF ff_init, Create, ff_allocateBuffersOnPort
  <2>4. HandleInv'
    BY <2>1 DEF HandleInv
  <2> QED BY <1>1, <2>1, <2>2, <2>3, <2>4, CreatedPortsInv DEF Handles
<1>2. ASSUME PortsInv, he_init PROVE PortsInv'
  <2>1. /\ node = "new" /\ UNCHANGED <<kind, frameIn, out, codec, thread, client, starts>> /\ kind = "he"
    BY <1>2 DEF he_init, Create
  <2>2. node' \in {"ready", "failed"} /\ handles' \subseteq {"ctx", "mpp", "grp", "extra"}
    <3>1. ma_encode_create
      BY <1>2 DEF he_init, Create
    <3>2. CASE \E got \in {{"ctx"}, {"ctx", "mpp"}} : handles' = got \ {"ctx"} /\ node' = "failed"
      BY <3>2
    <3>3. CASE ma_encode_prepare
      BY <3>3 DEF ma_encode_prepare, ma_encode_config
    <3> QED BY <3>1, <3>2, <3>3 DEF ma_encode_create
  <2>3. node' = "failed" => UNCHANGED <<pool, made, group>>
    BY <1>2 DEF he_init, Create
  <2>4. node' = "ready" => EncoderPorts
    BY <1>2 DEF he_init, Create, he_allocateBuffersOnPort
  <2>5. HandleInv'
    BY <2>1, <2>2 DEF HandleInv
  <2> QED BY <1>2, <2>1, <2>2, <2>3, <2>4, <2>5, CreatedPortsInv DEF Handles
<1>3. ASSUME PortsInv, hd_init PROVE PortsInv'
  <2>1. /\ node = "new" /\ UNCHANGED <<kind, frameIn, out, codec, thread, client, starts>> /\ kind = "hd"
        /\ node' \in {"ready", "failed"} /\ handles' \subseteq {"ctx", "mpp", "grp", "list"}
    BY <1>3 DEF hd_init, Create, ma_decode_create
  <2>2. node' = "failed" => UNCHANGED <<pool, made, group>>
    BY <1>3 DEF hd_init, Create
  <2>3. node' = "ready" => hd_allocateBuffersOnPort
    BY <1>3 DEF hd_init, Create
  <2>4. HandleInv'
    BY <2>1 DEF HandleInv
  <2> QED BY <1>3, <2>1, <2>2, <2>3, <2>4, CreatedPortsInv DEF Handles
<1> QED BY <1>1, <1>2, <1>3

(* The ports are emptied; what the client holds stays with it.             *)
LEMMA ReleasePortsInv == PortsInv /\ (ff_release \/ he_release \/ hd_release) => PortsInv'
<1> SUFFICES ASSUME PortsInv, ff_release \/ he_release \/ hd_release PROVE PortsInv'
  OBVIOUS
<1>0. PortsTypeOK /\ ThreadInv /\ NodeInv /\ CountInv /\ HandsInv /\ HandleInv
  BY DEF PortsInv
<1>1. /\ node \in {"ready", "failed"} /\ ~thread.alive /\ pool' = [p \in DOMAIN pool |-> [q |-> <<>>, num |-> 0]]
      /\ UNCHANGED <<kind, made, frameIn, out, codec, group, thread, client, starts>>
  BY DEF ff_release, he_release, hd_release, Release
<1>2. /\ node' \in {"gone", "crashed"} /\ handles' \subseteq handles /\ HandleInv'
  <2>1. CASE ff_release
    BY <1>1, <2>1 DEF ff_release, Release, fa_video_encode_destroy, HandleInv
  <2>2. CASE he_release
    BY <1>0, <1>1, <2>2 DEF he_release, Release, ma_encode_destroy, HandleInv
  <2>3. CASE hd_release
    BY <1>0, <1>1, <2>3 DEF hd_release, Release, ma_decode_destroy, HandleInv
  <2> QED BY <2>1, <2>2, <2>3
<1>3. pool' = Emptied /\ \A p \in Ports : pool'[p].q = <<>> /\ pool'[p].num = 0
  <2>1. DOMAIN pool = Ports
    BY <1>0 DEF PortsTypeOK
  <2> QED BY <1>1, <2>1 DEF Emptied
<1>4. PortsTypeOK'
  <2>1. <<>> \in Seq(Int) /\ <<>> \in Seq(InBufs) /\ <<>> \in Seq(OutBufs)
    OBVIOUS
  <2>2. pool' \in [Ports -> [q : Seq(Int), num : Int]] /\ \A p \in Ports : pool'[p].q \in Seq(BuffersOf(p))
    <3>1. Emptied \in [Ports -> [q : Seq(Int), num : Int]]
      BY <2>1 DEF Emptied
    <3>2. \A p \in Ports : <<>> \in Seq(BuffersOf(p))
      BY <2>1 DEF BuffersOf
    <3> QED BY <1>3, <3>1, <3>2
  <2> QED BY <1>0, <1>1, <1>2, <2>2 DEF PortsTypeOK
<1>5. ThreadInv' /\ NodeInv'
  <2>1. thread = Resting
    BY <1>0, <1>1 DEF ThreadInv
  <2> QED BY <1>0, <1>1, <1>2, <1>3, <2>1 DEF ThreadInv, NodeInv, Ports, Resting
<1>6. HandsInv'
  <2>1. DOMAIN <<>> = {} /\ Free' = Free
    BY <1>1 DEF Free
  <2>2. /\ Apart(<<>>, <<>>, client.in, Hand(thread.input), 1..made.in)
        /\ Apart(<<>>, <<>>, client.out, Hand(thread.output) \union Free, (-made.out)..(-1))
    BY <1>0, <2>1, ApartEmpty DEF HandsInv
  <2> QED BY <1>1, <1>3, <2>1, <2>2 DEF HandsInv, Ports
<1>7. CountInv'
  <2>1. \A p \in Ports : mMaxNum(p)' = mMaxNum(p) /\ mMaxNum(p) \in Nat
    BY <1>1, Numbers DEF mMaxNum
  <2>2. \A p \in Ports : pool'[p].num + Len(pool'[p].q) = 0
    BY <1>3
  <2>3. \A p \in Ports : pool'[p].num + Len(pool'[p].q) <= mMaxNum(p)'
    BY <2>1, <2>2
  <2> QED BY <1>2, <2>3 DEF CountInv
<1>8. FrameInv'
  BY <1>2 DEF FrameInv, Orderly
<1> QED BY <1>2, <1>4, <1>5, <1>6, <1>7, <1>8 DEF PortsInv

LEMMA SamePortsInv == PortsInv /\ UNCHANGED vars => PortsInv'
<1> SUFFICES ASSUME PortsInv, UNCHANGED vars PROVE PortsInv'
  OBVIOUS
<1>1. UNCHANGED <<kind, node, handles, pool, made, frameIn, out, codec, group, thread, client, starts>>
  BY DEF vars
<1>2. PortsTypeOK' /\ ThreadInv' /\ NodeInv' /\ HandleInv'
  BY <1>1 DEF PortsInv, PortsTypeOK, ThreadInv, NodeInv, HandleInv
<1>3. HandsInv' /\ CountInv'
  BY <1>1 DEF PortsInv, HandsInv, Free, CountInv, mMaxNum, MakesOut
<1>4. FrameInv'
  BY <1>1 DEF PortsInv, FrameInv, Orderly, Taken, Given, Newest
<1> QED BY <1>2, <1>3, <1>4 DEF PortsInv

LEMMA StepPortsInv == PortsInv /\ [Next]_vars => PortsInv'
<1> SUFFICES ASSUME PortsInv, [Next]_vars PROVE PortsInv'
  OBVIOUS
<1>1. ASSUME ff_runCmd \/ he_runCmd \/ hd_runCmd PROVE PortsInv'
  BY <1>1, CreatePortsInv, StartPortsInv, StopPortsInv DEF ff_runCmd, he_runCmd, hd_runCmd
<1>2. ASSUME NEW type \in {"in", "out"}, ff_dequeBuffer(type) \/ he_dequeBuffer(type) \/ hd_dequeBuffer(type)
      PROVE  PortsInv'
  <2>1. Take(IF type = "in" THEN "unIn" ELSE "usOut", type)
    BY <1>2 DEF ff_dequeBuffer, he_dequeBuffer, hd_dequeBuffer
  <2>2. Take("unIn", "in") \/ Take("usOut", "out")
    BY <2>1
  <2> QED BY <2>2, TakeInPortsInv, TakeOutPortsInv
<1>3. ASSUME NEW b, ff_queueBuffer(b) \/ he_queueBuffer(b) \/ hd_queueBuffer(b)
      PROVE  PortsInv'
  <2>1. CASE Push(b)
    BY <2>1, PushPortsInv
  <2>2. CASE kind # "hd" /\ GiveBack(b) /\ pool' = returnObj(pool, "unOut", b) /\ UNCHANGED group
    BY <2>2, EncoderGivePortsInv
  <2>3. CASE kind = "hd" /\ GiveBack(b) /\ ma_fill_buffer_to_group(b) /\ UNCHANGED pool
    BY <2>3, DecoderGivePortsInv
  <2> QED BY <1>3, <2>1, <2>2, <2>3 DEF ff_queueBuffer, he_queueBuffer, hd_queueBuffer
<1>4. ASSUME Thread PROVE PortsInv'
  BY <1>4, EnterPortsInv, LeavePortsInv, TakeInputPortsInv, TakeOutputPortsInv, SendFramePortsInv, GetPacketPortsInv,
     EncodeSendPortsInv, EncodeGetPortsInv, DecodeSendPortsInv, DecodeGetPortsInv
     DEF Thread, ff_runTask, he_runTask, hd_runTask
<1> QED BY <1>1, <1>2, <1>3, <1>4, ReleasePortsInv, SamePortsInv DEF Next, Client

-----------------------------------------------------------------------------
(* What the clients rely on.                                               *)

LEMMA PortsServeHolds == PortsInv => PortsServe
<1> SUFFICES ASSUME PortsInv, NEW p \in DOMAIN pool
             PROVE  (pool[p].q # <<>> => pool[p].num < mMaxNum(p)) /\ Len(pool[p].q) <= mMaxNum(p)
  BY DEF PortsServe
<1>0. PortsTypeOK /\ HandsInv /\ CountInv /\ NodeInv
  BY DEF PortsInv
<1>1. p \in Ports
  BY <1>0 DEF PortsTypeOK
<1>2. /\ pool[p].q \in Seq(Int) /\ pool[p].num \in Int /\ Len(pool[p].q) \in Nat /\ mMaxNum(p) \in Nat
      /\ pool[p].num + Len(pool[p].q) <= mMaxNum(p)
  BY <1>0, <1>1, PortTypes, Numbers DEF CountInv
<1>3. ASSUME pool[p].q # <<>> PROVE pool[p].num < mMaxNum(p)
  <2>1. Len(pool[p].q) > 0
    BY <1>2, <1>3, EmptySeq
  <2> QED BY <1>2, <2>1
<1>4. made.in \in Nat /\ made.out \in Nat /\ pool[p].q \in Seq(Int)
  BY <1>0, <1>1, PortTypes
<1>5. Len(pool[p].q) <= mMaxNum(p)
  <2>1. CASE pool[p].q = <<>>
    BY <1>2, <2>1
  <2>2. CASE node = "ready" /\ p \in InPorts
    <3>1. /\ \A i, j \in DOMAIN pool[p].q : pool[p].q[i] = pool[p].q[j] => i = j
          /\ \A i \in DOMAIN pool[p].q : pool[p].q[i] \in 1..made.in
      BY <1>0, <2>2 DEF HandsInv, Apart, InPorts
    <3>2. 1 + made.in - 1 = made.in
      BY <1>4
    <3>3. \A i \in DOMAIN pool[p].q : pool[p].q[i] \in 1..(1 + made.in - 1)
      BY <3>1, <3>2
    <3>4. Len(pool[p].q) <= made.in
      BY <1>4, <3>1, <3>3, QueueFits
    <3>5. made.in <= mMaxNum("unIn") /\ mMaxNum("unIn") <= mMaxNum(p) /\ mMaxNum("unIn") \in Nat
      <4>1. "unIn" \in Ports
        BY DEF Ports
      <4>2. made.in <= mMaxNum("unIn") /\ mMaxNum("unIn") \in Nat
        BY <1>0, <2>2, <4>1, Numbers DEF CountInv
      <4> QED BY <2>2, <4>2, Numbers DEF InPorts
    <3> QED BY <1>2, <1>4, <3>4, <3>5
  <2>3. CASE node = "ready" /\ p \notin InPorts /\ pool[p].q # <<>>
    <3>0. p = "unOut" \/ p = "usOut"
      BY <1>1, <2>3 DEF Ports, InPorts
    <3>1. /\ \A i, j \in DOMAIN pool[p].q : pool[p].q[i] = pool[p].q[j] => i = j
          /\ \A i \in DOMAIN pool[p].q : pool[p].q[i] \in (-made.out)..(-1)
      BY <1>0, <3>0 DEF HandsInv, Apart
    <3>2. -made.out + made.out - 1 = -1 /\ -made.out \in Int
      BY <1>4
    <3>3. \A i \in DOMAIN pool[p].q : pool[p].q[i] \in (-made.out)..(-made.out + made.out - 1)
      BY <3>1, <3>2
    <3>4. Len(pool[p].q) <= made.out
      BY <1>4, <3>1, <3>2, <3>3, QueueFits
    <3>5. made.out <= mMaxNum(MakesOut) /\ mMaxNum(MakesOut) <= mMaxNum(p) /\ mMaxNum(MakesOut) \in Nat
      <4>1. MakesOut \in Ports /\ (kind = "hd" => p = "usOut")
        BY <1>0, <2>3, <3>0 DEF Ports, MakesOut, NodeInv
      <4>2. made.out <= mMaxNum(MakesOut) /\ mMaxNum(MakesOut) \in Nat
        BY <1>0, <2>3, <4>1, Numbers DEF CountInv
      <4> QED BY <3>0, <4>1, <4>2, Numbers
    <3> QED BY <1>2, <1>4, <3>4, <3>5
  <2>4. node # "ready" => pool[p].q = <<>>
    BY <1>0, <1>1 DEF NodeInv, Emptied
  <2> QED BY <2>1, <2>2, <2>3, <2>4
<1> QED BY <1>3, <1>5

LEMMA OneHolderHolds == PortsInv => OneHolder
<1> SUFFICES ASSUME PortsInv PROVE OneHolder
  OBVIOUS
<1>0. PortsTypeOK /\ HandsInv
  BY DEF PortsInv
<1>1. DOMAIN pool = {"unIn", "usIn", "unOut", "usOut"}
  BY <1>0 DEF PortsTypeOK, Ports
<1>2. \A p \in DOMAIN pool : IsInjective(pool[p].q)
  BY <1>0, <1>1 DEF HandsInv, Apart, IsInjective
<1>3. ASSUME NEW b \in InBufs \union OutBufs, NEW x \in Holders(b), NEW y \in Holders(b)
      PROVE  x = y
  <2>1. b \in InBufs => b \notin OutBufs
    BY Numbers
  <2>2. \A p \in {"unIn", "usIn"} : \A i \in DOMAIN pool[p].q : pool[p].q[i] \in InBufs
    BY <1>0, PortTypes
  <2>3. \A p \in {"unOut", "usOut"} : \A i \in DOMAIN pool[p].q : pool[p].q[i] \in OutBufs
    BY <1>0, PortTypes
  <2>4. client.in \subseteq InBufs /\ client.out \subseteq OutBufs /\ Free \subseteq OutBufs
        /\ thread.input \in InBufs \union {None} /\ thread.output \in OutBufs \union {None} /\ b # None
    BY <1>0, Numbers DEF PortsTypeOK, Free
  <2> DEFINE Within(q) == \E i \in DOMAIN q : q[i] = b
  <2>5. \A z \in Holders(b) :
           \/ z \in {"unIn", "usIn", "unOut", "usOut"} /\ Within(pool[z].q)
           \/ z = "in" /\ b \in client.in
           \/ z = "out" /\ b \in client.out
           \/ z = "input" /\ b = thread.input
           \/ z = "output" /\ b = thread.output
           \/ z = "mpp" /\ b \in Free
    BY <1>1 DEF Holders, Range
  <2>6. CASE b \in InBufs
    <3>1. \A z \in Holders(b) :
             \/ z \in {"unIn", "usIn"} /\ Within(pool[z].q)
             \/ z = "in" /\ b \in client.in
             \/ z = "input" /\ b \in Hand(thread.input)
      BY <2>1, <2>3, <2>4, <2>5, <2>6 DEF Hand
    <3>2. Apart(pool["unIn"].q, pool["usIn"].q, client.in, Hand(thread.input), 1..made.in)
      BY <1>0 DEF HandsInv
    <3>3. /\ Within(pool["unIn"].q) => ~Within(pool["usIn"].q) /\ b \notin client.in /\ b \notin Hand(thread.input)
          /\ Within(pool["usIn"].q) => b \notin client.in /\ b \notin Hand(thread.input)
          /\ b \in client.in => b \notin Hand(thread.input)
      BY <3>2 DEF Apart
    <3> HIDE DEF Within
    <3> QED BY <3>1, <3>3
  <2>7. CASE b \in OutBufs
    <3>1. \A z \in Holders(b) :
             \/ z \in {"unOut", "usOut"} /\ Within(pool[z].q)
             \/ z = "out" /\ b \in client.out
             \/ z = "output" /\ b \in Hand(thread.output)
             \/ z = "mpp" /\ b \in Free
      BY <2>1, <2>2, <2>4, <2>5, <2>7 DEF Hand
    <3>2. Apart(pool["unOut"].q, pool["usOut"].q, client.out, Hand(thread.output) \union Free, (-made.out)..(-1))
      BY <1>0 DEF HandsInv
    <3>3. /\ Within(pool["unOut"].q) => /\ ~Within(pool["usOut"].q) /\ b \notin client.out
                                       /\ b \notin Hand(thread.output) \union Free
          /\ Within(pool["usOut"].q) => b \notin client.out /\ b \notin Hand(thread.output) \union Free
          /\ b \in client.out => b \notin Hand(thread.output) \union Free
      BY <3>2 DEF Apart
    <3>4. Free # {} => Hand(thread.output) = {}
      <4>1. NodeInv
        BY DEF PortsInv
      <4> QED BY <4>1 DEF NodeInv, Free, Hand
    <3> HIDE DEF Within
    <3> QED BY <3>1, <3>3, <3>4
  <2> QED BY <2>6, <2>7
<1> QED BY <1>2, <1>3 DEF OneHolder

(* The packets of an encoder of mpp are not followed.                      *)
Unfollowed == kind = "he" => client.skipped = FALSE

LEMMA StepUnfollowed == PortsTypeOK /\ Unfollowed /\ [Next]_vars => Unfollowed'
<1> SUFFICES ASSUME PortsTypeOK, Unfollowed, [Next]_vars, kind' = "he" PROVE client'.skipped = FALSE
  BY DEF Unfollowed
<1>1. client \in [in : SUBSET InBufs, out : SUBSET OutBufs, sent : Nat, last : Nat, skipped : BOOLEAN]
  BY DEF PortsTypeOK
<1>2. kind' = kind
  BY DEF Next, vars, ff_runCmd, he_runCmd, hd_runCmd, ff_init, he_init, hd_init, Create, Start, Stop,
         ff_release, he_release, hd_release, Release, Client, ff_dequeBuffer, he_dequeBuffer, hd_dequeBuffer, Take,
         ff_queueBuffer, he_queueBuffer, hd_queueBuffer, Push, GiveBack, Thread, Enter, Leave, TakeInput, TakeOutput,
         ff_runTask, he_runTask, hd_runTask, fa_encode_send_frame, fa_encode_get_packet, ma_encode_send_frame,
         ma_encode_get_packet, ma_decode_send_packet, ma_decode_get_frame, Idle
<1>3. kind = "he" /\ client.skipped = FALSE
  BY <1>2 DEF Unfollowed
<1>4. ASSUME NEW p, NEW type, Take(p, type) PROVE client'.skipped = FALSE
  <2> PICK got : got = borrowObj(p)
    OBVIOUS
  <2>1. client' = client \/ client' = [client EXCEPT !.in = @ \union {got.obj}] \/ client' = Received(got.obj)
    BY <1>4 DEF Take
  <2>2. Received(got.obj) = [client EXCEPT !.out = @ \union {got.obj}]
    BY <1>3 DEF Received
  <2> QED BY <1>1, <1>3, <2>1, <2>2
<1>5. ASSUME NEW b, Push(b) \/ GiveBack(b) PROVE client'.skipped = FALSE
  BY <1>1, <1>3, <1>5 DEF Push, GiveBack
<1>6. ASSUME Client PROVE client'.skipped = FALSE
  BY <1>4, <1>5, <1>6 DEF Client, ff_dequeBuffer, he_dequeBuffer, hd_dequeBuffer,
                          ff_queueBuffer, he_queueBuffer, hd_queueBuffer
<1>7. ~Client => client' = client
  BY DEF Next, vars, ff_runCmd, he_runCmd, hd_runCmd, ff_init, he_init, hd_init, Create, Start, Stop,
         ff_release, he_release, hd_release, Release, Thread, Enter, Leave, TakeInput, TakeOutput,
         ff_runTask, he_runTask, hd_runTask, fa_encode_send_frame, fa_encode_get_packet, ma_encode_send_frame,
         ma_encode_get_packet, ma_decode_send_packet, ma_decode_get_frame, Idle
<1> QED BY <1>3, <1>6, <1>7

LEMMA NothingSkippedHolds == PortsInv /\ Unfollowed => NothingSkipped
<1> SUFFICES ASSUME PortsInv, Unfollowed, starts = 1, thread.state = "LOOP" PROVE ~client.skipped
  BY DEF NothingSkipped
<1>0. PortsTypeOK /\ ThreadInv /\ FrameInv
  BY DEF PortsInv
<1>1. thread.alive /\ node = "ready"
  BY <1>0 DEF ThreadInv, Resting
<1>2. client.skipped = FALSE
  <2>1. CASE kind = "he"
    BY <2>1 DEF Unfollowed
  <2>2. CASE kind # "he"
    <3>1. Orderly
      BY <1>1, <2>2 DEF Orderly
    <3> QED BY <1>0, <3>1 DEF FrameInv
  <2> QED BY <2>1, <2>2
<1> QED BY <1>2

(* A number that fits stays as it is.                                      *)
LEMMA Fits ==
    ASSUME NEW x \in Nat, x < Word \div 2
    PROVE  Int32(x) = x
<1> PICK h : h = Word \div 2
  OBVIOUS
<1>1. h \in Nat /\ h > 0 /\ Word = 2 * h
  BY PortsAssumption
<1>2. x + h \in Nat /\ x + h < 2 * h
  BY <1>1
<1>3. \A a, w \in Nat : a < w => a % w = a
  OBVIOUS
<1>4. (x + h) % (2 * h) = x + h
  BY <1>1, <1>2, <1>3
<1>5. Int32(x) = ((x + h) % (2 * h)) - h
  BY <1>1 DEF Int32
<1> QED BY <1>1, <1>4, <1>5

LEMMA RatesOrderedHold == RatesOrdered
<1> SUFFICES ASSUME NEW mode \in {"CBR", "VBR", "CQP"}, NEW rate \in BitRates, 17 * rate < Word \div 2
             PROVE  LET rc == RateControl(mode, rate) IN rc.min <= rc.target /\ rc.target <= rc.max
  BY DEF RatesOrdered
<1>1. rate \in Nat /\ Word \div 2 \in Nat
  BY PortsAssumption
<1>2. Int32(rate) = rate /\ Int32(rate * 15) = rate * 15 /\ Int32(rate * 17) = rate * 17
  <2>1. rate * 15 \in Nat /\ rate * 17 \in Nat /\ rate < Word \div 2 /\ rate * 15 < Word \div 2 /\ rate * 17 < Word \div 2
    BY <1>1
  <2> QED BY <1>1, <2>1, Fits
<1>3. /\ Quotient(rate, 16) <= rate /\ Quotient(rate * 15, 16) <= rate /\ rate <= Quotient(rate * 17, 16)
  BY <1>1 DEF Quotient
<1>4. CASE mode = "CBR"
  <2>1. RateControl(mode, rate) = [min |-> Quotient(rate * 15, 16), target |-> rate, max |-> Quotient(rate * 17, 16)]
    BY <1>2, <1>4 DEF RateControl
  <2> QED BY <1>3, <2>1
<1>5. CASE mode = "VBR"
  <2>1. RateControl(mode, rate) = [min |-> Quotient(rate, 16), target |-> rate, max |-> Quotient(rate * 17, 16)]
    BY <1>2, <1>5 DEF RateControl
  <2> QED BY <1>3, <2>1
<1>6. CASE mode = "CQP"
  <2>1. RateControl(mode, rate) = [min |-> -1, target |-> -1, max |-> -1]
    BY <1>6 DEF RateControl
  <2> QED BY <2>1
<1> QED BY <1>4, <1>5, <1>6

LEMMA HandlesBackHold == PortsInv => HandlesBack
BY DEF PortsInv, PortsTypeOK, HandleInv, HandlesBack

(* A port never refuses a buffer that it has, no buffer is in two hands,   *)
(* frames are not skipped before the first stop, the bit rates that mpp is *)
(* asked for are ordered, and what was opened is closed.                   *)
THEOREM PortsAreKept == NodesSpec => []CodecsKept
<1>1. NodesInit => PortsInv /\ Unfollowed
  BY PortsInitInv DEF NodesInit, Init, Unfollowed
<1>2. PortsInv /\ Unfollowed /\ [NodesNext]_<<part, vars, busVars, fileVars>> => (PortsInv /\ Unfollowed)'
  <2> SUFFICES ASSUME PortsInv, Unfollowed, [NodesNext]_<<part, vars, busVars, fileVars>>
               PROVE  PortsInv' /\ Unfollowed'
    OBVIOUS
  <2>1. [Next]_vars
    BY DEF NodesNext
  <2>2. PortsTypeOK
    BY DEF PortsInv
  <2> QED BY <2>1, <2>2, StepPortsInv, StepUnfollowed
<1>3. PortsInv /\ Unfollowed => CodecsKept
  BY PortsServeHolds, OneHolderHolds, NothingSkippedHolds, RatesOrderedHold, HandlesBackHold DEF CodecsKept
<1> QED BY <1>1, <1>2, <1>3, PTL DEF NodesSpec

-------------------------------------------------------------------------------
(***************************************************************************)
(* The tracks of a file.                                                   *)
(***************************************************************************)
Fates   == {"open", "lost", "closed", "twice"}
Raws    == [stream_index : Int, data : Int, pts : Int, dts : Int]
Inputs  == [data : Int, pts : Int, dts : Int]
Packets == [mType : T!Media \union {NULL}, mTrackIndex : Int, mData : Int \union {NULL},
            mPts : Int, mDts : Int]

TrackTypes ==
    /\ Len(file) \in 0..MaxStreams /\ avfc \in Seq(Fates)
    /\ mIndex \in [T!Indexed -> Int] /\ looping \in BOOLEAN /\ mEosFlag \in BOOLEAN
    /\ reads \in Seq(Raws) /\ fed \in [T!Media -> Seq(Inputs)] /\ cache \in [T!Media -> Seq(Packets)]

(* Only the format that the demuxer holds is open.                         *)
FormatInv ==
    /\ demuxer # NULL => demuxer \in DOMAIN avfc
    /\ mFormatCtx # NULL => demuxer = mFormatCtx /\ mFormatCtx \in DOMAIN avfc /\ avfc[mFormatCtx] = "open"
    /\ \A i \in DOMAIN avfc : avfc[i] # "twice" /\ (avfc[i] = "open" => mFormatCtx = i)

(* The index of a type is that of a stream of the type, if there is one.   *)
IndexInv ==
    demuxer # NULL =>
        \A t \in T!Media : IF T!OfType(t) = {} THEN mIndex[t] = -1 ELSE mIndex[t] \in T!OfType(t)

ReadInv ==
    \A n \in DOMAIN reads : /\ reads[n].stream_index \in T!Streams
                            /\ reads[n] = T!RawPacket(reads[n].stream_index, n)

(* The time of the n-th packet, from the start of its stream.              *)
TimeOf(rs, n, time) ==
    (time - T!StartTime(rs[n].stream_index)) * Units[rs[n].stream_index + 1]
IsRead(rs, n, pts, dts) == pts = TimeOf(rs, n, rs[n].pts) /\ dts = TimeOf(rs, n, rs[n].dts)

(* What was fed of a type: what was read, as far as it goes.               *)
FedInOrder(read, rs, f) ==
    /\ \A k \in DOMAIN f : f[k].data \in read /\ IsRead(rs, f[k].data, f[k].pts, f[k].dts)
    /\ \A j, k \in DOMAIN f : j < k => f[j].data < f[k].data
    /\ \A k \in DOMAIN f : \A m \in read : m < f[k].data => \E j \in DOMAIN f : f[j].data = m

(* What is cached follows what was fed, and comes to all that was read     *)
(* while the thread runs; nothing follows the end.                         *)
CachedNext(read, rs, f, c, loops, eos) ==
    /\ ~loops => c = <<>>
    /\ \A k \in DOMAIN c :
         \/ c[k].mData = NULL /\ eos /\ k = Len(c)
         \/ c[k].mData \in read /\ IsRead(rs, c[k].mData, c[k].mPts, c[k].mDts)
    /\ \A j, k \in DOMAIN c : j < k /\ c[j].mData # NULL /\ c[k].mData # NULL => c[j].mData < c[k].mData
    /\ \A j \in DOMAIN f, k \in DOMAIN c : c[k].mData # NULL => f[j].data < c[k].mData
    /\ loops => \A m \in read : \/ \E k \in DOMAIN f : f[k].data = m
                                \/ \E k \in DOMAIN c : c[k].mData = m

PacketInv ==
    \A t \in T!Media : /\ FedInOrder(T!ReadOf(t), reads, fed[t])
                       /\ CachedNext(T!ReadOf(t), reads, fed[t], cache[t], looping, mEosFlag)

TracksInv == TrackTypes /\ FormatInv /\ IndexInv /\ ReadInv /\ PacketInv /\ T!DecoderFitsTrack

-----------------------------------------------------------------------------
(* What is left alone.                                                     *)

LEMMA PacketsStay ==
    ASSUME PacketInv, ReadInv, UNCHANGED <<file, reads, fed, cache, looping, mEosFlag>>
    PROVE  PacketInv' /\ ReadInv'
<1>1. \A t \in T!Media : T!ReadOf(t)' = T!ReadOf(t)
  BY DEF T!ReadOf, T!Type
<1>2. PacketInv'
  BY <1>1 DEF PacketInv
<1>3. ReadInv'
  BY DEF ReadInv, T!Streams
<1> QED BY <1>2, <1>3

LEMMA IndexStays ==
    ASSUME IndexInv, UNCHANGED <<file, mIndex>>, demuxer' \in {demuxer, NULL}
    PROVE  IndexInv'
BY DEF IndexInv, T!OfType, T!Streams, T!Type

LEMMA DecodersStay ==
    ASSUME T!DecoderFitsTrack, UNCHANGED <<file, mIndex, decoder>>
    PROVE  T!DecoderFitsTrack'
BY DEF T!DecoderFitsTrack, T!OfType, T!Streams, T!Type

LEMMA FormatStays ==
    ASSUME FormatInv, UNCHANGED <<avfc, demuxer, mFormatCtx>>
    PROVE  FormatInv'
BY DEF FormatInv

(* Where nothing was read, or nothing is cached any more.                  *)
LEMMA NothingCached ==
    ASSUME ReadInv, PacketInv, UNCHANGED <<file, reads, fed>>, looping' = FALSE,
           cache' = [t \in T!Media |-> <<>>]
    PROVE  PacketInv' /\ ReadInv'
<1>1. \A t \in T!Media : T!ReadOf(t)' = T!ReadOf(t)
  BY DEF T!ReadOf, T!Type
<1>2. \A t \in T!Media : cache'[t] = <<>> /\ DOMAIN <<>> = {}
  OBVIOUS
<1>3. ASSUME NEW t \in T!Media
      PROVE  CachedNext(T!ReadOf(t), reads, fed[t], <<>>, FALSE, mEosFlag')
  BY <1>2 DEF CachedNext
<1>4. PacketInv'
  BY <1>1, <1>2, <1>3 DEF PacketInv
<1>5. ReadInv'
  BY DEF ReadInv, T!Streams
<1> QED BY <1>4, <1>5

LEMMA TracksInit == T!Init => TracksInv
<1> SUFFICES ASSUME T!Init PROVE TracksInv
  OBVIOUS
<1>1. TrackTypes
  <2>1. MaxStreams \in Nat /\ Len(<<>>) = 0
    BY TracksAssumption
  <2>2. <<>> \in Seq(Fates) /\ <<>> \in Seq(Raws) /\ <<>> \in Seq(Inputs) /\ <<>> \in Seq(Packets)
    OBVIOUS
  <2>3. file = <<>> /\ avfc = <<>> /\ reads = <<>> /\ looping = FALSE /\ mEosFlag = FALSE
    BY DEF T!Init
  <2>4. mIndex \in [T!Indexed -> Int]
    BY DEF T!Init
  <2>5. fed \in [T!Media -> Seq(Inputs)] /\ cache \in [T!Media -> Seq(Packets)]
    BY <2>2 DEF T!Init
  <2>6. Len(file) \in 0..MaxStreams /\ avfc \in Seq(Fates) /\ reads \in Seq(Raws)
    BY <2>1, <2>2, <2>3
  <2> QED BY <2>3, <2>4, <2>5, <2>6 DEF TrackTypes
<1>2. FormatInv /\ IndexInv /\ T!DecoderFitsTrack
  BY DEF T!Init, FormatInv, IndexInv, T!DecoderFitsTrack
<1>3. ReadInv
  BY DEF T!Init, ReadInv
<1>4. PacketInv
  <2> SUFFICES ASSUME NEW t \in T!Media
               PROVE  /\ FedInOrder(T!ReadOf(t), reads, fed[t])
                      /\ CachedNext(T!ReadOf(t), reads, fed[t], cache[t], looping, mEosFlag)
    BY DEF PacketInv
  <2>1. fed[t] = <<>> /\ cache[t] = <<>> /\ looping = FALSE /\ DOMAIN <<>> = {}
    BY DEF T!Init
  <2> QED BY <2>1 DEF FedInOrder, CachedNext
<1> QED BY <1>1, <1>2, <1>3, <1>4 DEF TracksInv

LEMMA ClosedInv ==
    ASSUME TrackTypes, FormatInv, T!onReset, demuxer' = demuxer \/ (demuxer' = NULL /\ mFormatCtx' = NULL)
    PROVE  avfc' \in Seq(Fates) /\ FormatInv' /\ mFormatCtx' = NULL /\ cache' = [t \in T!Media |-> <<>>]
<1>1. CASE mFormatCtx = NULL
  BY <1>1 DEF T!onReset, FormatInv, TrackTypes
<1>2. CASE mFormatCtx # NULL
  <2>1. mFormatCtx \in DOMAIN avfc /\ avfc[mFormatCtx] = "open" /\ avfc \in Seq(Fates)
    BY <1>2 DEF FormatInv, TrackTypes
  <2>2. avfc' = [avfc EXCEPT ![mFormatCtx] = "closed"] /\ mFormatCtx' = NULL
        /\ cache' = [t \in T!Media |-> <<>>]
    BY <1>2, <2>1 DEF T!onReset, T!Close
  <2>3. avfc' \in Seq(Fates) /\ DOMAIN avfc' = DOMAIN avfc
    BY <2>1, <2>2 DEF Fates
  <2>4. \A i \in DOMAIN avfc : avfc'[i] # "twice" /\ avfc'[i] # "open"
    BY <2>1, <2>2 DEF FormatInv
  <2> QED BY <2>2, <2>3, <2>4 DEF FormatInv
<1> QED BY <1>1, <1>2

-----------------------------------------------------------------------------
(* The file and its decoders.                                              *)

LEMMA BestIsOfType ==
    ASSUME NEW n \in Nat, NEW streams, NEW t, NEW best \in T!fa_format_find_best_track(streams, t),
           Len(streams) = n
    PROVE  LET S == {s \in 0..(n - 1) : streams[s + 1] = t}
           IN  IF S = {} THEN best = -1 ELSE best \in S
<1> DEFINE S == {s \in 0..(n - 1) : streams[s + 1] = t}
<1>1. best \in S \union {T!First(S)}
  BY DEF T!fa_format_find_best_track, T!fa_format_find_track
<1>2. CASE S = {}
  BY <1>1, <1>2 DEF T!First
<1>3. CASE S # {}
  <2>1. IsWellFoundedOn(OpToRel(<, Nat), Nat)
    BY NatLessThanWellFounded
  <2>2. S \subseteq Nat
    OBVIOUS
  <2> HIDE DEF S
  <2>3. PICK m \in S : \A r \in S : ~(<<r, m>> \in OpToRel(<, Nat))
    BY <1>3, <2>1, <2>2, WFMin
  <2>4. \A r \in S : m <= r
    <3> SUFFICES ASSUME NEW r \in S, ~(m <= r) PROVE FALSE
      OBVIOUS
    <3>1. r \in Nat /\ m \in Nat /\ r < m
      BY <2>2
    <3>2. <<r, m>> \in OpToRel(<, Nat)
      BY <3>1 DEF OpToRel
    <3> QED BY <2>3, <3>2
  <2>5. T!First(S) \in S
    BY <1>3, <2>4 DEF T!First
  <2>6. best \in S
    BY <1>1, <2>5
  <2> QED BY <1>3, <2>6 DEF S
<1> QED BY <1>2, <1>3

LEMMA TracksOpen == TracksInv /\ T!FFNodeDemuxer_init => TracksInv'
<1> SUFFICES ASSUME TracksInv, T!FFNodeDemuxer_init PROVE TracksInv'
  OBVIOUS
<1>0. TrackTypes /\ FormatInv
  BY DEF TracksInv
<1> PICK n \in 1..MaxStreams : \E streams \in [1..n -> Kinds] :
        /\ file' = streams
        /\ mIndex' \in {best \in [T!Indexed -> -1..(n - 1)] :
              \A t \in T!Indexed : best[t] \in T!fa_format_find_best_track(streams, t)}
  BY DEF T!FFNodeDemuxer_init
<1>1. PICK streams \in [1..n -> Kinds] :
        /\ file' = streams
        /\ mIndex' \in {best \in [T!Indexed -> -1..(n - 1)] :
              \A t \in T!Indexed : best[t] \in T!fa_format_find_best_track(streams, t)}
  OBVIOUS
<1>2. n \in Nat /\ n <= MaxStreams /\ Len(streams) = n /\ Len(file') \in 0..MaxStreams
  BY <1>1, TracksAssumption
<1>3. /\ demuxer = NULL /\ demuxer' = Len(avfc) + 1 /\ mFormatCtx' = Len(avfc) + 1
      /\ avfc' = Append(avfc, "open") /\ looping' = FALSE /\ mEosFlag' = FALSE /\ reads' = <<>>
      /\ cache' = [t \in T!Media |-> <<>>] /\ fed' = [t \in T!Media |-> <<>>]
      /\ decoder' = [t \in T!Media |-> NULL]
  BY DEF T!FFNodeDemuxer_init, T!FreshNode
<1>4. avfc \in Seq(Fates) /\ "open" \in Fates
  BY <1>0 DEF TrackTypes, Fates
<1>5. TrackTypes'
  <2>1. mIndex' \in [T!Indexed -> Int]
    BY <1>1, <1>2
  <2>2. <<>> \in Seq(Raws) /\ <<>> \in Seq(Inputs) /\ <<>> \in Seq(Packets) /\ avfc' \in Seq(Fates)
    BY <1>3, <1>4
  <2>3. fed' \in [T!Media -> Seq(Inputs)] /\ cache' \in [T!Media -> Seq(Packets)]
    BY <1>3, <2>2
  <2> QED BY <1>2, <1>3, <2>1, <2>2, <2>3 DEF TrackTypes
<1>6. FormatInv'
  <2>1. /\ DOMAIN avfc' = 1..(Len(avfc) + 1) /\ Len(avfc) \in Nat /\ avfc'[Len(avfc) + 1] = "open"
        /\ \A i \in 1..Len(avfc) : avfc'[i] = avfc[i] /\ i \in DOMAIN avfc
    BY <1>3, <1>4
  <2>2. mFormatCtx = NULL
    BY <1>0, <1>3 DEF FormatInv
  <2>3. \A i \in 1..Len(avfc) : avfc[i] # "twice" /\ avfc[i] # "open"
    <3> SUFFICES ASSUME NEW i \in 1..Len(avfc) PROVE avfc[i] # "twice" /\ avfc[i] # "open"
      OBVIOUS
    <3>1. i # NULL
      BY <2>1, TracksAssumption
    <3> QED BY <1>0, <2>1, <2>2, <3>1 DEF FormatInv
  <2> QED BY <1>3, <2>1, <2>3 DEF FormatInv
<1>7. IndexInv'
  <2> SUFFICES ASSUME NEW t \in T!Media
               PROVE  IF T!OfType(t)' = {} THEN mIndex'[t] = -1 ELSE mIndex'[t] \in T!OfType(t)'
    BY DEF IndexInv
  <2>1. mIndex'[t] \in T!fa_format_find_best_track(streams, t)
    BY <1>1 DEF T!Indexed
  <2>2. T!OfType(t)' = {s \in 0..(n - 1) : streams[s + 1] = t}
    BY <1>1, <1>2 DEF T!OfType, T!Streams, T!Type
  <2> QED BY <1>2, <2>1, <2>2, BestIsOfType
<1>8. ReadInv' /\ T!DecoderFitsTrack'
  BY <1>3 DEF ReadInv, T!DecoderFitsTrack
<1>9. PacketInv'
  <2> SUFFICES ASSUME NEW t \in T!Media
               PROVE  /\ FedInOrder(T!ReadOf(t)', reads', fed'[t])
                      /\ CachedNext(T!ReadOf(t)', reads', fed'[t], cache'[t], looping', mEosFlag')
    BY DEF PacketInv
  <2>1. fed'[t] = <<>> /\ cache'[t] = <<>> /\ DOMAIN <<>> = {}
    BY <1>3
  <2> QED BY <1>3, <2>1 DEF FedInOrder, CachedNext
<1> QED BY <1>5, <1>6, <1>7, <1>8, <1>9 DEF TracksInv

LEMMA TracksOpenFails == TracksInv /\ T!fa_format_open => TracksInv'
<1> SUFFICES ASSUME TracksInv, T!fa_format_open PROVE TracksInv'
  OBVIOUS
<1>0. /\ TrackTypes /\ FormatInv /\ IndexInv /\ ReadInv /\ PacketInv /\ T!DecoderFitsTrack
      /\ demuxer = NULL
      /\ UNCHANGED <<file, demuxer, mFormatCtx, mIndex, looping, mEosFlag, cache, reads, decoder, fed>>
  BY DEF TracksInv, T!fa_format_open
<1>1. PICK fate \in {"closed", "lost"} : avfc' = Append(avfc, fate)
  BY DEF T!fa_format_open
<1>2. avfc \in Seq(Fates) /\ fate \in Fates
  BY <1>0 DEF TrackTypes, Fates
<1>3. avfc' \in Seq(Fates)
  BY <1>1, <1>2
<1>4. TrackTypes'
  BY <1>0, <1>3 DEF TrackTypes
<1>5. FormatInv'
  <2>1. /\ DOMAIN avfc' = 1..(Len(avfc) + 1) /\ Len(avfc) \in Nat /\ avfc'[Len(avfc) + 1] = fate
        /\ \A i \in 1..Len(avfc) : avfc'[i] = avfc[i] /\ i \in DOMAIN avfc
    BY <1>1, <1>2
  <2>2. mFormatCtx = NULL /\ fate # "open" /\ fate # "twice"
    BY <1>0 DEF FormatInv
  <2>3. \A i \in DOMAIN avfc' : avfc'[i] # "twice" /\ (avfc'[i] = "open" => mFormatCtx = i)
    BY <1>0, <2>1, <2>2 DEF FormatInv
  <2> QED BY <1>0, <2>2, <2>3 DEF FormatInv
<1> QED BY <1>0, <1>4, <1>5, PacketsStay, IndexStays, DecodersStay DEF TracksInv

LEMMA TracksRelease == TracksInv /\ T!FFNodeDemuxer_release => TracksInv'
<1> SUFFICES ASSUME TracksInv, T!FFNodeDemuxer_release PROVE TracksInv'
  OBVIOUS
<1>0. /\ TrackTypes /\ FormatInv /\ IndexInv /\ ReadInv /\ PacketInv /\ T!DecoderFitsTrack
      /\ demuxer' = NULL /\ ~looping /\ T!onReset
      /\ UNCHANGED <<file, mIndex, looping, mEosFlag, reads, decoder, fed>>
  BY DEF TracksInv, T!FFNodeDemuxer_release
<1>1. mFormatCtx' = NULL
  BY <1>0 DEF T!onReset
<1>2. avfc' \in Seq(Fates) /\ FormatInv' /\ cache' = [t \in T!Media |-> <<>>]
  BY <1>0, <1>1, ClosedInv
<1>3. <<>> \in Seq(Packets)
  OBVIOUS
<1>4. TrackTypes'
  BY <1>0, <1>2, <1>3 DEF TrackTypes
<1>5. looping' = FALSE
  BY <1>0, <1>4 DEF TrackTypes
<1> QED BY <1>0, <1>2, <1>4, <1>5, NothingCached, IndexStays, DecodersStay DEF TracksInv

LEMMA TracksSelect == TracksInv /\ T!selectTrack => TracksInv'
<1> SUFFICES ASSUME TracksInv, T!selectTrack PROVE TracksInv'
  OBVIOUS
<1>0. /\ TrackTypes /\ FormatInv /\ IndexInv /\ ReadInv /\ PacketInv
      /\ demuxer # NULL /\ decoder = [t \in T!Media |-> NULL]
      /\ UNCHANGED <<file, avfc, demuxer, mFormatCtx, looping, mEosFlag, cache, reads, decoder, fed>>
  BY DEF TracksInv, T!selectTrack
<1> PICK t \in T!Media : \E s \in T!OfType(t) : mIndex' = [mIndex EXCEPT ![t] = s]
  BY DEF T!selectTrack
<1>1. PICK s \in T!OfType(t) : mIndex' = [mIndex EXCEPT ![t] = s]
  OBVIOUS
<1>2. s \in Int /\ t \in T!Indexed
  BY <1>0, <1>1 DEF TrackTypes, T!OfType, T!Streams, T!Indexed
<1>3. /\ mIndex' \in [T!Indexed -> Int] /\ mIndex'[t] = s
      /\ \A r \in T!Media : r # t => mIndex'[r] = mIndex[r]
  BY <1>0, <1>1, <1>2 DEF TrackTypes, T!Indexed
<1>4. TrackTypes'
  BY <1>0, <1>3 DEF TrackTypes
<1>5. \A r \in T!Media : T!OfType(r)' = T!OfType(r)
  BY <1>0 DEF T!OfType, T!Streams, T!Type
<1>6. IndexInv'
  <2> SUFFICES ASSUME NEW r \in T!Media
               PROVE  IF T!OfType(r) = {} THEN mIndex'[r] = -1 ELSE mIndex'[r] \in T!OfType(r)
    BY <1>5 DEF IndexInv
  <2>1. CASE r = t
    BY <1>1, <1>3, <2>1
  <2>2. CASE r # t
    BY <1>0, <1>3, <2>2 DEF IndexInv
  <2> QED BY <2>1, <2>2
<1>7. T!DecoderFitsTrack'
  BY <1>0 DEF T!DecoderFitsTrack
<1> QED BY <1>0, <1>4, <1>6, <1>7, PacketsStay, FormatStays DEF TracksInv

(* The decoder of a type: what it is made of is the used stream's.         *)
LEMMA DecoderOf ==
    ASSUME TrackTypes, IndexInv, demuxer # NULL, mFormatCtx # NULL, NEW t \in T!Media
    PROVE  /\ T!OfType(t) = {} => T!Decoder(t) = NULL
           /\ T!OfType(t) # {} =>
                /\ T!Decoder(t) # NULL /\ T!Decoder(t).track.mCodecType = t
                /\ \A f \in T!Common \union T!OwnFields(t) : T!Decoder(t).track.of[f] = mIndex[t]
                /\ \A f \in DOMAIN T!Decoder(t).context : T!Decoder(t).context[f] = mIndex[t]
<1> DEFINE own == T!Common \union T!OwnFields(t)
<1>0. t \in T!Indexed /\ T!queryTrackUsed(t) = mIndex[t] /\ mIndex[t] \in Int
  BY DEF T!queryTrackUsed, T!Indexed, TrackTypes
<1>1. ASSUME T!OfType(t) = {} PROVE T!Decoder(t) = NULL
  <2>1. mIndex[t] < 0
    BY <1>1 DEF IndexInv
  <2> QED BY <1>0, <2>1 DEF T!Decoder
<1>2. ASSUME T!OfType(t) # {}
      PROVE  /\ T!Decoder(t) # NULL /\ T!Decoder(t).track.mCodecType = t
             /\ \A f \in own : T!Decoder(t).track.of[f] = mIndex[t]
             /\ \A f \in DOMAIN T!Decoder(t).context : T!Decoder(t).context[f] = mIndex[t]
  <2> PICK idx : idx = mIndex[t]
    OBVIOUS
  <2>1. idx \in T!Streams /\ T!Type(idx) = t /\ idx \in Int /\ ~(idx < 0)
    BY <1>0, <1>2 DEF IndexInv, T!OfType, T!Streams
  <2>2. T!fa_format_query_track(idx, t) = [mCodecType |-> t, of |-> [f \in T!Fields |-> idx]]
    <3> DEFINE hits == {s \in T!Streams : T!Type(s) = t /\ T!Counted(s, t) - 1 = idx}
    <3>1. \A s \in hits : s = idx
      BY <2>1 DEF T!Counted, T!Streams
    <3>2. idx \in hits
      BY <2>1 DEF T!Counted
    <3> HIDE DEF hits
    <3>3. (CHOOSE s \in hits : TRUE) = idx /\ hits # {}
      BY <3>1, <3>2
    <3>4. T!fa_format_query_track(idx, t) = T!fa_format_build_track_meta(CHOOSE s \in hits : TRUE)
      BY <3>3 DEF T!fa_format_query_track, hits
    <3> QED BY <2>1, <3>3, <3>4 DEF T!fa_format_build_track_meta
  <2>3. own \subseteq T!Fields
    BY DEF T!Fields, T!OwnFields
  <2>4. T!queryTrackMeta(idx, t) = [mCodecType |-> t, of |-> [f \in own |-> idx]]
    BY <2>2, <2>3 DEF T!queryTrackMeta, T!rt_medatdata_from_trackpar
  <2> PICK meta : meta = T!queryTrackMeta(idx, t)
    OBVIOUS
  <2>5. meta.mCodecType = t /\ DOMAIN meta.of = own /\ \A f \in own : meta.of[f] = idx
    BY <2>4
  <2> PICK track : track = T!rt_medatdata_goto_trackpar(meta)
    OBVIOUS
  <2>6. track = [mCodecType |-> t, of |-> [f \in T!Fields |-> IF f \in own THEN idx ELSE -1]]
    BY <2>5 DEF T!rt_medatdata_goto_trackpar, T!Find, T!Zero
  <2>7. track \in [mCodecType : T!Media, of : [T!Fields -> Int]]
    BY <2>1, <2>6
  <2>8. PICK context, F : /\ T!Decoder(t) = [track |-> track, context |-> context]
                          /\ F \subseteq own /\ context = [f \in F |-> idx]
    <3>1. CASE t = "audio"
      <4>1. {"ExtraData", "Channels", "SampleRate", "Bitrate", "BitsPerCodedSample"} \subseteq own
        BY <3>1 DEF T!OwnFields, T!Common
      <4>2. T!fa_init_audio_params_from_metadata(meta)
             = [f \in {"ExtraData", "Channels", "SampleRate", "Bitrate", "BitsPerCodedSample"} |-> idx]
        BY <2>5, <4>1 DEF T!fa_init_audio_params_from_metadata, T!Find
      <4>3. T!Decoder(t) = [track |-> track, context |-> T!fa_init_audio_params_from_metadata(meta)]
        BY <1>0, <2>1, <2>5, <3>1 DEF T!Decoder
      <4> QED BY <4>1, <4>2, <4>3
    <3>2. CASE t = "video"
      <4>1. {"ExtraData", "Width", "Height"} \subseteq own
        BY <3>2 DEF T!OwnFields, T!Common
      <4>2. [f \in {"ExtraData", "Width", "Height"} |-> T!Find(meta, f, T!Zero)]
             = [f \in {"ExtraData", "Width", "Height"} |-> idx]
        BY <2>5, <4>1 DEF T!Find
      <4>3. T!Decoder(t) = [track |-> track,
                            context |-> [f \in {"ExtraData", "Width", "Height"} |-> T!Find(meta, f, T!Zero)]]
        BY <1>0, <2>1, <2>5, <3>2 DEF T!Decoder
      <4> QED BY <4>1, <4>2, <4>3
    <3> QED BY <3>1, <3>2 DEF T!Media
  <2>9. T!Decoder(t) # NULL
    <3>1. F \in SUBSET T!Fields /\ context \in [F -> Int]
      BY <2>1, <2>3, <2>8
    <3>2. context \in UNION {[G -> Int] : G \in SUBSET T!Fields}
      BY <3>1
    <3>3. T!Decoder(t) \in T!Decoders
      BY <2>7, <2>8, <3>2 DEF T!Decoders
    <3> QED BY <3>3, TracksAssumption
  <2>10. track.mCodecType = t /\ \A f \in own : track.of[f] = idx
    BY <2>3, <2>6
  <2>11. \A f \in DOMAIN context : context[f] = idx
    BY <2>8
  <2> QED BY <2>8, <2>9, <2>10, <2>11
<1> QED BY <1>1, <1>2

LEMMA TracksMake == TracksInv /\ T!MakeDecoders => TracksInv'
<1> SUFFICES ASSUME TracksInv, T!MakeDecoders PROVE TracksInv'
  OBVIOUS
<1>0. /\ TrackTypes /\ FormatInv /\ IndexInv /\ ReadInv /\ PacketInv
      /\ demuxer # NULL /\ mFormatCtx # NULL /\ decoder' = [t \in T!Media |-> T!Decoder(t)]
      /\ UNCHANGED <<file, avfc, demuxer, mFormatCtx, mIndex, looping, mEosFlag, cache, reads, fed>>
  BY DEF TracksInv, T!MakeDecoders
<1>1. TrackTypes'
  BY <1>0 DEF TrackTypes
<1>2. T!DecoderFitsTrack'
  <2>1. \A t \in T!Media : T!OfType(t)' = T!OfType(t)
    BY <1>0 DEF T!OfType, T!Streams, T!Type
  <2> SUFFICES ASSUME NEW t \in T!Media
               PROVE  /\ (decoder'[t] = NULL) = (T!OfType(t) = {})
                      /\ decoder'[t] # NULL =>
                           /\ decoder'[t].track.mCodecType = t
                           /\ \A f \in T!Common \union T!OwnFields(t) : decoder'[t].track.of[f] = mIndex'[t]
                           /\ \A f \in DOMAIN decoder'[t].context : decoder'[t].context[f] = mIndex'[t]
    BY <2>1 DEF T!DecoderFitsTrack
  <2>2. decoder'[t] = T!Decoder(t) /\ mIndex' = mIndex
    BY <1>0
  <2> QED BY <1>0, <2>2, DecoderOf
<1> QED BY <1>0, <1>1, <1>2, PacketsStay, FormatStays, IndexStays DEF TracksInv

LEMMA NothingReadWhole ==
    ASSUME ReadInv, PacketInv, TrackTypes, reads = <<>>, ~looping, looping' = TRUE,
           UNCHANGED <<file, reads, fed, cache, mEosFlag>>
    PROVE  PacketInv' /\ ReadInv'
<1>1. \A t \in T!Media : T!ReadOf(t)' = {} /\ T!ReadOf(t) = {}
  BY DEF T!ReadOf
<1>2. \A t \in T!Media : DOMAIN fed[t] = {} /\ cache[t] = <<>>
  BY <1>1 DEF PacketInv, FedInOrder, CachedNext
<1>3. PacketInv'
  <2> SUFFICES ASSUME NEW t \in T!Media
               PROVE  /\ FedInOrder({}, reads', fed'[t])
                      /\ CachedNext({}, reads', fed'[t], <<>>, TRUE, mEosFlag')
    BY <1>1, <1>2 DEF PacketInv
  <2>1. DOMAIN fed'[t] = {} /\ DOMAIN <<>> = {}
    BY <1>2
  <2> QED BY <2>1 DEF FedInOrder, CachedNext
<1>4. ReadInv'
  BY DEF ReadInv, T!Streams
<1> QED BY <1>3, <1>4

LEMMA TracksCommand == TracksInv /\ T!runCmd => TracksInv'
<1> SUFFICES ASSUME TracksInv, T!runCmd PROVE TracksInv'
  OBVIOUS
<1>0. /\ TrackTypes /\ FormatInv /\ IndexInv /\ ReadInv /\ PacketInv /\ T!DecoderFitsTrack
      /\ UNCHANGED <<file, demuxer, mIndex, reads, decoder, fed>>
  BY DEF TracksInv, T!runCmd
<1>1. IndexInv' /\ T!DecoderFitsTrack'
  BY <1>0, IndexStays, DecodersStay
<1>2. CASE ~looping /\ reads = <<>> /\ looping' = TRUE /\ UNCHANGED <<avfc, mFormatCtx, mEosFlag, cache>>
  <2>1. TrackTypes'
    BY <1>0, <1>2 DEF TrackTypes
  <2> QED BY <1>0, <1>1, <1>2, <2>1, NothingReadWhole, FormatStays DEF TracksInv
<1>3. CASE UNCHANGED <<avfc, mFormatCtx, looping, cache, mEosFlag>>
  <2>1. TrackTypes'
    BY <1>0, <1>3 DEF TrackTypes
  <2> QED BY <1>0, <1>1, <1>3, <2>1, PacketsStay, FormatStays DEF TracksInv
<1>4. CASE /\ looping' = FALSE /\ cache' = [t \in T!Media |-> <<>>]
           /\ UNCHANGED <<avfc, mFormatCtx, mEosFlag>>
  <2>1. <<>> \in Seq(Packets)
    OBVIOUS
  <2>2. TrackTypes'
    BY <1>0, <1>4, <2>1 DEF TrackTypes
  <2> QED BY <1>0, <1>1, <1>4, <2>2, NothingCached, FormatStays DEF TracksInv
<1>5. CASE ~looping /\ T!onReset /\ UNCHANGED <<looping, mEosFlag>>
  <2>1. <<>> \in Seq(Packets) /\ looping = FALSE
    BY <1>0, <1>5 DEF TrackTypes
  <2>2. avfc' \in Seq(Fates) /\ FormatInv' /\ cache' = [t \in T!Media |-> <<>>]
    BY <1>0, <1>5, ClosedInv
  <2>3. TrackTypes'
    BY <1>0, <1>5, <2>1, <2>2 DEF TrackTypes
  <2> QED BY <1>0, <1>1, <1>5, <2>1, <2>2, <2>3, NothingCached DEF TracksInv
<1>6. CASE looping /\ ~mEosFlag /\ mEosFlag' = FALSE /\ UNCHANGED <<avfc, mFormatCtx, cache, looping>>
  <2>1. mEosFlag' = mEosFlag
    BY <1>0, <1>6 DEF TrackTypes
  <2> QED BY <1>3, <1>6, <2>1
<1> QED BY <1>2, <1>3, <1>4, <1>5, <1>6 DEF T!runCmd

-----------------------------------------------------------------------------
(* The packets.  One that is read has the greatest number so far.          *)

LEMMA TimesStay ==
    ASSUME NEW rs, NEW now, NEW n, now[n] = rs[n], NEW pts, NEW dts, IsRead(rs, n, pts, dts)
    PROVE  IsRead(now, n, pts, dts)
BY DEF IsRead, TimeOf

LEMMA FedMore ==
    ASSUME NEW read \in SUBSET Nat, NEW rs, NEW now, NEW f \in Seq(Inputs), NEW n \in Nat,
           FedInOrder(read, rs, f), \A m \in read : m < n /\ now[m] = rs[m]
    PROVE  FedInOrder(read \union {n}, now, f) /\ FedInOrder(read, now, f)
<1>1. \A k \in DOMAIN f : f[k].data \in read /\ f[k].data < n
  BY DEF FedInOrder
<1>2. \A k \in DOMAIN f : IsRead(now, f[k].data, f[k].pts, f[k].dts)
  <2> SUFFICES ASSUME NEW k \in DOMAIN f PROVE IsRead(now, f[k].data, f[k].pts, f[k].dts)
    OBVIOUS
  <2>1. IsRead(rs, f[k].data, f[k].pts, f[k].dts) /\ now[f[k].data] = rs[f[k].data]
    BY <1>1 DEF FedInOrder
  <2> QED BY <2>1, TimesStay
<1>3. \A k \in DOMAIN f : \A m \in read \union {n} : m < f[k].data => \E j \in DOMAIN f : f[j].data = m
  <2> SUFFICES ASSUME NEW k \in DOMAIN f, NEW m \in read \union {n}, m < f[k].data
               PROVE  \E j \in DOMAIN f : f[j].data = m
    OBVIOUS
  <2>1. f[k].data \in Nat /\ f[k].data < n
    BY <1>1
  <2>2. m # n
    BY <2>1
  <2> QED BY <2>2 DEF FedInOrder
<1>4. \A j, k \in DOMAIN f : j < k => f[j].data < f[k].data
  BY DEF FedInOrder
<1> QED BY <1>1, <1>2, <1>3, <1>4 DEF FedInOrder

LEMMA CachedElse ==
    ASSUME NEW read \in SUBSET Nat, NEW rs, NEW now, NEW f, NEW c, NEW loops, NEW eos,
           CachedNext(read, rs, f, c, loops, eos), \A m \in read : now[m] = rs[m]
    PROVE  CachedNext(read, now, f, c, loops, eos)
<1>1. ASSUME NEW k \in DOMAIN c, c[k].mData \in read, IsRead(rs, c[k].mData, c[k].mPts, c[k].mDts)
      PROVE  IsRead(now, c[k].mData, c[k].mPts, c[k].mDts)
  <2>1. now[c[k].mData] = rs[c[k].mData]
    BY <1>1
  <2> QED BY <1>1, <2>1, TimesStay
<1> QED BY <1>1 DEF CachedNext

(* Where the end is not queued yet, a packet that is read is queued last.  *)
LEMMA CachedMore ==
    ASSUME NEW read \in SUBSET Nat, NEW rs, NEW now, NEW f \in Seq(Inputs), NEW c \in Seq(Packets),
           NEW n \in Nat, NEW pkt \in Packets,
           FedInOrder(read, rs, f), CachedNext(read, rs, f, c, TRUE, FALSE),
           \A m \in read : m < n /\ now[m] = rs[m],
           pkt.mData = n, IsRead(now, n, pkt.mPts, pkt.mDts)
    PROVE  CachedNext(read \union {n}, now, f, Append(c, pkt), TRUE, FALSE)
<1> PICK d : d = Append(c, pkt)
  OBVIOUS
<1>1. /\ DOMAIN c = 1..Len(c) /\ DOMAIN d = 1..(Len(c) + 1) /\ Len(d) = Len(c) + 1 /\ Len(c) \in Nat
      /\ d[Len(c) + 1] = pkt /\ \A k \in 1..Len(c) : d[k] = c[k]
  OBVIOUS
<1>2. \A k \in 1..Len(c) : c[k].mData \in read /\ IsRead(rs, c[k].mData, c[k].mPts, c[k].mDts)
  BY <1>1 DEF CachedNext
<1>3. \A k \in 1..Len(c) : c[k].mData \in Nat /\ c[k].mData < n /\ c[k].mData # NULL
  <2> SUFFICES ASSUME NEW k \in 1..Len(c)
               PROVE  c[k].mData \in Nat /\ c[k].mData < n /\ c[k].mData # NULL
    OBVIOUS
  <2> PICK x : x = c[k].mData
    OBVIOUS
  <2>1. NULL \notin Int
    BY TracksAssumption
  <2>2. x \in read /\ x \in Nat /\ x < n
    BY <1>2
  <2> QED BY <2>1, <2>2
<1>4. \A k \in 1..Len(c) : IsRead(now, c[k].mData, c[k].mPts, c[k].mDts)
  <2> SUFFICES ASSUME NEW k \in 1..Len(c) PROVE IsRead(now, c[k].mData, c[k].mPts, c[k].mDts)
    OBVIOUS
  <2>1. now[c[k].mData] = rs[c[k].mData]
    BY <1>2
  <2> QED BY <1>2, <2>1, TimesStay
<1>5. \A k \in DOMAIN d : d[k].mData \in read \union {n} /\ IsRead(now, d[k].mData, d[k].mPts, d[k].mDts)
  <2> SUFFICES ASSUME NEW k \in DOMAIN d
               PROVE  d[k].mData \in read \union {n} /\ IsRead(now, d[k].mData, d[k].mPts, d[k].mDts)
    OBVIOUS
  <2>1. CASE k \in 1..Len(c)
    BY <1>1, <1>2, <1>4, <2>1
  <2>2. CASE k = Len(c) + 1
    BY <1>1, <2>2
  <2> QED BY <1>1, <2>1, <2>2
<1>6. \A j, k \in DOMAIN d : j < k => d[j].mData < d[k].mData
  <2> SUFFICES ASSUME NEW j \in DOMAIN d, NEW k \in DOMAIN d, j < k PROVE d[j].mData < d[k].mData
    OBVIOUS
  <2>1. j \in 1..Len(c)
    BY <1>1
  <2>2. CASE k \in 1..Len(c)
    <3>1. c[j].mData < c[k].mData
      BY <1>1, <1>3, <2>1, <2>2 DEF CachedNext
    <3> QED BY <1>1, <2>1, <2>2, <3>1
  <2>3. CASE k = Len(c) + 1
    BY <1>1, <1>3, <2>1, <2>3
  <2> QED BY <1>1, <2>2, <2>3
<1>7. \A j \in DOMAIN f, k \in DOMAIN d : f[j].data < d[k].mData
  <2> SUFFICES ASSUME NEW j \in DOMAIN f, NEW k \in DOMAIN d PROVE f[j].data < d[k].mData
    OBVIOUS
  <2>1. CASE k \in 1..Len(c)
    <3>1. f[j].data < c[k].mData
      BY <1>1, <1>3, <2>1 DEF CachedNext
    <3> QED BY <1>1, <2>1, <3>1
  <2>2. CASE k = Len(c) + 1
    <3>1. f[j].data \in read
      BY DEF FedInOrder
    <3> QED BY <1>1, <2>2, <3>1
  <2> QED BY <1>1, <2>1, <2>2
<1>8. \A m \in read \union {n} : (\E k \in DOMAIN f : f[k].data = m) \/ (\E k \in DOMAIN d : d[k].mData = m)
  <2> SUFFICES ASSUME NEW m \in read \union {n}, \A k \in DOMAIN f : f[k].data # m
               PROVE  \E k \in DOMAIN d : d[k].mData = m
    OBVIOUS
  <2>1. CASE m = n
    BY <1>1, <2>1
  <2>2. CASE m \in read
    <3>1. PICK k \in DOMAIN c : c[k].mData = m
      BY <2>2 DEF CachedNext
    <3>2. k \in DOMAIN d /\ d[k] = c[k]
      BY <1>1
    <3> QED BY <3>1, <3>2
  <2> QED BY <2>1, <2>2
<1>9. CachedNext(read \union {n}, now, f, d, TRUE, FALSE)
  BY <1>5, <1>6, <1>7, <1>8 DEF CachedNext
<1> QED BY <1>9

LEMMA ParsedTimes ==
    ASSUME TrackTypes, NEW s \in T!Streams, NEW n \in Nat, NEW now,
           NEW raw, raw = T!RawPacket(s, n), now[n] = raw,
           NEW pkt, pkt = T!fa_format_packet_parse(raw)
    PROVE  /\ IsRead(now, n, pkt.mPts, pkt.mDts) /\ pkt.mData = n
           /\ T!Type(s) \in T!Media => pkt \in Packets
           /\ raw \in Raws
<1>1. s \in Int /\ s + 1 \in 1..MaxStreams
  BY TracksAssumption DEF T!Streams, TrackTypes
<1>2. T!StartTime(s) \in Int /\ Units[s + 1] \in Int
  BY <1>1, TracksAssumption DEF T!StartTime
<1> PICK a : a = T!StartTime(s)
  OBVIOUS
<1> PICK u : u = Units[s + 1]
  OBVIOUS
<1>3. a \in Int /\ u \in Int /\ a + n \in Int
  BY <1>2
<1>4. raw = [stream_index |-> s, data |-> n, pts |-> a + n, dts |-> a + n]
  BY DEF T!RawPacket
<1> PICK time : time = (a + n) * u - a * u
  OBVIOUS
<1>5. \A x, y, z \in Int : x * z - y * z = (x - y) * z /\ x * z - y * z \in Int
  OBVIOUS
<1>6. time = ((a + n) - a) * u /\ time \in Int
  BY <1>3, <1>5
<1>7. pkt = [mType |-> T!Type(s), mTrackIndex |-> s, mData |-> n, mPts |-> time, mDts |-> time]
  BY <1>4 DEF T!fa_format_packet_parse
<1>8. TimeOf(now, n, a + n) = ((a + n) - a) * u
  BY <1>4 DEF TimeOf
<1>9. IsRead(now, n, time, time)
  BY <1>4, <1>6, <1>8 DEF IsRead
<1>10. raw \in Raws
  BY <1>1, <1>3, <1>4 DEF Raws
<1>11. T!Type(s) \in T!Media => pkt \in Packets
  BY <1>1, <1>6, <1>7 DEF Packets
<1>12. pkt.mPts = time /\ pkt.mDts = time /\ pkt.mData = n
  BY <1>7
<1> QED BY <1>9, <1>10, <1>11, <1>12

LEMMA TracksQueue == ASSUME TracksInv, NEW s \in T!Streams, T!queuePacket(s) PROVE TracksInv'
<1> PICK n : n = Len(reads) + 1
  OBVIOUS
<1> PICK raw : raw = T!RawPacket(s, n)
  OBVIOUS
<1> PICK pkt : pkt = T!fa_format_packet_parse(raw)
  OBVIOUS
<1>0. /\ TrackTypes /\ FormatInv /\ IndexInv /\ ReadInv /\ PacketInv /\ T!DecoderFitsTrack
      /\ looping = TRUE /\ mEosFlag = FALSE /\ reads' = Append(reads, raw)
      /\ cache' = IF T!Type(s) \in T!Media THEN [cache EXCEPT ![T!Type(s)] = Append(@, pkt)] ELSE cache
      /\ UNCHANGED <<file, avfc, demuxer, mFormatCtx, mIndex, looping, mEosFlag, decoder, fed>>
  BY DEF TracksInv, T!queuePacket, TrackTypes
<1>1. reads \in Seq(Raws) /\ n \in Nat /\ DOMAIN reads = 1..(n - 1) /\ n - 1 \in Nat
  BY <1>0 DEF TrackTypes
<1> PICK now : now = reads'
  OBVIOUS
<1>2. DOMAIN now = 1..n /\ now[n] = raw /\ \A m \in DOMAIN reads : m < n /\ now[m] = reads[m]
  BY <1>0, <1>1
<1>3. /\ IsRead(now, n, pkt.mPts, pkt.mDts) /\ pkt.mData = n
      /\ T!Type(s) \in T!Media => pkt \in Packets
      /\ raw \in Raws
  <2>1. TrackTypes /\ n \in Nat /\ now[n] = raw /\ raw = T!RawPacket(s, n)
        /\ pkt = T!fa_format_packet_parse(raw)
    BY <1>0, <1>1, <1>2
  <2> QED BY <2>1, ParsedTimes
<1>4. raw.stream_index = s
  BY DEF T!RawPacket
<1>6. /\ \A t \in T!Media : t # T!Type(s) => cache'[t] = cache[t]
      /\ T!Type(s) \in T!Media => cache'[T!Type(s)] = Append(cache[T!Type(s)], pkt)
      /\ cache' \in [T!Media -> Seq(Packets)]
  <2>1. cache \in [T!Media -> Seq(Packets)]
    BY <1>0 DEF TrackTypes
  <2>2. CASE T!Type(s) \in T!Media
    <3>1. cache' = [cache EXCEPT ![T!Type(s)] = Append(cache[T!Type(s)], pkt)]
      BY <1>0, <2>2
    <3>2. Append(cache[T!Type(s)], pkt) \in Seq(Packets)
      BY <1>3, <2>1, <2>2
    <3> QED BY <2>1, <2>2, <3>1, <3>2
  <2>3. CASE T!Type(s) \notin T!Media
    BY <1>0, <2>1, <2>3
  <2> QED BY <2>2, <2>3
<1>7. TrackTypes'
  <2>1. reads' \in Seq(Raws)
    BY <1>0, <1>1, <1>3
  <2> QED BY <1>0, <1>6, <2>1 DEF TrackTypes
<1>8. ReadInv'
  <2> SUFFICES ASSUME NEW m \in 1..n
               PROVE  now[m].stream_index \in T!Streams /\ now[m] = T!RawPacket(now[m].stream_index, m)
    BY <1>0, <1>2 DEF ReadInv, T!Streams, T!RawPacket, T!StartTime
  <2>1. CASE m = n
    BY <1>2, <1>4, <2>1
  <2>2. CASE m # n
    <3>1. m \in DOMAIN reads /\ now[m] = reads[m]
      BY <1>1, <1>2, <2>2
    <3> QED BY <1>0, <3>1 DEF ReadInv
  <2> QED BY <2>1, <2>2
<1>9. ASSUME NEW t \in T!Media
      PROVE  /\ T!ReadOf(t) \in SUBSET Nat /\ \A m \in T!ReadOf(t) : m < n /\ now[m] = reads[m]
             /\ T!ReadOf(t)' = IF t = T!Type(s) THEN T!ReadOf(t) \union {n} ELSE T!ReadOf(t)
  <2>1. T!ReadOf(t)' = {m \in 1..n : T!Type(now[m].stream_index) = t}
    BY <1>0, <1>2 DEF T!ReadOf, T!Type
  <2>2. T!ReadOf(t) = {m \in 1..(n - 1) : T!Type(reads[m].stream_index) = t}
    BY <1>1 DEF T!ReadOf
  <2>3. \A m \in 1..(n - 1) : now[m] = reads[m] /\ m < n
    BY <1>1, <1>2
  <2>4. \A m \in 1..n : m \in 1..(n - 1) \/ m = n
    BY <1>1
  <2>5. n \in 1..n /\ 1..(n - 1) \subseteq 1..n /\ n \notin 1..(n - 1) /\ 1..(n - 1) \subseteq Nat
    BY <1>1
  <2>6. \A m \in 1..n : m \in T!ReadOf(t)' <=> IF m = n THEN T!Type(s) = t ELSE m \in T!ReadOf(t)
    BY <1>2, <1>4, <2>1, <2>2, <2>3, <2>4, <2>5
  <2>7. T!ReadOf(t) \subseteq 1..(n - 1) /\ T!ReadOf(t)' \subseteq 1..n
    BY <2>1, <2>2
  <2> QED BY <2>3, <2>5, <2>6, <2>7
<1>10. PacketInv'
  <2> SUFFICES ASSUME NEW t \in T!Media
               PROVE  /\ FedInOrder(T!ReadOf(t)', now, fed[t])
                      /\ CachedNext(T!ReadOf(t)', now, fed[t], cache'[t], TRUE, FALSE)
    BY <1>0 DEF PacketInv
  <2>1. /\ FedInOrder(T!ReadOf(t), reads, fed[t])
        /\ CachedNext(T!ReadOf(t), reads, fed[t], cache[t], TRUE, FALSE)
    BY <1>0 DEF PacketInv
  <2>2. fed[t] \in Seq(Inputs) /\ cache[t] \in Seq(Packets)
    BY <1>0 DEF TrackTypes
  <2>3. FedInOrder(T!ReadOf(t) \union {n}, now, fed[t]) /\ FedInOrder(T!ReadOf(t), now, fed[t])
    BY <1>1, <1>9, <2>1, <2>2, FedMore
  <2>4. CASE t = T!Type(s)
    <3>1. CachedNext(T!ReadOf(t) \union {n}, now, fed[t], Append(cache[t], pkt), TRUE, FALSE)
      <4>1. pkt \in Packets /\ pkt.mData = n /\ IsRead(now, n, pkt.mPts, pkt.mDts)
        BY <1>3, <2>4
      <4>2. T!ReadOf(t) \in SUBSET Nat /\ \A m \in T!ReadOf(t) : m < n /\ now[m] = reads[m]
        BY <1>9
      <4> QED BY <1>1, <2>1, <2>2, <4>1, <4>2, CachedMore
    <3> QED BY <1>6, <1>9, <2>3, <2>4, <3>1
  <2>5. CASE t # T!Type(s)
    <3>1. CachedNext(T!ReadOf(t), now, fed[t], cache[t], TRUE, FALSE)
      BY <1>9, <2>1, CachedElse
    <3> QED BY <1>6, <1>9, <2>3, <2>5, <3>1
  <2> QED BY <2>4, <2>5
<1> QED BY <1>0, <1>7, <1>8, <1>10, FormatStays, IndexStays, DecodersStay DEF TracksInv

(* The end is queued once, after all that was read.                        *)
LEMMA CachedEnd ==
    ASSUME NEW read \in SUBSET Nat, NEW rs, NEW f, NEW c \in Seq(Packets),
           CachedNext(read, rs, f, c, TRUE, FALSE)
    PROVE  /\ CachedNext(read, rs, f, c, TRUE, TRUE)
           /\ CachedNext(read, rs, f, Append(c, T!EndPacket), TRUE, TRUE)
<1>1. CachedNext(read, rs, f, c, TRUE, TRUE)
  BY DEF CachedNext
<1> PICK d : d = Append(c, T!EndPacket)
  OBVIOUS
<1>2. /\ DOMAIN c = 1..Len(c) /\ DOMAIN d = 1..(Len(c) + 1) /\ Len(d) = Len(c) + 1 /\ Len(c) \in Nat
      /\ d[Len(c) + 1] = T!EndPacket /\ \A k \in 1..Len(c) : d[k] = c[k]
  OBVIOUS
<1>3. d[Len(d)].mData = NULL
  BY <1>2 DEF T!EndPacket
<1>4. \A k \in DOMAIN d : k = Len(d) \/ (k \in DOMAIN c /\ d[k] = c[k])
  BY <1>2
<1>5. \A k \in DOMAIN d : \/ d[k].mData = NULL /\ k = Len(d)
                          \/ d[k].mData \in read /\ IsRead(rs, d[k].mData, d[k].mPts, d[k].mDts)
  <2> SUFFICES ASSUME NEW k \in DOMAIN d, k # Len(d)
               PROVE  d[k].mData \in read /\ IsRead(rs, d[k].mData, d[k].mPts, d[k].mDts)
    BY <1>3
  <2>1. k \in DOMAIN c /\ d[k] = c[k]
    BY <1>4
  <2> QED BY <2>1 DEF CachedNext
<1>6. \A j, k \in DOMAIN d : j < k /\ d[j].mData # NULL /\ d[k].mData # NULL => d[j].mData < d[k].mData
  <2> SUFFICES ASSUME NEW j \in DOMAIN d, NEW k \in DOMAIN d, j < k, d[j].mData # NULL, d[k].mData # NULL
               PROVE  d[j].mData < d[k].mData
    OBVIOUS
  <2>1. j \in DOMAIN c /\ d[j] = c[j] /\ k \in DOMAIN c /\ d[k] = c[k]
    BY <1>3, <1>4
  <2> QED BY <2>1 DEF CachedNext
<1>7. \A j \in DOMAIN f, k \in DOMAIN d : d[k].mData # NULL => f[j].data < d[k].mData
  <2> SUFFICES ASSUME NEW j \in DOMAIN f, NEW k \in DOMAIN d, d[k].mData # NULL PROVE f[j].data < d[k].mData
    OBVIOUS
  <2>1. k \in DOMAIN c /\ d[k] = c[k]
    BY <1>3, <1>4
  <2> QED BY <2>1 DEF CachedNext
<1>8. \A m \in read : (\E k \in DOMAIN f : f[k].data = m) \/ (\E k \in DOMAIN d : d[k].mData = m)
  <2> SUFFICES ASSUME NEW m \in read, \A k \in DOMAIN f : f[k].data # m
               PROVE  \E k \in DOMAIN d : d[k].mData = m
    OBVIOUS
  <2>1. PICK k \in DOMAIN c : c[k].mData = m
    BY DEF CachedNext
  <2>2. k \in DOMAIN d /\ d[k] = c[k]
    BY <1>2
  <2> QED BY <2>1, <2>2
<1>9. CachedNext(read, rs, f, d, TRUE, TRUE)
  BY <1>5, <1>6, <1>7, <1>8 DEF CachedNext
<1> QED BY <1>1, <1>9

LEMMA ReadIsNat ==
    ASSUME TrackTypes, NEW t
    PROVE  T!ReadOf(t) \in SUBSET Nat
BY DEF TrackTypes, T!ReadOf

LEMMA TracksEnd == TracksInv /\ T!queueNullPacket => TracksInv'
<1> SUFFICES ASSUME TracksInv, T!queueNullPacket PROVE TracksInv'
  OBVIOUS
<1>0. /\ TrackTypes /\ FormatInv /\ IndexInv /\ ReadInv /\ PacketInv /\ T!DecoderFitsTrack
      /\ looping = TRUE /\ mEosFlag = FALSE /\ mEosFlag' = TRUE
      /\ cache' = [t \in T!Media |-> IF mIndex[t] >= 0 THEN Append(cache[t], T!EndPacket) ELSE cache[t]]
      /\ UNCHANGED <<file, avfc, demuxer, mFormatCtx, mIndex, looping, reads, decoder, fed>>
  BY DEF TracksInv, T!queueNullPacket, TrackTypes
<1>1. T!EndPacket \in Packets
  BY DEF T!EndPacket, Packets
<1>2. \A t \in T!Media : /\ cache[t] \in Seq(Packets) /\ cache'[t] \in Seq(Packets)
                         /\ cache'[t] = cache[t] \/ cache'[t] = Append(cache[t], T!EndPacket)
  BY <1>0, <1>1 DEF TrackTypes
<1>3. TrackTypes'
  <2>1. cache' \in [T!Media -> Seq(Packets)]
    BY <1>0, <1>2
  <2> QED BY <1>0, <2>1 DEF TrackTypes
<1>4. ReadInv'
  BY <1>0 DEF ReadInv, T!Streams
<1>5. PacketInv'
  <2> SUFFICES ASSUME NEW t \in T!Media
               PROVE  /\ FedInOrder(T!ReadOf(t)', reads, fed[t])
                      /\ CachedNext(T!ReadOf(t)', reads, fed[t], cache'[t], TRUE, TRUE)
    BY <1>0 DEF PacketInv
  <2>1. T!ReadOf(t)' = T!ReadOf(t)
    BY <1>0 DEF T!ReadOf, T!Type
  <2>2. /\ FedInOrder(T!ReadOf(t), reads, fed[t])
        /\ CachedNext(T!ReadOf(t), reads, fed[t], cache[t], TRUE, FALSE)
    BY <1>0 DEF PacketInv
  <2>3. T!ReadOf(t) \in SUBSET Nat
    BY <1>0, ReadIsNat
  <2>4. /\ CachedNext(T!ReadOf(t), reads, fed[t], cache[t], TRUE, TRUE)
        /\ CachedNext(T!ReadOf(t), reads, fed[t], Append(cache[t], T!EndPacket), TRUE, TRUE)
    BY <1>2, <2>2, <2>3, CachedEnd
  <2> QED BY <1>2, <2>1, <2>2, <2>4
<1> QED BY <1>0, <1>3, <1>4, <1>5, FormatStays, IndexStays, DecodersStay DEF TracksInv

(* The first packet that is cached is the next after those that were fed.  *)
LEMMA HeadFed ==
    ASSUME NEW read \in SUBSET Nat, NEW rs, NEW f \in Seq(Inputs), NEW c \in Seq(Packets), NEW eos,
           FedInOrder(read, rs, f), CachedNext(read, rs, f, c, TRUE, eos), c # <<>>,
           Head(c).mData # NULL, NEW in \in Inputs,
           in.data = Head(c).mData, in.pts = Head(c).mPts, in.dts = Head(c).mDts
    PROVE  FedInOrder(read, rs, Append(f, in)) /\ CachedNext(read, rs, Append(f, in), Tail(c), TRUE, eos)
<1> PICK g : g = Append(f, in)
  OBVIOUS
<1> PICK d : d = Tail(c)
  OBVIOUS
<1>1. /\ DOMAIN f = 1..Len(f) /\ DOMAIN g = 1..(Len(f) + 1) /\ Len(f) \in Nat
      /\ g[Len(f) + 1] = in /\ \A k \in 1..Len(f) : g[k] = f[k]
  OBVIOUS
<1>2. /\ Len(c) \in Nat \ {0} /\ DOMAIN c = 1..Len(c) /\ Head(c) = c[1] /\ Len(d) = Len(c) - 1
      /\ DOMAIN d = 1..(Len(c) - 1) /\ \A k \in 1..(Len(c) - 1) : d[k] = c[k + 1]
  OBVIOUS
<1>3. /\ \A k \in DOMAIN d : k + 1 \in DOMAIN c /\ 1 < k + 1 /\ d[k] = c[k + 1]
      /\ 1 \in DOMAIN c /\ \A k \in DOMAIN c : k = 1 \/ (k - 1 \in DOMAIN d /\ d[k - 1] = c[k])
  BY <1>2
<1> PICK n : n = in.data
  OBVIOUS
<1>4. n \in read /\ n \in Nat /\ IsRead(rs, n, in.pts, in.dts) /\ c[1].mData = n /\ n # NULL
  <2>1. c[1].mData # NULL /\ c[1].mData = n /\ in.pts = c[1].mPts /\ in.dts = c[1].mDts
    BY <1>2
  <2>2. n \in read /\ IsRead(rs, n, in.pts, in.dts)
    BY <1>3, <2>1 DEF CachedNext
  <2> QED BY <2>1, <2>2
<1>5. \A k \in DOMAIN g : (k \in DOMAIN f /\ g[k] = f[k]) \/ (k = Len(f) + 1 /\ g[k] = in)
  BY <1>1
<1>6. \A k \in DOMAIN f : f[k].data < n /\ f[k].data \in Nat /\ k \in DOMAIN g /\ g[k] = f[k]
  <2> SUFFICES ASSUME NEW k \in DOMAIN f
               PROVE  f[k].data < n /\ f[k].data \in Nat /\ k \in DOMAIN g /\ g[k] = f[k]
    OBVIOUS
  <2>1. f[k].data < c[1].mData
    BY <1>3, <1>4 DEF CachedNext
  <2>2. f[k].data \in read
    BY DEF FedInOrder
  <2>3. f[k].data < n
    BY <1>4, <2>1
  <2>4. f[k].data \in Nat
    BY <2>2
  <2>5. k \in DOMAIN g /\ g[k] = f[k]
    BY <1>1
  <2> QED BY <2>3, <2>4, <2>5
<1>7. \A k \in DOMAIN d : d[k].mData # NULL => n < d[k].mData /\ d[k].mData \in Nat
  <2> SUFFICES ASSUME NEW k \in DOMAIN d, d[k].mData # NULL PROVE n < d[k].mData /\ d[k].mData \in Nat
    OBVIOUS
  <2>1. c[1].mData < c[k + 1].mData
    BY <1>3, <1>4 DEF CachedNext
  <2>2. c[k + 1].mData \in read
    BY <1>3 DEF CachedNext
  <2> QED BY <1>3, <1>4, <2>1, <2>2
<1>8. \A m \in read : m < n => \E j \in DOMAIN g : g[j].data = m
  <2> SUFFICES ASSUME NEW m \in read, m < n, \A j \in DOMAIN f : f[j].data # m PROVE FALSE
    BY <1>6
  <2>1. PICK k \in DOMAIN c : c[k].mData = m
    BY DEF CachedNext
  <2>2. k # 1 /\ k - 1 \in DOMAIN d /\ d[k - 1] = c[k] /\ c[k].mData # NULL
    <3>1. k # 1
      BY <1>4, <2>1
    <3>2. NULL \notin Int /\ m \in Int
      BY TracksAssumption
    <3> QED BY <1>3, <2>1, <3>1, <3>2
  <2>3. n < m
    BY <1>7, <2>1, <2>2
  <2> QED BY <1>4, <2>3
<1>9. FedInOrder(read, rs, g)
  <2>1. \A k \in DOMAIN g : g[k].data \in read /\ IsRead(rs, g[k].data, g[k].pts, g[k].dts)
    <3> SUFFICES ASSUME NEW k \in DOMAIN g
                 PROVE  g[k].data \in read /\ IsRead(rs, g[k].data, g[k].pts, g[k].dts)
      OBVIOUS
    <3>1. CASE k \in DOMAIN f /\ g[k] = f[k]
      BY <3>1 DEF FedInOrder
    <3>2. CASE g[k] = in
      BY <1>4, <3>2
    <3> QED BY <1>5, <3>1, <3>2
  <2>2. \A j, k \in DOMAIN g : j < k => g[j].data < g[k].data
    <3> SUFFICES ASSUME NEW j \in DOMAIN g, NEW k \in DOMAIN g, j < k PROVE g[j].data < g[k].data
      OBVIOUS
    <3>1. j \in DOMAIN f /\ g[j] = f[j]
      BY <1>1
    <3>2. CASE k \in DOMAIN f /\ g[k] = f[k]
      BY <3>1, <3>2 DEF FedInOrder
    <3>3. CASE g[k] = in
      BY <1>6, <3>1, <3>3
    <3> QED BY <1>5, <3>2, <3>3
  <2>3. \A k \in DOMAIN g : \A m \in read : m < g[k].data => \E j \in DOMAIN g : g[j].data = m
    <3> SUFFICES ASSUME NEW k \in DOMAIN g, NEW m \in read, m < g[k].data
                 PROVE  \E j \in DOMAIN g : g[j].data = m
      OBVIOUS
    <3>1. CASE k \in DOMAIN f /\ g[k] = f[k]
      <4>1. PICK j \in DOMAIN f : f[j].data = m
        BY <3>1 DEF FedInOrder
      <4> QED BY <1>6, <4>1
    <3>2. CASE g[k] = in
      BY <1>8, <3>2
    <3> QED BY <1>5, <3>1, <3>2
  <2> QED BY <2>1, <2>2, <2>3 DEF FedInOrder
<1>10. CachedNext(read, rs, g, d, TRUE, eos)
  <2>1. \A k \in DOMAIN d :
         \/ d[k].mData = NULL /\ eos /\ k = Len(d)
         \/ d[k].mData \in read /\ IsRead(rs, d[k].mData, d[k].mPts, d[k].mDts)
    <3> SUFFICES ASSUME NEW k \in DOMAIN d
                 PROVE  \/ d[k].mData = NULL /\ eos /\ k = Len(d)
                        \/ d[k].mData \in read /\ IsRead(rs, d[k].mData, d[k].mPts, d[k].mDts)
      OBVIOUS
    <3>1. \/ c[k + 1].mData = NULL /\ eos /\ k + 1 = Len(c)
          \/ c[k + 1].mData \in read /\ IsRead(rs, c[k + 1].mData, c[k + 1].mPts, c[k + 1].mDts)
      BY <1>3 DEF CachedNext
    <3>2. d[k] = c[k + 1] /\ (k + 1 = Len(c) => k = Len(d))
      BY <1>2
    <3> QED BY <3>1, <3>2
  <2>2. \A j, k \in DOMAIN d : j < k /\ d[j].mData # NULL /\ d[k].mData # NULL => d[j].mData < d[k].mData
    <3> SUFFICES ASSUME NEW j \in DOMAIN d, NEW k \in DOMAIN d, j < k, d[j].mData # NULL, d[k].mData # NULL
                 PROVE  d[j].mData < d[k].mData
      OBVIOUS
    <3>1. j + 1 \in DOMAIN c /\ k + 1 \in DOMAIN c /\ j + 1 < k + 1 /\ d[j] = c[j + 1] /\ d[k] = c[k + 1]
      BY <1>2
    <3> QED BY <3>1 DEF CachedNext
  <2>3. \A j \in DOMAIN g, k \in DOMAIN d : d[k].mData # NULL => g[j].data < d[k].mData
    <3> SUFFICES ASSUME NEW j \in DOMAIN g, NEW k \in DOMAIN d, d[k].mData # NULL PROVE g[j].data < d[k].mData
      OBVIOUS
    <3>1. n < d[k].mData /\ d[k].mData \in Nat
      BY <1>7
    <3>2. CASE j \in DOMAIN f /\ g[j] = f[j]
      <4>1. f[j].data < n /\ f[j].data \in Nat
        BY <1>6, <3>2
      <4> QED BY <1>4, <3>1, <3>2, <4>1
    <3>3. CASE g[j] = in
      BY <3>1, <3>3
    <3> QED BY <1>5, <3>2, <3>3
  <2>4. \A m \in read : (\E k \in DOMAIN g : g[k].data = m) \/ (\E k \in DOMAIN d : d[k].mData = m)
    <3> SUFFICES ASSUME NEW m \in read, \A k \in DOMAIN g : g[k].data # m
                 PROVE  \E k \in DOMAIN d : d[k].mData = m
      OBVIOUS
    <3>1. \A k \in DOMAIN f : f[k].data # m
      BY <1>6
    <3>2. PICK k \in DOMAIN c : c[k].mData = m
      BY <3>1 DEF CachedNext
    <3>3. m # n
      BY <1>1
    <3>4. k - 1 \in DOMAIN d /\ d[k - 1] = c[k]
      BY <1>3, <1>4, <3>2, <3>3
    <3> QED BY <3>2, <3>4
  <2> QED BY <2>1, <2>2, <2>3, <2>4 DEF CachedNext
<1> QED BY <1>9, <1>10

LEMMA EndPassed ==
    ASSUME NEW read \in SUBSET Nat, NEW rs, NEW f, NEW c \in Seq(Packets), NEW eos,
           CachedNext(read, rs, f, c, TRUE, eos), c # <<>>, Head(c).mData = NULL
    PROVE  CachedNext(read, rs, f, Tail(c), TRUE, eos)
<1>1. 1 \in DOMAIN c /\ Head(c) = c[1] /\ Len(c) \in Nat \ {0} /\ DOMAIN c = 1..Len(c)
  OBVIOUS
<1>2. NULL \notin Int
  BY TracksAssumption
<1>3. c[1].mData \notin read
  <2>1. c[1].mData = NULL
    BY <1>1
  <2>2. NULL \notin read
    <3>1. \A m \in read : m \in Int
      OBVIOUS
    <3> QED BY <1>2, <3>1, Zenon
  <2> QED BY <2>1, <2>2
<1>4. Len(c) = 1
  <2>1. 1 = Len(c)
    BY <1>1, <1>3 DEF CachedNext
  <2> QED BY <2>1
<1>5. Tail(c) = <<>>
  <2>1. Tail(c) \in Seq(Packets) /\ Len(Tail(c)) = Len(c) - 1
    BY HeadTailProperties
  <2>2. Len(Tail(c)) = 0
    BY <1>4, <2>1
  <2> QED BY <2>1, <2>2, EmptySeq
<1>6. \A m \in read : \E k \in DOMAIN f : f[k].data = m
  <2> SUFFICES ASSUME NEW m \in read, \A k \in DOMAIN f : f[k].data # m PROVE FALSE
    OBVIOUS
  <2>1. PICK k \in DOMAIN c : c[k].mData = m
    BY DEF CachedNext
  <2>2. k = 1
    <3>1. DOMAIN c = 1..1
      BY <1>1, <1>4
    <3>2. k \in 1..1
      BY <3>1
    <3> QED BY <3>2
  <2> QED BY <1>3, <2>1, <2>2
<1>7. CachedNext(read, rs, f, <<>>, TRUE, eos)
  <2>1. DOMAIN <<>> = {}
    OBVIOUS
  <2> QED BY <1>6, <2>1 DEF CachedNext
<1> QED BY <1>5, <1>7

LEMMA TracksDeliver == ASSUME TracksInv, NEW t \in T!Media, T!Deliver(t) PROVE TracksInv'
<1> PICK c : c = cache[t]
  OBVIOUS
<1> PICK pkt : pkt = Head(c)
  OBVIOUS
<1> PICK in : in = T!fa_init_av_packet(T!rt_mediabuf_from_packet(pkt))
  OBVIOUS
<1>0. /\ TrackTypes /\ FormatInv /\ IndexInv /\ ReadInv /\ PacketInv /\ T!DecoderFitsTrack
      /\ looping = TRUE /\ c # <<>>
      /\ cache' = [cache EXCEPT ![t] = Tail(c)]
      /\ fed' = IF pkt.mData = NULL THEN fed ELSE [fed EXCEPT ![t] = Append(fed[t], in)]
      /\ UNCHANGED <<file, avfc, demuxer, mFormatCtx, mIndex, looping, mEosFlag, reads, decoder>>
  BY DEF TracksInv, T!Deliver, TrackTypes
<1>1. /\ cache \in [T!Media -> Seq(Packets)] /\ fed \in [T!Media -> Seq(Inputs)]
      /\ c \in Seq(Packets) /\ fed[t] \in Seq(Inputs) /\ T!ReadOf(t) \in SUBSET Nat
  BY <1>0, ReadIsNat DEF TrackTypes
<1>2. Tail(c) \in Seq(Packets) /\ pkt \in Packets
  BY <1>0, <1>1
<1>3. in = [data |-> pkt.mData, pts |-> pkt.mPts, dts |-> pkt.mDts]
  BY DEF T!fa_init_av_packet, T!rt_mediabuf_from_packet
<1>4. pkt.mData # NULL => in \in Inputs
  BY <1>2, <1>3 DEF Packets, Inputs
<1>5. /\ cache' \in [T!Media -> Seq(Packets)] /\ cache'[t] = Tail(c)
      /\ \A r \in T!Media : r # t => cache'[r] = cache[r]
  BY <1>0, <1>1, <1>2
<1>6. /\ fed' \in [T!Media -> Seq(Inputs)] /\ fed'[t] = IF pkt.mData = NULL THEN fed[t] ELSE Append(fed[t], in)
      /\ \A r \in T!Media : r # t => fed'[r] = fed[r]
  <2>1. CASE pkt.mData = NULL
    BY <1>0, <1>1, <2>1
  <2>2. CASE pkt.mData # NULL
    <3>1. Append(fed[t], in) \in Seq(Inputs) /\ fed' = [fed EXCEPT ![t] = Append(fed[t], in)]
      BY <1>0, <1>1, <1>4, <2>2
    <3> QED BY <1>1, <2>2, <3>1
  <2> QED BY <2>1, <2>2
<1>7. TrackTypes'
  BY <1>0, <1>5, <1>6 DEF TrackTypes
<1>8. ReadInv'
  BY <1>0 DEF ReadInv, T!Streams
<1>9. PacketInv'
  <2> SUFFICES ASSUME NEW r \in T!Media
               PROVE  /\ FedInOrder(T!ReadOf(r)', reads, fed'[r])
                      /\ CachedNext(T!ReadOf(r)', reads, fed'[r], cache'[r], TRUE, mEosFlag)
    BY <1>0 DEF PacketInv
  <2>1. T!ReadOf(r)' = T!ReadOf(r)
    BY <1>0 DEF T!ReadOf, T!Type
  <2>2. /\ FedInOrder(T!ReadOf(r), reads, fed[r])
        /\ CachedNext(T!ReadOf(r), reads, fed[r], cache[r], TRUE, mEosFlag)
    BY <1>0 DEF PacketInv
  <2>3. CASE r # t
    BY <1>5, <1>6, <2>1, <2>2, <2>3
  <2>4. CASE r = t /\ pkt.mData = NULL
    <3>1. CachedNext(T!ReadOf(t), reads, fed[t], Tail(c), TRUE, mEosFlag)
      BY <1>0, <1>1, <2>2, <2>4, EndPassed
    <3> QED BY <1>5, <1>6, <2>1, <2>2, <2>4, <3>1
  <2>5. CASE r = t /\ pkt.mData # NULL
    <3>1. in \in Inputs /\ in.data = Head(c).mData /\ in.pts = Head(c).mPts /\ in.dts = Head(c).mDts
      BY <1>3, <1>4, <2>5
    <3>2. /\ FedInOrder(T!ReadOf(t), reads, Append(fed[t], in))
          /\ CachedNext(T!ReadOf(t), reads, Append(fed[t], in), Tail(c), TRUE, mEosFlag)
      BY <1>0, <1>1, <2>2, <2>5, <3>1, HeadFed
    <3> QED BY <1>5, <1>6, <2>1, <2>5, <3>2
  <2> QED BY <2>3, <2>4, <2>5
<1> QED BY <1>0, <1>7, <1>8, <1>9, FormatStays, IndexStays, DecodersStay DEF TracksInv

LEMMA TracksSame ==
    ASSUME TracksInv,
           UNCHANGED <<file, avfc, demuxer, mFormatCtx, mIndex, looping, mEosFlag, cache, reads, decoder, fed>>
    PROVE  TracksInv'
<1>1. TrackTypes'
  BY DEF TracksInv, TrackTypes
<1> QED BY <1>1, PacketsStay, FormatStays, IndexStays, DecodersStay DEF TracksInv

LEMMA TracksNext == TracksInv /\ [NodesNext]_<<part, vars, busVars, fileVars>> => TracksInv'
<1> SUFFICES ASSUME TracksInv, [NodesNext]_<<part, vars, busVars, fileVars>> PROVE TracksInv'
  OBVIOUS
<1>1. CASE UNCHANGED fileVars
  BY <1>1, TracksSame DEF fileVars
<1>2. CASE T!Next
  BY <1>2, TracksOpen, TracksOpenFails, TracksRelease, TracksSelect, TracksMake, TracksCommand,
     TracksEnd, TracksQueue, TracksDeliver DEF T!Next
<1> QED BY <1>1, <1>2 DEF NodesNext

LEMMA TracksSound == TracksInv => TracksKept
<1> SUFFICES ASSUME TracksInv PROVE TracksKept
  OBVIOUS
<1>0. /\ TrackTypes /\ FormatInv /\ ReadInv /\ PacketInv /\ T!DecoderFitsTrack
  BY DEF TracksInv
<1>1. T!FormatClosedOnce
  <2> SUFFICES ASSUME NEW i \in DOMAIN avfc
               PROVE  avfc[i] # "twice" /\ (avfc[i] = "open" => demuxer = i /\ mFormatCtx = i)
    BY DEF T!FormatClosedOnce
  <2>1. i \in Int /\ NULL \notin Int
    BY <1>0, TracksAssumption DEF TrackTypes
  <2>2. i # NULL
    BY <2>1
  <2> QED BY <1>0, <2>2 DEF FormatInv
<1>2. T!PacketsWhole
  <2> SUFFICES ASSUME NEW t \in T!Media, NEW k \in DOMAIN fed[t], NEW n, n = fed[t][k].data
               PROVE  /\ n \in T!ReadOf(t)
                      /\ \A j \in 1..(k - 1) : fed[t][j].data < n
                      /\ \A m \in T!ReadOf(t) : m < n => \E j \in 1..(k - 1) : fed[t][j].data = m
                      /\ IsRead(reads, n, fed[t][k].pts, fed[t][k].dts)
    BY DEF T!PacketsWhole, IsRead, TimeOf
  <2>1. FedInOrder(T!ReadOf(t), reads, fed[t])
    BY <1>0 DEF PacketInv
  <2>2. DOMAIN fed[t] = 1..Len(fed[t]) /\ Len(fed[t]) \in Nat /\ T!ReadOf(t) \in SUBSET Nat
    BY <1>0, ReadIsNat DEF TrackTypes
  <2>3. n \in T!ReadOf(t) /\ IsRead(reads, n, fed[t][k].pts, fed[t][k].dts)
    BY <2>1 DEF FedInOrder
  <2>4. \A j \in 1..(k - 1) : j \in DOMAIN fed[t] /\ j < k
    BY <2>2
  <2>5. \A j \in 1..(k - 1) : fed[t][j].data < n
    BY <2>1, <2>4 DEF FedInOrder
  <2>6. ASSUME NEW m \in T!ReadOf(t), m < n PROVE \E j \in 1..(k - 1) : fed[t][j].data = m
    <3>1. PICK j \in DOMAIN fed[t] : fed[t][j].data = m
      BY <2>1, <2>6 DEF FedInOrder
    <3>2. ~(k <= j)
      <4>1. CASE j = k
        BY <2>2, <2>6, <3>1, <4>1
      <4>2. CASE k < j
        <5>1. fed[t][k].data < fed[t][j].data
          BY <2>1, <4>2 DEF FedInOrder
        <5>2. n < m /\ n \in Nat /\ m \in Nat
          BY <2>2, <2>3, <3>1, <5>1
        <5> QED BY <2>6, <5>2
      <4> QED BY <2>2, <4>1, <4>2
    <3>3. j \in 1..(k - 1)
      BY <2>2, <3>2
    <3> QED BY <3>1, <3>3
  <2> QED BY <2>3, <2>5, <2>6
<1> QED BY <1>0, <1>1, <1>2 DEF TracksKept, T!TracksKept

(* A decoder exists for the types that the file has, and is made of the    *)
(* stream that is used alone; what it gets is what was read of its type,   *)
(* whole and at its time; and a format that was opened is closed once.     *)
THEOREM TracksAreKept == NodesSpec => []TracksKept
<1>1. NodesInit => TracksInv
  BY TracksInit DEF NodesInit
<1>2. TracksInv /\ [NodesNext]_<<part, vars, busVars, fileVars>> => TracksInv'
  BY TracksNext
<1>3. TracksInv => TracksKept
  BY TracksSound
<1> QED BY <1>1, <1>2, <1>3, PTL DEF NodesSpec
===============================================================================
