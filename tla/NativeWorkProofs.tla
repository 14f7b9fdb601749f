--------------------------- MODULE NativeWorkProofs ---------------------------
(***************************************************************************)
(* Proofs about the native-work collector, for any capacities and limits   *)
(* and any number of items: what the guest submits is published in order   *)
(* and once, under an identity the lane accepts, a scene change finds the  *)
(* collector drained, and a restored image is alone.                       *)
(***************************************************************************)
EXTENDS NativeWork, TLAPS, SequenceTheorems

----------------------------------------------------------------------------
(* The inductive invariant.                                                  *)

CommitRecord == [epoch : Nat, seq : Nat, cycle : Nat, items : Seq(Nat),
                 boundary : BOOLEAN, alive : BOOLEAN]
Kinds == {"operation", "coverage", "upload", "flush", "boundary", "drain",
          "scene", "reset", "restore"}

Typed ==
  /\ lastCycle \in Nat /\ boundaryCycle \in Nat /\ workCycle \in Nat
  /\ cEpoch \in Nat /\ workEpoch \in Nat
  /\ open \in BOOLEAN /\ blocked \in BOOLEAN /\ stale \in BOOLEAN
  /\ builder \in CommitRecord /\ pending \in CommitRecord
  /\ call \in [kind : Kinds \cup {"none"}, cycle : Nat,
               flushed : BOOLEAN, drained : BOOLEAN]
  /\ todo \in Seq(Steps)
  /\ stream \in Seq(Nat) /\ out \in Seq(Nat)

(* What may come after a step of a call.  A restore and a scene change do    *)
(* more than the others before they go on: they drain.                       *)
After ==
  [ready |-> {"ready", "append", "import", "seal", "publish", "plan", "drained"},
   import |-> {"append"},
   append |-> {},
   plan |-> {"begin"},
   begin |-> {"append", "ready", "import", "seal"},
   seal |-> {"publish"},
   publish |-> {"plan", "drained"},
   drained |-> {"plan", "invalidate"},
   invalidate |-> {"cancel"},
   cancel |-> {"invalidate", "rebase"},
   rebase |-> {"ready"}]
Follows(k, a, b) ==
  /\ b \in After[a]
  /\ k = "restore" => /\ b = "plan" => a = "drained"
                      /\ b = "import" => a = "begin"
                      /\ b = "append" => a = "import"
  /\ k = "scene" /\ b = "invalidate" => a = "drained"

(* Only coverage, which asks twice, and a restore look at the lane in the    *)
(* middle of a call.                                                         *)
AskedFor(l, i) ==
  l[i + 1] = "ready" =>
    i + 2 \in DOMAIN l
    /\ l[i + 2] = (IF l[i] = "rebase" THEN "drained" ELSE "append")
Legal(k, l) ==
  \A i \in 1..Len(l) : i + 1 \in DOMAIN l =>
    Follows(k, l[i], l[i + 1]) /\ AskedFor(l, i)

(* What the next step of a call other than "ready" finds.                    *)
Finds(l, b, p) ==
  l # <<>> =>
    /\ Head(l) \in {"ready", "append", "import", "begin", "seal"} => b # NoCommit
    /\ Head(l) = "publish" => p # NoCommit
    /\ Head(l) \in {"plan", "drained", "invalidate", "rebase"} =>
         b = NoCommit /\ p = NoCommit
Placed ==
  /\ Legal(call.kind, todo)
  /\ Finds(IF At("ready") THEN Tail(todo) ELSE todo, builder, pending)
  /\ builder = NoCommit \/ pending = NoCommit
  /\ At("begin") => builder.items = <<>>

(* Both commits are of the collector's epoch and, while that is the lane's,  *)
(* have the identity the lane will ask for.                                  *)
Current(c) ==
  c # NoCommit =>
    /\ c.epoch = cEpoch /\ c.epoch # 0
    /\ c.epoch = epoch => /\ c.seq = published + 1 /\ c.cycle <= EpochCycle
                          /\ workEpoch = epoch
Timely ==
  /\ cEpoch <= epoch /\ workEpoch <= epoch
  /\ Current(builder) /\ Current(pending)
  /\ lastCycle <= EpochCycle
  /\ pending # NoCommit /\ pending.epoch = epoch => lastCycle <= pending.cycle
  /\ At("begin") \/ At("seal") =>
       (cEpoch = epoch => call.cycle <= EpochCycle /\ boundaryCycle <= EpochCycle)

Rising(s) == \A i, j \in DOMAIN s : i < j => s[i] < s[j]
Kept ==
  /\ ~lost => Collected = stream
  /\ Rising(Collected)
  /\ \A i \in DOMAIN Collected : Collected[i] <= Len(stream)

(* A restore begins with nothing and, once it has drained, nobody writes     *)
(* over what it records; so it is with the commit that holds its image.      *)
Alone == cEpoch = epoch => acked = published /\ ~stale
Restored ==
  /\ call.kind = "restore" /\ todo # <<>>
     /\ Head(todo) \notin {"cancel", "invalidate", "rebase"} =>
       /\ stream = <<>> /\ Collected = <<>> /\ counts = NoCount
  /\ call.kind = "restore" /\ todo # <<>>
     /\ Head(todo) \in {"plan", "begin", "import", "append"} =>
       cEpoch # 0 /\ Alone
  /\ \A i \in DOMAIN builder.items : builder.items[i] = 0 => Alone

Drained ==
  call.kind = "scene" /\ At("invalidate") => acked = published

WorkInv ==
  Lane!InSequence /\ Typed /\ Placed /\ Timely /\ Kept /\ Restored /\ Drained

----------------------------------------------------------------------------
(* The promise of the lane.                                                  *)

LEMMA LaneStep ==
  ASSUME Lane!InSequence, [Lane!Next]_laneVars
  PROVE  Lane!InSequence'
<1> USE WorkAssumption DEF Lane!InSequence
<1>1. CASE Lane!Publish
  BY <1>1 DEF Lane!Publish
<1>2. CASE Lane!Apply
  BY <1>2 DEF Lane!Apply
<1>3. CASE Lane!Ack
  BY <1>3 DEF Lane!Ack
<1>4. CASE Lane!Block
  BY <1>4 DEF Lane!Block
<1>5. CASE Lane!Open
  BY <1>5 DEF Lane!Open
<1>6. CASE Lane!Invalidate
  BY <1>6 DEF Lane!Invalidate
<1>7. CASE UNCHANGED laneVars
  BY <1>7 DEF laneVars
<1> QED
  BY <1>1, <1>2, <1>3, <1>4, <1>5, <1>6, <1>7 DEF Lane!Next

(* Nothing is acknowledged before its effects are applied, effects are at    *)
(* most one work ahead and never of unpublished work, and the terminal epoch *)
(* stays closed and empty (the FIFO order of xg_render_source_queue_publish  *)
(* and of the acks in the worker).                                           *)
THEOREM LaneInSequence == Lane!Spec => []Lane!InSequence
<1>1. Lane!Init => Lane!InSequence
  BY WorkAssumption DEF Lane!Init, Lane!InSequence
<1>2. Lane!InSequence /\ [Lane!Next]_Lane!vars => Lane!InSequence'
  BY LaneStep DEF Lane!vars, laneVars
<1> QED
  BY <1>1, <1>2, PTL DEF Lane!Spec

----------------------------------------------------------------------------
(* Lists of steps.                                                           *)

LEMMA TailLegal ==
  ASSUME NEW k, NEW l \in Seq(Steps), l # <<>>, Legal(k, l)
  PROVE  /\ Tail(l) \in Seq(Steps) /\ Legal(k, Tail(l)) /\ Head(l) \in Steps
         /\ Tail(l) # <<>> =>
              /\ Follows(k, Head(l), Head(Tail(l)))
              /\ Head(Tail(l)) = "ready" =>
                   /\ Tail(Tail(l)) # <<>>
                   /\ Head(Tail(Tail(l))) =
                        (IF Head(l) = "rebase" THEN "drained" ELSE "append")
<1> DEFINE t == Tail(l)
<1>1. /\ t \in Seq(Steps) /\ Len(t) = Len(l) - 1 /\ Len(l) \in Nat \ {0}
      /\ \A i \in 1..Len(t) : t[i] = l[i + 1]
      /\ Head(l) = l[1] /\ Head(l) \in Steps
  BY HeadTailProperties
<1> HIDE DEF t
<1>2. Legal(k, t)
  <2> SUFFICES ASSUME NEW i \in 1..Len(t), i + 1 \in DOMAIN t
               PROVE  Follows(k, t[i], t[i + 1]) /\ AskedFor(t, i)
    BY DEF Legal
  <2>1. i + 1 \in 1..Len(l) /\ i + 2 \in DOMAIN l /\ i + 1 \in 1..Len(t)
    BY <1>1
  <2>2. Follows(k, l[i + 1], l[(i + 1) + 1]) /\ AskedFor(l, i + 1)
    BY <2>1 DEF Legal
  <2>3. t[i] = l[i + 1] /\ t[i + 1] = l[(i + 1) + 1]
    BY <1>1, <2>1
  <2>4. AskedFor(t, i)
    <3> SUFFICES ASSUME t[i + 1] = "ready"
                 PROVE  /\ i + 2 \in DOMAIN t
                        /\ t[i + 2] = (IF t[i] = "rebase" THEN "drained" ELSE "append")
      BY DEF AskedFor
    <3>1. (i + 1) + 2 \in DOMAIN l
          /\ l[(i + 1) + 2] = (IF l[i + 1] = "rebase" THEN "drained" ELSE "append")
      BY <2>2, <2>3 DEF AskedFor
    <3>2. i + 2 \in 1..Len(t) /\ DOMAIN t = 1..Len(t)
      BY <3>1, <1>1
    <3>3. t[i + 2] = l[(i + 1) + 2]
      BY <3>2, <1>1
    <3> QED
      BY <3>1, <3>2, <3>3, <2>3
  <2> QED
    BY <2>2, <2>3, <2>4
<1>3. ASSUME t # <<>>
      PROVE  /\ Follows(k, Head(l), Head(t))
             /\ Head(t) = "ready" =>
                  /\ Tail(t) # <<>>
                  /\ Head(Tail(t)) =
                       (IF Head(l) = "rebase" THEN "drained" ELSE "append")
  <2>1. Len(t) \in Nat \ {0} /\ Head(t) = t[1] /\ t[1] = l[1 + 1]
    <3>1. Len(t) \in Nat \ {0} /\ Head(t) = t[1]
      BY <1>1, <1>3, HeadTailProperties
    <3>2. 1 \in 1..Len(t)
      BY <3>1
    <3> QED
      BY <3>1, <3>2, <1>1
  <2>2. Follows(k, l[1], l[1 + 1]) /\ AskedFor(l, 1)
    <3>1. 1 \in 1..Len(l) /\ 1 + 1 \in DOMAIN l
      BY <1>1, <2>1
    <3> QED
      BY <3>1 DEF Legal
  <2>3. ASSUME Head(t) = "ready"
        PROVE  /\ Tail(t) # <<>>
               /\ Head(Tail(t)) =
                    (IF Head(l) = "rebase" THEN "drained" ELSE "append")
    <3>1. 1 + 2 \in DOMAIN l
          /\ l[1 + 2] = (IF l[1] = "rebase" THEN "drained" ELSE "append")
      <4>1. l[1 + 1] = "ready"
        BY <2>1, <2>3
      <4> QED
        BY <4>1, <2>2 DEF AskedFor
    <3>2. Len(t) >= 2 /\ t[2] = l[3]
      BY <3>1, <1>1
    <3> DEFINE u == Tail(t)
    <3>3. u \in Seq(Steps) /\ Len(u) = Len(t) - 1
          /\ \A i \in 1..Len(u) : u[i] = t[i + 1]
      BY <1>1, <1>3, HeadTailProperties
    <3> HIDE DEF u
    <3>4. u # <<>> /\ u[1] = t[2]
      BY <3>2, <3>3, <1>1
    <3>5. Head(u) = u[1]
      BY <3>3, <3>4, HeadTailProperties
    <3> QED
      BY <3>1, <3>2, <3>4, <3>5, <1>1 DEF u
  <2> QED
    BY <2>1, <2>2, <2>3, <1>1
<1> QED
  BY <1>1, <1>2, <1>3 DEF t

(* Two lists that fit together.                                              *)
LEMMA Joined ==
  ASSUME NEW k, NEW p \in Seq(Steps), NEW q \in Seq(Steps),
         Legal(k, p), Legal(k, q),
         p # <<>> /\ q # <<>> =>
           /\ Follows(k, p[Len(p)], q[1])
           /\ q[1] = "ready" => Len(q) >= 2 /\ q[2] = "append" /\ p[Len(p)] # "rebase"
  PROVE  /\ p \o q \in Seq(Steps) /\ Legal(k, p \o q)
         /\ p = <<>> => p \o q = q
         /\ q = <<>> => p \o q = p
<1> DEFINE r == p \o q
<1>1. /\ r \in Seq(Steps) /\ Len(r) = Len(p) + Len(q)
      /\ \A i \in 1..Len(r) : r[i] = IF i <= Len(p) THEN p[i] ELSE q[i - Len(p)]
      /\ Len(p) \in Nat /\ Len(q) \in Nat
  BY ConcatProperties
<1>2. Legal(k, r)
  <2> SUFFICES ASSUME NEW i \in 1..Len(r), i + 1 \in DOMAIN r
               PROVE  Follows(k, r[i], r[i + 1]) /\ AskedFor(r, i)
    BY DEF Legal
  <2> HIDE DEF r
  <2>1. CASE i + 1 <= Len(p)
    <3>1. i \in 1..Len(p) /\ i + 1 \in DOMAIN p
      BY <2>1, <1>1
    <3>2. Follows(k, p[i], p[i + 1]) /\ AskedFor(p, i)
      BY <3>1 DEF Legal
    <3>3. r[i] = p[i] /\ r[i + 1] = p[i + 1]
      BY <1>1, <2>1
    <3>4. AskedFor(r, i)
      <4> SUFFICES ASSUME r[i + 1] = "ready"
                   PROVE  /\ i + 2 \in DOMAIN r
                          /\ r[i + 2] = (IF r[i] = "rebase" THEN "drained" ELSE "append")
        BY DEF AskedFor
      <4>1. i + 2 \in DOMAIN p
            /\ p[i + 2] = (IF p[i] = "rebase" THEN "drained" ELSE "append")
        BY <3>2, <3>3 DEF AskedFor
      <4>2. i + 2 \in 1..Len(r) /\ r[i + 2] = p[i + 2]
        BY <4>1, <1>1
      <4> QED
        BY <4>1, <4>2, <3>3, <1>1
    <3> QED
      BY <3>2, <3>3, <3>4
  <2>2. CASE i = Len(p)
    <3>1. p # <<>> /\ q # <<>> /\ Len(q) >= 1
      BY <2>2, <1>1
    <3>2. r[i] = p[Len(p)] /\ r[i + 1] = q[1]
      BY <2>2, <1>1, <3>1
    <3>3. AskedFor(r, i)
      <4> SUFFICES ASSUME r[i + 1] = "ready"
                   PROVE  /\ i + 2 \in DOMAIN r
                          /\ r[i + 2] = (IF r[i] = "rebase" THEN "drained" ELSE "append")
        BY DEF AskedFor
      <4>1. Len(q) >= 2 /\ q[2] = "append" /\ p[Len(p)] # "rebase"
        BY <3>1, <3>2
      <4>2. i + 2 \in 1..Len(r) /\ ~(i + 2 <= Len(p)) /\ (i + 2) - Len(p) = 2
        BY <4>1, <1>1, <2>2
      <4>3. r[i + 2] = q[(i + 2) - Len(p)]
        BY <4>2, <1>1
      <4> QED
        BY <4>1, <4>2, <4>3, <3>2, <1>1
    <3> QED
      BY <3>1, <3>2, <3>3
  <2>3. CASE i > Len(p)
    <3> DEFINE j == i - Len(p)
    <3>1. j \in 1..Len(q) /\ j + 1 \in DOMAIN q
      BY <2>3, <1>1
    <3>2. Follows(k, q[j], q[j + 1]) /\ AskedFor(q, j)
      BY <3>1 DEF Legal
    <3>3. r[i] = q[j] /\ r[i + 1] = q[j + 1]
      BY <1>1, <2>3
    <3>4. AskedFor(r, i)
      <4> SUFFICES ASSUME r[i + 1] = "ready"
                   PROVE  /\ i + 2 \in DOMAIN r
                          /\ r[i + 2] = (IF r[i] = "rebase" THEN "drained" ELSE "append")
        BY DEF AskedFor
      <4>1. j + 2 \in DOMAIN q
            /\ q[j + 2] = (IF q[j] = "rebase" THEN "drained" ELSE "append")
        BY <3>2, <3>3 DEF AskedFor
      <4>2. i + 2 \in 1..Len(r) /\ r[i + 2] = q[j + 2]
        BY <4>1, <1>1, <2>3
      <4> QED
        BY <4>1, <4>2, <3>3, <1>1
    <3> QED
      BY <3>2, <3>3, <3>4
  <2> QED
    BY <2>1, <2>2, <2>3, <1>1
<1>3. p = <<>> => r = q
  BY ConcatEmptySeq
<1>4. q = <<>> => r = p
  BY ConcatEmptySeq
<1> QED
  BY <1>1, <1>2, <1>3, <1>4

----------------------------------------------------------------------------
(* The lists calls are made of.                                              *)

LEMMA ListEmpty ==
  ASSUME NEW k
  PROVE  /\ <<>> \in Seq(Steps) /\ Legal(k, <<>>)
         /\ Len(<<>>) = 0
<1> DEFINE l == <<>>
<1>1. l \in Seq(Steps) /\ Len(l) = 0 /\ DOMAIN l = 1..0
  BY DEF Steps
<1> HIDE DEF l
<1>2. Legal(k, l)
  BY <1>1 DEF Legal
<1> QED
  BY <1>1, <1>2 DEF l

LEMMA ListReady ==
  ASSUME NEW k
  PROVE  /\ <<"ready">> \in Seq(Steps) /\ Legal(k, <<"ready">>)
         /\ Len(<<"ready">>) = 1
         /\ <<"ready">>[1] = "ready" /\ <<"ready">>[1] = "ready"
<1> DEFINE l == <<"ready">>
<1>1. l \in Seq(Steps) /\ Len(l) = 1 /\ DOMAIN l = 1..1 /\ l[1] = "ready"
  BY DEF Steps
<1> HIDE DEF l
<1>2. Legal(k, l)
  BY <1>1 DEF Legal
<1> QED
  BY <1>1, <1>2 DEF l

LEMMA ListPublish ==
  ASSUME NEW k
  PROVE  /\ <<"publish">> \in Seq(Steps) /\ Legal(k, <<"publish">>)
         /\ Len(<<"publish">>) = 1
         /\ <<"publish">>[1] = "publish" /\ <<"publish">>[1] = "publish"
<1> DEFINE l == <<"publish">>
<1>1. l \in Seq(Steps) /\ Len(l) = 1 /\ DOMAIN l = 1..1 /\ l[1] = "publish"
  BY DEF Steps
<1> HIDE DEF l
<1>2. Legal(k, l)
  BY <1>1 DEF Legal
<1> QED
  BY <1>1, <1>2 DEF l

LEMMA ListAppend ==
  ASSUME NEW k
  PROVE  /\ <<"append">> \in Seq(Steps) /\ Legal(k, <<"append">>)
         /\ Len(<<"append">>) = 1
         /\ <<"append">>[1] = "append" /\ <<"append">>[1] = "append"
<1> DEFINE l == <<"append">>
<1>1. l \in Seq(Steps) /\ Len(l) = 1 /\ DOMAIN l = 1..1 /\ l[1] = "append"
  BY DEF Steps
<1> HIDE DEF l
<1>2. Legal(k, l)
  BY <1>1 DEF Legal
<1> QED
  BY <1>1, <1>2 DEF l

LEMMA ListDrained ==
  ASSUME NEW k
  PROVE  /\ <<"drained">> \in Seq(Steps) /\ Legal(k, <<"drained">>)
         /\ Len(<<"drained">>) = 1
         /\ <<"drained">>[1] = "drained" /\ <<"drained">>[1] = "drained"
<1> DEFINE l == <<"drained">>
<1>1. l \in Seq(Steps) /\ Len(l) = 1 /\ DOMAIN l = 1..1 /\ l[1] = "drained"
  BY DEF Steps
<1> HIDE DEF l
<1>2. Legal(k, l)
  BY <1>1 DEF Legal
<1> QED
  BY <1>1, <1>2 DEF l

LEMMA ListPlanBegin ==
  ASSUME NEW k
  PROVE  /\ <<"plan", "begin">> \in Seq(Steps) /\ Legal(k, <<"plan", "begin">>)
         /\ Len(<<"plan", "begin">>) = 2
         /\ <<"plan", "begin">>[1] = "plan" /\ <<"plan", "begin">>[2] = "begin"
<1> DEFINE l == <<"plan", "begin">>
<1>1. l \in Seq(Steps) /\ Len(l) = 2 /\ DOMAIN l = 1..2
  BY DEF Steps
<1>2. l[1] = "plan" /\ l[2] = "begin"
  OBVIOUS
<1> HIDE DEF l
<1>3. Legal(k, l)
  <2> SUFFICES ASSUME NEW i \in 1..Len(l), i + 1 \in DOMAIN l
               PROVE  Follows(k, l[i], l[i + 1]) /\ AskedFor(l, i)
    BY DEF Legal
  <2>1. i = 1
    BY <1>1
  <2>2. CASE i = 1
    <3>1. l[i] = "plan" /\ l[i + 1] = "begin"
      BY <1>2, <2>2
    <3> QED
      BY <3>1 DEF Follows, After, AskedFor
  <2> QED
    BY <2>1, <2>2
<1> QED
  BY <1>1, <1>2, <1>3 DEF l

LEMMA ListImportAppend ==
  ASSUME NEW k
  PROVE  /\ <<"import", "append">> \in Seq(Steps) /\ Legal(k, <<"import", "append">>)
         /\ Len(<<"import", "append">>) = 2
         /\ <<"import", "append">>[1] = "import" /\ <<"import", "append">>[2] = "append"
<1> DEFINE l == <<"import", "append">>
<1>1. l \in Seq(Steps) /\ Len(l) = 2 /\ DOMAIN l = 1..2
  BY DEF Steps
<1>2. l[1] = "import" /\ l[2] = "append"
  OBVIOUS
<1> HIDE DEF l
<1>3. Legal(k, l)
  <2> SUFFICES ASSUME NEW i \in 1..Len(l), i + 1 \in DOMAIN l
               PROVE  Follows(k, l[i], l[i + 1]) /\ AskedFor(l, i)
    BY DEF Legal
  <2>1. i = 1
    BY <1>1
  <2>2. CASE i = 1
    <3>1. l[i] = "import" /\ l[i + 1] = "append"
      BY <1>2, <2>2
    <3> QED
      BY <3>1 DEF Follows, After, AskedFor
  <2> QED
    BY <2>1, <2>2
<1> QED
  BY <1>1, <1>2, <1>3 DEF l

LEMMA ListSealPublish ==
  ASSUME NEW k
  PROVE  /\ <<"seal", "publish">> \in Seq(Steps) /\ Legal(k, <<"seal", "publish">>)
         /\ Len(<<"seal", "publish">>) = 2
         /\ <<"seal", "publish">>[1] = "seal" /\ <<"seal", "publish">>[2] = "publish"
<1> DEFINE l == <<"seal", "publish">>
<1>1. l \in Seq(Steps) /\ Len(l) = 2 /\ DOMAIN l = 1..2
  BY DEF Steps
<1>2. l[1] = "seal" /\ l[2] = "publish"
  OBVIOUS
<1> HIDE DEF l
<1>3. Legal(k, l)
  <2> SUFFICES ASSUME NEW i \in 1..Len(l), i + 1 \in DOMAIN l
               PROVE  Follows(k, l[i], l[i + 1]) /\ AskedFor(l, i)
    BY DEF Legal
  <2>1. i = 1
    BY <1>1
  <2>2. CASE i = 1
    <3>1. l[i] = "seal" /\ l[i + 1] = "publish"
      BY <1>2, <2>2
    <3> QED
      BY <3>1 DEF Follows, After, AskedFor
  <2> QED
    BY <2>1, <2>2
<1> QED
  BY <1>1, <1>2, <1>3 DEF l

LEMMA ListInvalidateCancel ==
  ASSUME NEW k
  PROVE  /\ <<"invalidate", "cancel">> \in Seq(Steps) /\ Legal(k, <<"invalidate", "cancel">>)
         /\ Len(<<"invalidate", "cancel">>) = 2
         /\ <<"invalidate", "cancel">>[1] = "invalidate" /\ <<"invalidate", "cancel">>[2] = "cancel"
<1> DEFINE l == <<"invalidate", "cancel">>
<1>1. l \in Seq(Steps) /\ Len(l) = 2 /\ DOMAIN l = 1..2
  BY DEF Steps
<1>2. l[1] = "invalidate" /\ l[2] = "cancel"
  OBVIOUS
<1> HIDE DEF l
<1>3. Legal(k, l)
  <2> SUFFICES ASSUME NEW i \in 1..Len(l), i + 1 \in DOMAIN l
               PROVE  Follows(k, l[i], l[i + 1]) /\ AskedFor(l, i)
    BY DEF Legal
  <2>1. i = 1
    BY <1>1
  <2>2. CASE i = 1
    <3>1. l[i] = "invalidate" /\ l[i + 1] = "cancel"
      BY <1>2, <2>2
    <3> QED
      BY <3>1 DEF Follows, After, AskedFor
  <2> QED
    BY <2>1, <2>2
<1> QED
  BY <1>1, <1>2, <1>3 DEF l

LEMMA ListReadyAppend ==
  ASSUME NEW k, k # "restore"
  PROVE  /\ <<"ready", "append">> \in Seq(Steps) /\ Legal(k, <<"ready", "append">>)
         /\ Len(<<"ready", "append">>) = 2
         /\ <<"ready", "append">>[1] = "ready" /\ <<"ready", "append">>[2] = "append"
<1> DEFINE l == <<"ready", "append">>
<1>1. l \in Seq(Steps) /\ Len(l) = 2 /\ DOMAIN l = 1..2
  BY DEF Steps
<1>2. l[1] = "ready" /\ l[2] = "append"
  OBVIOUS
<1> HIDE DEF l
<1>3. Legal(k, l)
  <2> SUFFICES ASSUME NEW i \in 1..Len(l), i + 1 \in DOMAIN l
               PROVE  Follows(k, l[i], l[i + 1]) /\ AskedFor(l, i)
    BY DEF Legal
  <2>1. i = 1
    BY <1>1
  <2>2. CASE i = 1
    <3>1. l[i] = "ready" /\ l[i + 1] = "append"
      BY <1>2, <2>2
    <3> QED
      BY <3>1 DEF Follows, After, AskedFor
  <2> QED
    BY <2>1, <2>2
<1> QED
  BY <1>1, <1>2, <1>3 DEF l

LEMMA ListLate ==
  ASSUME NEW k, k # "restore"
  PROVE  /\ <<"seal", "publish", "plan", "begin">> \in Seq(Steps) /\ Legal(k, <<"seal", "publish", "plan", "begin">>)
         /\ Len(<<"seal", "publish", "plan", "begin">>) = 4
         /\ <<"seal", "publish", "plan", "begin">>[1] = "seal" /\ <<"seal", "publish", "plan", "begin">>[4] = "begin"
<1> DEFINE l == <<"seal", "publish", "plan", "begin">>
<1>1. l \in Seq(Steps) /\ Len(l) = 4 /\ DOMAIN l = 1..4
  BY DEF Steps
<1>2. l[1] = "seal" /\ l[2] = "publish" /\ l[3] = "plan" /\ l[4] = "begin"
  OBVIOUS
<1> HIDE DEF l
<1>3. Legal(k, l)
  <2> SUFFICES ASSUME NEW i \in 1..Len(l), i + 1 \in DOMAIN l
               PROVE  Follows(k, l[i], l[i + 1]) /\ AskedFor(l, i)
    BY DEF Legal
  <2>1. i = 1 \/ i = 2 \/ i = 3
    BY <1>1
  <2>2. CASE i = 1
    <3>1. l[i] = "seal" /\ l[i + 1] = "publish"
      BY <1>2, <2>2
    <3> QED
      BY <3>1 DEF Follows, After, AskedFor
  <2>3. CASE i = 2
    <3>1. l[i] = "publish" /\ l[i + 1] = "plan"
      BY <1>2, <2>3
    <3> QED
      BY <3>1 DEF Follows, After, AskedFor
  <2>4. CASE i = 3
    <3>1. l[i] = "plan" /\ l[i + 1] = "begin"
      BY <1>2, <2>4
    <3> QED
      BY <3>1 DEF Follows, After, AskedFor
  <2> QED
    BY <2>1, <2>2, <2>3, <2>4
<1> QED
  BY <1>1, <1>2, <1>3 DEF l

LEMMA ListWhole ==
  ASSUME NEW k
  PROVE  /\ <<"plan", "begin", "seal", "publish">> \in Seq(Steps) /\ Legal(k, <<"plan", "begin", "seal", "publish">>)
         /\ Len(<<"plan", "begin", "seal", "publish">>) = 4
         /\ <<"plan", "begin", "seal", "publish">>[1] = "plan" /\ <<"plan", "begin", "seal", "publish">>[4] = "publish"
<1> DEFINE l == <<"plan", "begin", "seal", "publish">>
<1>1. l \in Seq(Steps) /\ Len(l) = 4 /\ DOMAIN l = 1..4
  BY DEF Steps
<1>2. l[1] = "plan" /\ l[2] = "begin" /\ l[3] = "seal" /\ l[4] = "publish"
  OBVIOUS
<1> HIDE DEF l
<1>3. Legal(k, l)
  <2> SUFFICES ASSUME NEW i \in 1..Len(l), i + 1 \in DOMAIN l
               PROVE  Follows(k, l[i], l[i + 1]) /\ AskedFor(l, i)
    BY DEF Legal
  <2>1. i = 1 \/ i = 2 \/ i = 3
    BY <1>1
  <2>2. CASE i = 1
    <3>1. l[i] = "plan" /\ l[i + 1] = "begin"
      BY <1>2, <2>2
    <3> QED
      BY <3>1 DEF Follows, After, AskedFor
  <2>3. CASE i = 2
    <3>1. l[i] = "begin" /\ l[i + 1] = "seal"
      BY <1>2, <2>3
    <3> QED
      BY <3>1 DEF Follows, After, AskedFor
  <2>4. CASE i = 3
    <3>1. l[i] = "seal" /\ l[i + 1] = "publish"
      BY <1>2, <2>4
    <3> QED
      BY <3>1 DEF Follows, After, AskedFor
  <2> QED
    BY <2>1, <2>2, <2>3, <2>4
<1> QED
  BY <1>1, <1>2, <1>3 DEF l

LEMMA ListAgain ==
  ASSUME NEW k, k # "restore"
  PROVE  /\ <<"ready", "seal", "publish", "plan", "begin", "append">> \in Seq(Steps) /\ Legal(k, <<"ready", "seal", "publish", "plan", "begin", "append">>)
         /\ Len(<<"ready", "seal", "publish", "plan", "begin", "append">>) = 6
         /\ <<"ready", "seal", "publish", "plan", "begin", "append">>[1] = "ready" /\ <<"ready", "seal", "publish", "plan", "begin", "append">>[6] = "append"
<1> DEFINE l == <<"ready", "seal", "publish", "plan", "begin", "append">>
<1>1. l \in Seq(Steps) /\ Len(l) = 6 /\ DOMAIN l = 1..6
  BY DEF Steps
<1>2. l[1] = "ready" /\ l[2] = "seal" /\ l[3] = "publish" /\ l[4] = "plan" /\ l[5] = "begin" /\ l[6] = "append"
  OBVIOUS
<1> HIDE DEF l
<1>3. Legal(k, l)
  <2> SUFFICES ASSUME NEW i \in 1..Len(l), i + 1 \in DOMAIN l
               PROVE  Follows(k, l[i], l[i + 1]) /\ AskedFor(l, i)
    BY DEF Legal
  <2>1. i = 1 \/ i = 2 \/ i = 3 \/ i = 4 \/ i = 5
    BY <1>1
  <2>2. CASE i = 1
    <3>1. l[i] = "ready" /\ l[i + 1] = "seal"
      BY <1>2, <2>2
    <3> QED
      BY <3>1 DEF Follows, After, AskedFor
  <2>3. CASE i = 2
    <3>1. l[i] = "seal" /\ l[i + 1] = "publish"
      BY <1>2, <2>3
    <3> QED
      BY <3>1 DEF Follows, After, AskedFor
  <2>4. CASE i = 3
    <3>1. l[i] = "publish" /\ l[i + 1] = "plan"
      BY <1>2, <2>4
    <3> QED
      BY <3>1 DEF Follows, After, AskedFor
  <2>5. CASE i = 4
    <3>1. l[i] = "plan" /\ l[i + 1] = "begin"
      BY <1>2, <2>5
    <3> QED
      BY <3>1 DEF Follows, After, AskedFor
  <2>6. CASE i = 5
    <3>1. l[i] = "begin" /\ l[i + 1] = "append"
      BY <1>2, <2>6
    <3> QED
      BY <3>1 DEF Follows, After, AskedFor
  <2> QED
    BY <2>1, <2>2, <2>3, <2>4, <2>5, <2>6
<1> QED
  BY <1>1, <1>2, <1>3 DEF l

LEMMA ListAnew ==
  ASSUME NEW k
  PROVE  /\ <<"plan", "begin", "import", "append">> \in Seq(Steps) /\ Legal(k, <<"plan", "begin", "import", "append">>)
         /\ Len(<<"plan", "begin", "import", "append">>) = 4
         /\ <<"plan", "begin", "import", "append">>[1] = "plan" /\ <<"plan", "begin", "import", "append">>[4] = "append"
<1> DEFINE l == <<"plan", "begin", "import", "append">>
<1>1. l \in Seq(Steps) /\ Len(l) = 4 /\ DOMAIN l = 1..4
  BY DEF Steps
<1>2. l[1] = "plan" /\ l[2] = "begin" /\ l[3] = "import" /\ l[4] = "append"
  OBVIOUS
<1> HIDE DEF l
<1>3. Legal(k, l)
  <2> SUFFICES ASSUME NEW i \in 1..Len(l), i + 1 \in DOMAIN l
               PROVE  Follows(k, l[i], l[i + 1]) /\ AskedFor(l, i)
    BY DEF Legal
  <2>1. i = 1 \/ i = 2 \/ i = 3
    BY <1>1
  <2>2. CASE i = 1
    <3>1. l[i] = "plan" /\ l[i + 1] = "begin"
      BY <1>2, <2>2
    <3> QED
      BY <3>1 DEF Follows, After, AskedFor
  <2>3. CASE i = 2
    <3>1. l[i] = "begin" /\ l[i + 1] = "import"
      BY <1>2, <2>3
    <3> QED
      BY <3>1 DEF Follows, After, AskedFor
  <2>4. CASE i = 3
    <3>1. l[i] = "import" /\ l[i + 1] = "append"
      BY <1>2, <2>4
    <3> QED
      BY <3>1 DEF Follows, After, AskedFor
  <2> QED
    BY <2>1, <2>2, <2>3, <2>4
<1> QED
  BY <1>1, <1>2, <1>3 DEF l

LEMMA ListCancelled ==
  ASSUME NEW k, k # "scene"
  PROVE  /\ <<"cancel", "invalidate", "cancel">> \in Seq(Steps) /\ Legal(k, <<"cancel", "invalidate", "cancel">>)
         /\ Len(<<"cancel", "invalidate", "cancel">>) = 3
         /\ <<"cancel", "invalidate", "cancel">>[1] = "cancel" /\ <<"cancel", "invalidate", "cancel">>[3] = "cancel"
<1> DEFINE l == <<"cancel", "invalidate", "cancel">>
<1>1. l \in Seq(Steps) /\ Len(l) = 3 /\ DOMAIN l = 1..3
  BY DEF Steps
<1>2. l[1] = "cancel" /\ l[2] = "invalidate" /\ l[3] = "cancel"
  OBVIOUS
<1> HIDE DEF l
<1>3. Legal(k, l)
  <2> SUFFICES ASSUME NEW i \in 1..Len(l), i + 1 \in DOMAIN l
               PROVE  Follows(k, l[i], l[i + 1]) /\ AskedFor(l, i)
    BY DEF Legal
  <2>1. i = 1 \/ i = 2
    BY <1>1
  <2>2. CASE i = 1
    <3>1. l[i] = "cancel" /\ l[i + 1] = "invalidate"
      BY <1>2, <2>2
    <3> QED
      BY <3>1 DEF Follows, After, AskedFor
  <2>3. CASE i = 2
    <3>1. l[i] = "invalidate" /\ l[i + 1] = "cancel"
      BY <1>2, <2>3
    <3> QED
      BY <3>1 DEF Follows, After, AskedFor
  <2> QED
    BY <2>1, <2>2, <2>3
<1> QED
  BY <1>1, <1>2, <1>3 DEF l

LEMMA ListRestore ==
  ASSUME NEW k
  PROVE  /\ <<"rebase", "ready", "drained", "plan", "begin", "import", "append">> \in Seq(Steps) /\ Legal(k, <<"rebase", "ready", "drained", "plan", "begin", "import", "append">>)
         /\ Len(<<"rebase", "ready", "drained", "plan", "begin", "import", "append">>) = 7
         /\ <<"rebase", "ready", "drained", "plan", "begin", "import", "append">>[1] = "rebase" /\ <<"rebase", "ready", "drained", "plan", "begin", "import", "append">>[7] = "append"
<1> DEFINE l == <<"rebase", "ready", "drained", "plan", "begin", "import", "append">>
<1>1. l \in Seq(Steps) /\ Len(l) = 7 /\ DOMAIN l = 1..7
  BY DEF Steps
<1>2. l[1] = "rebase" /\ l[2] = "ready" /\ l[3] = "drained" /\ l[4] = "plan" /\ l[5] = "begin" /\ l[6] = "import" /\ l[7] = "append"
  OBVIOUS
<1> HIDE DEF l
<1>3. Legal(k, l)
  <2> SUFFICES ASSUME NEW i \in 1..Len(l), i + 1 \in DOMAIN l
               PROVE  Follows(k, l[i], l[i + 1]) /\ AskedFor(l, i)
    BY DEF Legal
  <2>1. i = 1 \/ i = 2 \/ i = 3 \/ i = 4 \/ i = 5 \/ i = 6
    BY <1>1
  <2>2. CASE i = 1
    <3>1. l[i] = "rebase" /\ l[i + 1] = "ready"
      BY <1>2, <2>2
    <3>2. l[i + 2] = "drained" /\ i + 2 \in DOMAIN l
      BY <1>1, <1>2, <2>2
    <3> QED
      BY <3>1, <3>2 DEF Follows, After, AskedFor
  <2>3. CASE i = 2
    <3>1. l[i] = "ready" /\ l[i + 1] = "drained"
      BY <1>2, <2>3
    <3> QED
      BY <3>1 DEF Follows, After, AskedFor
  <2>4. CASE i = 3
    <3>1. l[i] = "drained" /\ l[i + 1] = "plan"
      BY <1>2, <2>4
    <3> QED
      BY <3>1 DEF Follows, After, AskedFor
  <2>5. CASE i = 4
    <3>1. l[i] = "plan" /\ l[i + 1] = "begin"
      BY <1>2, <2>5
    <3> QED
      BY <3>1 DEF Follows, After, AskedFor
  <2>6. CASE i = 5
    <3>1. l[i] = "begin" /\ l[i + 1] = "import"
      BY <1>2, <2>6
    <3> QED
      BY <3>1 DEF Follows, After, AskedFor
  <2>7. CASE i = 6
    <3>1. l[i] = "import" /\ l[i + 1] = "append"
      BY <1>2, <2>7
    <3> QED
      BY <3>1 DEF Follows, After, AskedFor
  <2> QED
    BY <2>1, <2>2, <2>3, <2>4, <2>5, <2>6, <2>7
<1> QED
  BY <1>1, <1>2, <1>3 DEF l

LEMMA FirstIsHead ==
  ASSUME NEW l \in Seq(Steps), l # <<>>
  PROVE  Head(l) = l[1] /\ Len(l) \in Nat \ {0}
BY HeadTailProperties

LEMMA Ends ==
  ASSUME NEW p \in Seq(Steps), NEW q \in Seq(Steps), p # <<>>, q # <<>>
  PROVE  /\ p \o q # <<>> /\ p \o q \in Seq(Steps)
         /\ (p \o q)[1] = p[1] /\ Head(p \o q) = p[1]
         /\ (p \o q)[Len(p \o q)] = q[Len(q)]
<1> DEFINE r == p \o q
<1>1. /\ r \in Seq(Steps) /\ Len(r) = Len(p) + Len(q)
      /\ \A i \in 1..(Len(p) + Len(q)) : r[i] = IF i <= Len(p) THEN p[i] ELSE q[i - Len(p)]
      /\ Len(p) \in Nat \ {0} /\ Len(q) \in Nat \ {0}
  BY ConcatProperties, EmptySeq
<1> HIDE DEF r
<1>2. r # <<>>
  <2>1. Len(<<>>) = 0
    OBVIOUS
  <2> QED
    BY <1>1, <2>1
<1>3. r[1] = p[1] /\ r[Len(r)] = q[Len(q)]
  <2>1. 1 \in 1..(Len(p) + Len(q)) /\ 1 <= Len(p)
    BY <1>1
  <2>2. Len(r) \in 1..(Len(p) + Len(q)) /\ ~(Len(r) <= Len(p)) /\ Len(r) - Len(p) = Len(q)
    BY <1>1
  <2> QED
    BY <2>1, <2>2, <1>1
<1>4. Head(r) = r[1]
  BY <1>1, <1>2, FirstIsHead
<1> QED
  BY <1>1, <1>2, <1>3, <1>4 DEF r

LEMMA ConcatSteps ==
  ASSUME NEW p \in Seq(Steps), NEW x \in Seq(Steps)
  PROVE  /\ p \o x \in Seq(Steps) /\ Len(p \o x) = Len(p) + Len(x)
         /\ Len(p) \in Nat /\ Len(x) \in Nat
         /\ \A i \in 1..(Len(p) + Len(x)) :
              (p \o x)[i] = IF i <= Len(p) THEN p[i] ELSE x[i - Len(p)]
BY ConcatProperties

LEMMA ReadyFirst ==
  ASSUME NEW x \in Seq(Steps)
  PROVE  /\ <<"ready">> \o x \in Seq(Steps) /\ <<"ready">> \o x # <<>>
         /\ Head(<<"ready">> \o x) = "ready" /\ Tail(<<"ready">> \o x) = x
<1> DEFINE p == <<"ready">> r == p \o x
<1>1. p \in Seq(Steps) /\ Len(p) = 1 /\ p[1] = "ready"
  BY DEF Steps
<1> HIDE DEF p
<1>2. /\ r \in Seq(Steps) /\ Len(r) = 1 + Len(x) /\ Len(x) \in Nat
      /\ \A i \in 1..(1 + Len(x)) : r[i] = IF i <= 1 THEN p[i] ELSE x[i - 1]
  <2>1. /\ r \in Seq(Steps) /\ Len(r) = Len(p) + Len(x) /\ Len(x) \in Nat
        /\ \A i \in 1..(Len(p) + Len(x)) : r[i] = IF i <= Len(p) THEN p[i] ELSE x[i - Len(p)]
    BY <1>1, ConcatSteps
  <2> HIDE DEF r
  <2> QED
    BY <1>1, <2>1
<1> HIDE DEF r
<1>3. r # <<>>
  <2>1. Len(<<>>) = 0
    OBVIOUS
  <2> QED
    BY <1>2, <2>1
<1>4. Head(r) = "ready"
  <2>1. Head(r) = r[1] /\ 1 \in 1..(1 + Len(x))
    BY <1>2, <1>3, FirstIsHead
  <2> QED
    BY <2>1, <1>1, <1>2
<1>5. Tail(r) = x
  <2> DEFINE t == Tail(r)
  <2>1. t \in Seq(Steps) /\ Len(t) = Len(r) - 1 /\ \A i \in 1..Len(t) : t[i] = r[i + 1]
    BY <1>2, <1>3, HeadTailProperties
  <2> HIDE DEF t
  <2>2. Len(t) = Len(x)
    BY <2>1, <1>2
  <2>3. ASSUME NEW i \in 1..Len(t)
        PROVE  t[i] = x[i]
    <3>1. i + 1 \in 1..(1 + Len(x)) /\ ~(i + 1 <= 1) /\ (i + 1) - 1 = i
      BY <2>2, <1>2
    <3>2. r[i + 1] = x[(i + 1) - 1]
      BY <3>1, <1>2
    <3> QED
      BY <3>1, <3>2, <2>1
  <2>4. t = x
    BY <2>1, <2>2, <2>3, SeqEqual
  <2> QED
    BY <2>4 DEF t
<1> QED
  BY <1>2, <1>3, <1>4, <1>5 DEF r, p

(* A call that asks the lane first.                                          *)
LEMMA Guarded ==
  ASSUME NEW k, NEW x \in Seq(Steps), Legal(k, x),
         x # <<>> => x[1] \in {"append", "import", "seal", "publish", "plan", "drained"}
                     \/ (x[1] = "ready" /\ Len(x) >= 2 /\ x[2] = "append"),
         k = "restore" => x[1] \in {"seal", "publish", "drained"},
         NEW b, NEW p, Finds(x, b, p)
  PROVE  LET l == <<"ready">> \o x
         IN  l \in Seq(Steps) /\ Legal(k, l) /\ l # <<>> /\ Head(l) = "ready"
             /\ Finds(Tail(l), b, p)
<1> DEFINE r == <<"ready">>
<1>1. r \in Seq(Steps) /\ Legal(k, r) /\ Len(r) = 1 /\ r[1] = "ready"
  BY ListReady
<1> HIDE DEF r
<1>2. x # <<>> => Follows(k, r[Len(r)], x[1])
  BY <1>1 DEF Follows, After
<1>3. r \o x \in Seq(Steps) /\ Legal(k, r \o x)
  BY <1>1, <1>2, Joined
<1>4. /\ r \o x # <<>> /\ Head(r \o x) = "ready" /\ Tail(r \o x) = x
  BY ReadyFirst DEF r
<1> QED
  BY <1>3, <1>4 DEF r

(* The three pieces of a call depend on what is built.                       *)
LEMMA BeginChunkList ==
  ASSUME NEW k, k # "restore", builder = NoCommit \/ pending = NoCommit
  PROVE  /\ BeginChunk \in Seq(Steps) /\ Legal(k, BeginChunk)
         /\ BeginChunk = <<>> => builder # NoCommit
         /\ BeginChunk # <<>> =>
              /\ BeginChunk[Len(BeginChunk)] = "begin"
              /\ \/ BeginChunk[1] = "plan" /\ builder = NoCommit /\ pending = NoCommit
                 \/ BeginChunk[1] = "publish" /\ pending # NoCommit
<1> DEFINE e == <<>> u == <<"publish">> v == <<"plan", "begin">>
<1>1. /\ e \in Seq(Steps) /\ Legal(k, e)
      /\ u \in Seq(Steps) /\ Legal(k, u) /\ Len(u) = 1 /\ u[1] = "publish"
      /\ v \in Seq(Steps) /\ Legal(k, v) /\ Len(v) = 2 /\ v[1] = "plan" /\ v[2] = "begin"
  BY ListEmpty, ListPublish, ListPlanBegin
<1>2. e \o e = e /\ e \o v = v
  BY <1>1, ConcatEmptySeq
<1>3. BeginChunk = (IF pending = NoCommit THEN e ELSE u) \o (IF Building THEN e ELSE v)
  BY DEF BeginChunk, PublishSteps, BeginSteps
<1>4. CASE builder # NoCommit
  <2>1. pending = NoCommit
    BY <1>4
  <2>2. BeginChunk = e \o e
    BY <2>1, <1>3, <1>4 DEF Building
  <2>3. BeginChunk = <<>>
    BY <2>2, <1>2
  <2>4. Legal(k, <<>>) /\ <<>> \in Seq(Steps)
    BY <1>1
  <2>5. Legal(k, BeginChunk) /\ BeginChunk \in Seq(Steps)
    BY <2>3, <2>4
  <2> QED
    BY <1>4, <2>3, <2>5
<1>5. CASE builder = NoCommit /\ pending = NoCommit
  <2>1. BeginChunk = v
    BY <1>2, <1>3, <1>5 DEF Building
  <2>2. v # <<>>
    OBVIOUS
  <2> HIDE DEF v
  <2> QED
    BY <1>1, <1>5, <2>1, <2>2
<1>6. CASE pending # NoCommit
  <2>1. BeginChunk = u \o v
    BY <1>3, <1>6 DEF Building
  <2>2. u # <<>> /\ v # <<>>
    OBVIOUS
  <2> HIDE DEF u, v
  <2>3. Follows(k, u[Len(u)], v[1])
    BY <1>1 DEF Follows, After
  <2>4. u \o v \in Seq(Steps) /\ Legal(k, u \o v)
    BY <1>1, <2>3, Joined
  <2>5. (u \o v)[1] = u[1] /\ (u \o v)[Len(u \o v)] = v[Len(v)] /\ u \o v # <<>>
    BY <1>1, <2>2, Ends
  <2> QED
    BY <1>1, <1>6, <2>1, <2>4, <2>5
<1> QED
  BY <1>4, <1>5, <1>6

LEMMA FlushList ==
  ASSUME NEW k, k # "restore", NEW boundary \in BOOLEAN,
         builder = NoCommit \/ pending = NoCommit
  PROVE  LET l == FlushSteps(boundary)
         IN  /\ l \in Seq(Steps) /\ Legal(k, l)
             /\ l = <<>> => builder = NoCommit /\ pending = NoCommit
             /\ l # <<>> =>
                  /\ l[Len(l)] = "publish"
                  /\ \/ l[1] = "plan" /\ builder = NoCommit /\ pending = NoCommit
                     \/ l[1] = "publish" /\ pending # NoCommit
                     \/ l[1] = "seal" /\ builder # NoCommit
<1> DEFINE e == <<>> u == <<"publish">> v == <<"plan", "begin">>
           w == <<"seal", "publish">> y == <<"plan", "begin", "seal", "publish">>
<1>1. /\ e \in Seq(Steps) /\ Legal(k, e)
      /\ u \in Seq(Steps) /\ Legal(k, u) /\ Len(u) = 1 /\ u[1] = "publish"
      /\ v \in Seq(Steps) /\ Legal(k, v) /\ Len(v) = 2 /\ v[1] = "plan" /\ v[2] = "begin"
      /\ w \in Seq(Steps) /\ Legal(k, w) /\ Len(w) = 2 /\ w[1] = "seal" /\ w[2] = "publish"
      /\ y \in Seq(Steps) /\ Legal(k, y) /\ Len(y) = 4 /\ y[1] = "plan" /\ y[4] = "publish"
  BY ListEmpty, ListPublish, ListPlanBegin, ListSealPublish, ListWhole
<1>2. u # <<>> /\ v # <<>> /\ w # <<>> /\ y # <<>> /\ u \o e = u
  BY <1>1, ConcatEmptySeq
<1>3. FlushSteps(boundary) =
        IF pending # NoCommit
        THEN u \o (IF ~boundary \/ pending.boundary THEN e
                   ELSE (IF Building THEN e ELSE v) \o w)
        ELSE IF Building THEN w ELSE IF boundary THEN y ELSE e
  BY DEF FlushSteps, BeginSteps
<1> HIDE DEF u, v, w, y
<1>4. CASE pending # NoCommit /\ (~boundary \/ pending.boundary)
  BY <1>1, <1>2, <1>3, <1>4
<1>5. CASE pending # NoCommit /\ ~(~boundary \/ pending.boundary)
  <2>1. FlushSteps(boundary) = u \o (v \o w)
    BY <1>3, <1>5 DEF Building
  <2>2. Follows(k, v[Len(v)], w[1]) /\ Follows(k, u[Len(u)], v[1])
    BY <1>1 DEF Follows, After
  <2>3. v \o w \in Seq(Steps) /\ Legal(k, v \o w)
    BY <1>1, <2>2, Joined
  <2>4. (v \o w)[1] = "plan" /\ (v \o w)[Len(v \o w)] = "publish" /\ v \o w # <<>>
    <3>1. /\ v \o w # <<>> /\ (v \o w)[1] = v[1]
          /\ (v \o w)[Len(v \o w)] = w[Len(w)]
      BY <1>1, <1>2, Ends
    <3>2. w[Len(w)] = "publish"
      BY <1>1
    <3> QED
      BY <1>1, <3>1, <3>2
  <2>5. u \o (v \o w) \in Seq(Steps) /\ Legal(k, u \o (v \o w))
    BY <1>1, <2>2, <2>3, <2>4, Joined
  <2>6. /\ (u \o (v \o w))[1] = "publish"
        /\ (u \o (v \o w))[Len(u \o (v \o w))] = "publish" /\ u \o (v \o w) # <<>>
    BY <1>1, <1>2, <2>3, <2>4, Ends
  <2> QED
    BY <1>5, <2>1, <2>5, <2>6
<1>6. CASE pending = NoCommit /\ Building
  BY <1>1, <1>2, <1>3, <1>6 DEF Building
<1>7. CASE pending = NoCommit /\ ~Building /\ boundary
  BY <1>1, <1>2, <1>3, <1>7 DEF Building
<1>8. CASE pending = NoCommit /\ ~Building /\ ~boundary
  BY <1>1, <1>2, <1>3, <1>8 DEF Building
<1> QED
  BY <1>4, <1>5, <1>6, <1>7, <1>8

----------------------------------------------------------------------------
(* Parts of the state.                                                       *)

LEMMA NoCommitFacts ==
  /\ NoCommit \in CommitRecord /\ NoCommit.items = <<>> /\ NoCommit.epoch = 0
  /\ NoCommit.alive = FALSE /\ NoCommit.cycle = 0 /\ <<>> \in Seq(Nat)
BY DEF NoCommit, CommitRecord

LEMMA EpochCycleTyped ==
  ASSUME Typed
  PROVE  EpochCycle \in Nat
BY DEF Typed, EpochCycle

(* The cycle of a publication is the latest of three.                        *)
LEMMA CycleIsLatest ==
  ASSUME Typed, NEW c \in Nat
  PROVE  /\ PublicationCycle(c) \in Nat
         /\ PublicationCycle(c) \in {c, boundaryCycle, EpochCycle}
         /\ PublicationCycle(c) >= c
         /\ PublicationCycle(c) >= boundaryCycle
         /\ PublicationCycle(c) >= EpochCycle
<1> DEFINE S == {c, boundaryCycle, EpochCycle}
<1>1. S \subseteq Nat
  BY EpochCycleTyped DEF Typed
<1>2. \E m \in S : \A o \in S : o <= m
  BY <1>1
<1>3. PublicationCycle(c) \in S /\ \A o \in S : o <= PublicationCycle(c)
  BY <1>2 DEF PublicationCycle
<1> QED
  BY <1>1, <1>3

(* A step that is done.                                                      *)
LEMMA Advance ==
  ASSUME Typed, Placed, todo # <<>>, Then(<<>>)
  PROVE  /\ todo' = Tail(todo) /\ call' = call
         /\ todo' \in Seq(Steps) /\ Legal(call.kind, todo')
         /\ todo' # <<>> =>
              /\ Follows(call.kind, Head(todo), Head(todo'))
              /\ Head(todo') = "ready" =>
                   /\ Tail(todo') # <<>>
                   /\ Head(Tail(todo')) =
                        (IF Head(todo) = "rebase" THEN "drained" ELSE "append")
<1>1. todo \in Seq(Steps) /\ Legal(call.kind, todo)
  BY DEF Typed, Placed
<1>2. Tail(todo) \in Seq(Steps)
  BY <1>1, HeadTailProperties
<1>3. <<>> \o Tail(todo) = Tail(todo)
  BY <1>2, ConcatEmptySeq
<1>4. todo' = Tail(todo) /\ call' = call
  BY <1>3 DEF Then
<1> QED
  BY <1>1, <1>4, TailLegal

(* Where nothing is to do, nothing is claimed about what comes.              *)
LEMMA Stopped ==
  ASSUME todo' = <<>>, NEW k
  PROVE  /\ todo' \in Seq(Steps) /\ Legal(k, todo') /\ \A b, p : Finds(todo', b, p)
         /\ \A step : ~At(step)'
<1>1. todo' \in Seq(Steps) /\ DOMAIN todo' = {} /\ Len(todo') = 0
  OBVIOUS
<1> QED
  BY <1>1 DEF Legal, Finds, At

----------------------------------------------------------------------------
(* The steps of the collector, one after the other.                          *)

LEMMA ReadyKeeps ==
  ASSUME WorkInv, StepReady
  PROVE  WorkInv'
<1> USE DEF StepReady
<1>1. /\ Lane!InSequence /\ Typed /\ Placed /\ Timely /\ Kept /\ Restored /\ Drained
  BY DEF WorkInv
<1>2. todo # <<>> /\ Head(todo) = "ready" /\ Ready /\ Enter /\ Then(<<>>)
  BY DEF On, At, Accepted
<1>3. /\ UNCHANGED <<laneVars, clock, rooms, chunk, history>>
      /\ UNCHANGED <<epoch, open, blocked, published, applied, acked, lastCycle,
                     boundaryCycle, held, stale, builder, pending, counts, stream, out, lost>>
      /\ cEpoch' = epoch /\ workEpoch' = epoch /\ cEpoch \in {0, epoch}
  BY <1>2 DEF laneVars, clock, rooms, chunk, history, Enter, Ready
<1>4. /\ todo' = Tail(todo) /\ call' = call
      /\ todo' \in Seq(Steps) /\ Legal(call.kind, todo')
      /\ todo' # <<>> =>
           /\ Follows(call.kind, "ready", Head(todo'))
           /\ Head(todo') = "ready" => Tail(todo') # <<>> /\ Head(Tail(todo')) = "append"
  BY <1>1, <1>2, Advance
<1>5. call.cycle \in Nat
  BY <1>1 DEF Typed
<1>6. /\ workCycle' \in Nat /\ workCycle' >= EpochCycle /\ EpochCycle' = workCycle'
      /\ pending = NoCommit => workCycle' >= call.cycle /\ workCycle' >= boundaryCycle
  <2>1. workCycle' = EpochCycle \/ workCycle' = PublicationCycle(call.cycle)
    OBVIOUS
  <2>2. pending = NoCommit => workCycle' = PublicationCycle(call.cycle)
    OBVIOUS
  <2>3. EpochCycle' = workCycle'
    BY <1>3 DEF EpochCycle
  <2> QED
    BY <2>1, <2>2, <2>3, <1>1, <1>5, CycleIsLatest, EpochCycleTyped
<1>7. Lane!InSequence'
  BY <1>1, <1>3 DEF Lane!InSequence
<1>8. Typed'
  <2>1. epoch \in Nat
    BY <1>1, WorkAssumption DEF Lane!InSequence
  <2> QED
    BY <2>1, <1>1, <1>3, <1>4, <1>6 DEF Typed
<1>9. Placed'
  <2>1. Finds(Tail(todo), builder, pending) /\ (builder = NoCommit \/ pending = NoCommit)
    BY <1>1, <1>2 DEF Placed, At
  <2>2. Finds(todo', builder', pending')
    BY <2>1, <1>3, <1>4 DEF Finds
  <2>3. Head(todo') = "ready" /\ todo' # <<>> => Finds(Tail(todo'), builder', pending')
    BY <2>1, <1>3, <1>4 DEF Finds
  <2>4. ~At("begin")'
    BY <1>4 DEF At, Follows, After
  <2> QED
    BY <2>1, <2>2, <2>3, <2>4, <1>3, <1>4 DEF Placed, At
<1>10. Timely'
  <2>1. cEpoch' <= epoch' /\ workEpoch' <= epoch'
    BY <1>1, <1>3, WorkAssumption DEF Lane!InSequence
  <2>2. Current(builder)' /\ Current(pending)'
    <3>1. EpochCycle \in Nat /\ epoch \in Nat /\ EpochCycle' \in Nat /\ EpochCycle' >= EpochCycle
      BY <1>1, <1>3, <1>6, EpochCycleTyped, WorkAssumption DEF Lane!InSequence
    <3>2. ASSUME NEW c \in CommitRecord, Current(c),
                 c # NoCommit => c.cycle \in Nat
          PROVE  c # NoCommit => /\ c.epoch = cEpoch' /\ c.epoch # 0
                                 /\ c.epoch = epoch' =>
                                      /\ c.seq = published' + 1 /\ c.cycle <= EpochCycle'
                                      /\ workEpoch' = epoch'
      <4> HIDE DEF EpochCycle
      <4> QED
        BY <1>3, <3>1, <3>2 DEF Current
    <3>3. builder \in CommitRecord /\ pending \in CommitRecord /\ Current(builder) /\ Current(pending)
      BY <1>1 DEF Typed, Timely
    <3> QED
      BY <1>3, <3>2, <3>3 DEF Current, CommitRecord
  <2>3. lastCycle' <= EpochCycle'
    BY <1>1, <1>3, <1>6, EpochCycleTyped DEF Timely, Typed
  <2>4. ~At("begin")'
    BY <1>4 DEF At, Follows, After
  <2>5. At("seal")' => pending = NoCommit
    BY <1>1, <1>2, <1>4 DEF At, Placed, Finds
  <2>6. pending' # NoCommit /\ pending'.epoch = epoch' => lastCycle' <= pending'.cycle
    BY <1>1, <1>3 DEF Timely
  <2> QED
    BY <2>1, <2>2, <2>3, <2>4, <2>5, <2>6, <1>3, <1>4, <1>6 DEF Timely
<1>11. Kept'
  BY <1>1, <1>3 DEF Kept, Collected, Rising
<1>12. Restored'
  <2>1. ASSUME call.kind = "restore", todo' # <<>>
        PROVE  /\ Head(todo') \notin {"plan", "begin", "import", "append"}
               /\ stream = <<>> /\ Collected = <<>> /\ counts = NoCount
    BY <2>1, <1>1, <1>2, <1>4 DEF Restored, Follows, After
  <2>2. ASSUME NEW i \in DOMAIN builder.items, builder.items[i] = 0
        PROVE  Alone'
    <3>1. builder # NoCommit
      BY <2>2, NoCommitFacts
    <3>2. cEpoch = epoch
      BY <3>1, <1>1, <1>3 DEF Timely, Current
    <3> QED
      BY <3>2, <2>2, <1>1, <1>3 DEF Restored, Alone
  <2>3. Collected' = Collected
    BY <1>3 DEF Collected
  <2> QED
    BY <2>1, <2>2, <2>3, <1>3, <1>4 DEF Restored
<1>13. Drained'
  BY <1>4 DEF Drained, At, Follows, After
<1> QED
  BY <1>7, <1>8, <1>9, <1>10, <1>11, <1>12, <1>13 DEF WorkInv

----------------------------------------------------------------------------
(* What is collected.                                                        *)

LEMMA CollectedWhere ==
  ASSUME NEW o \in Seq(Nat), NEW p \in Seq(Nat), NEW b \in Seq(Nat)
  PROVE  /\ p = <<>> => o \o p \o b = o \o b
         /\ b = <<>> => o \o p \o b = o \o p
         /\ o \o p \in Seq(Nat) /\ o \o b \in Seq(Nat) /\ o \o p \o b \in Seq(Nat)
         /\ o \o <<>> = o
<1>1. o \o p \in Seq(Nat) /\ o \o b \in Seq(Nat)
  BY ConcatProperties
<1>2. (o \o p) \o b \in Seq(Nat)
  BY <1>1, ConcatProperties
<1>3. o \o <<>> = o /\ (o \o p) \o <<>> = o \o p
  BY <1>1, ConcatEmptySeq
<1> QED
  BY <1>1, <1>2, <1>3

LEMMA CollectedAppend ==
  ASSUME NEW s \in Seq(Nat), NEW b \in Seq(Nat), NEW x \in Nat
  PROVE  s \o Append(b, x) = Append(s \o b, x)
<1>1. /\ s \o b \in Seq(Nat) /\ Len(s \o b) = Len(s) + Len(b)
      /\ \A i \in 1..(Len(s) + Len(b)) :
           (s \o b)[i] = IF i <= Len(s) THEN s[i] ELSE b[i - Len(s)]
  BY ConcatProperties
<1> DEFINE c == Append(b, x)
<1>2. /\ c \in Seq(Nat) /\ Len(c) = Len(b) + 1 /\ c[Len(b) + 1] = x
      /\ \A i \in 1..Len(b) : c[i] = b[i]
  OBVIOUS
<1> HIDE DEF c
<1>3. /\ s \o c \in Seq(Nat) /\ Len(s \o c) = Len(s) + Len(c)
      /\ \A i \in 1..(Len(s) + Len(c)) :
           (s \o c)[i] = IF i <= Len(s) THEN s[i] ELSE c[i - Len(s)]
  BY <1>2, ConcatProperties
<1> DEFINE d == Append(s \o b, x) t == s \o b
<1>4. t \in Seq(Nat) /\ Len(t) = Len(s) + Len(b)
  BY <1>1
<1> HIDE DEF t
<1>5. /\ Append(t, x) \in Seq(Nat) /\ Len(Append(t, x)) = Len(t) + 1
      /\ Append(t, x)[Len(t) + 1] = x
      /\ \A i \in 1..Len(t) : Append(t, x)[i] = t[i]
  BY <1>4, AppendProperties
<1>6. /\ d \in Seq(Nat) /\ Len(d) = Len(s) + Len(b) + 1
      /\ d[Len(s) + Len(b) + 1] = x
      /\ \A i \in 1..(Len(s) + Len(b)) : d[i] = (s \o b)[i]
  BY <1>4, <1>5 DEF t
<1> HIDE DEF d
<1>7. Len(s) \in Nat /\ Len(b) \in Nat
  BY LenProperties
<1>8. ASSUME NEW i \in 1..Len(d)
      PROVE  (s \o c)[i] = d[i]
  <2>1. i \in 1..(Len(s) + Len(c))
    <3>1. Len(s) + Len(c) = Len(d) /\ Len(d) \in Nat
      BY <1>2, <1>6, <1>7
    <3>2. i \in Nat /\ 1 <= i /\ i <= Len(s) + Len(c)
      BY <3>1
    <3>3. Len(s) + Len(c) \in Nat
      BY <3>1
    <3> QED
      BY ONLY <3>2, <3>3
  <2>2. (s \o c)[i] = IF i <= Len(s) THEN s[i] ELSE c[i - Len(s)]
    BY <2>1, <1>3
  <2>3. CASE i = Len(s) + Len(b) + 1
    <3>1. ~(i <= Len(s)) /\ i - Len(s) = Len(b) + 1
      BY <2>3, <1>7
    <3> QED
      BY <2>2, <2>3, <3>1, <1>2, <1>6
  <2>4. CASE i # Len(s) + Len(b) + 1
    <3>1. i \in 1..(Len(s) + Len(b))
      <4>1. i \in Nat /\ 1 <= i /\ i <= Len(s) + Len(b) + 1
        BY <1>6, <1>7
      <4> QED
        BY ONLY <4>1, <2>4, <1>7
    <3>2. ~(i <= Len(s)) => i - Len(s) \in 1..Len(b)
      BY <3>1, <1>7
    <3>3. d[i] = IF i <= Len(s) THEN s[i] ELSE b[i - Len(s)]
      BY <3>1, <1>6, <1>1
    <3> QED
      BY <2>2, <3>2, <3>3, <1>2
  <2> QED
    BY <2>3, <2>4
<1>9. Len(s \o c) = Len(d)
  BY <1>2, <1>3, <1>6, <1>7
<1>10. s \o c = d
  BY <1>3, <1>6, <1>8, <1>9, SeqEqual
<1> QED
  BY <1>10 DEF c, d

LEMMA RisingAppend ==
  ASSUME NEW s \in Seq(Nat), NEW x \in Nat, NEW n \in Nat, NEW m \in Nat,
         Rising(s), \A i \in DOMAIN s : s[i] <= n /\ s[i] < x, n <= m, x <= m
  PROVE  /\ Rising(Append(s, x)) /\ Append(s, x) \in Seq(Nat)
         /\ \A i \in DOMAIN Append(s, x) : Append(s, x)[i] <= m
<1> DEFINE t == Append(s, x)
<1>1. /\ t \in Seq(Nat) /\ Len(t) = Len(s) + 1 /\ Len(s) \in Nat
      /\ DOMAIN t = 1..(Len(s) + 1) /\ DOMAIN s = 1..Len(s)
      /\ t[Len(s) + 1] = x /\ \A i \in 1..Len(s) : t[i] = s[i] /\ s[i] \in Nat
  BY LenProperties
<1> HIDE DEF t
<1>2. \A i \in DOMAIN t : t[i] <= m
  <2> SUFFICES ASSUME NEW i \in DOMAIN t PROVE t[i] <= m
    OBVIOUS
  <2>1. CASE i = Len(s) + 1
    BY <2>1, <1>1
  <2>2. CASE i # Len(s) + 1
    <3>1. i \in DOMAIN s
      BY <2>2, <1>1
    <3> QED
      BY <3>1, <1>1
  <2> QED
    BY <2>1, <2>2
<1>3. Rising(t)
  <2> SUFFICES ASSUME NEW i \in DOMAIN t, NEW j \in DOMAIN t, i < j
               PROVE  t[i] < t[j]
    BY DEF Rising
  <2>1. i \in DOMAIN s
    BY <1>1
  <2>2. CASE j = Len(s) + 1
    BY <2>1, <2>2, <1>1
  <2>3. CASE j # Len(s) + 1
    <3>1. j \in DOMAIN s
      BY <2>3, <1>1
    <3> QED
      BY <2>1, <3>1, <1>1 DEF Rising
  <2> QED
    BY <2>2, <2>3
<1> QED
  BY <1>1, <1>2, <1>3 DEF t

LEMMA RisingPrefix ==
  ASSUME NEW s \in Seq(Nat), NEW b \in Seq(Nat), NEW n \in Nat,
         Rising(s \o b), \A i \in DOMAIN (s \o b) : (s \o b)[i] <= n
  PROVE  Rising(s) /\ \A i \in DOMAIN s : s[i] <= n
<1> DEFINE t == s \o b
<1>1. /\ t \in Seq(Nat) /\ Len(t) = Len(s) + Len(b) /\ Len(s) \in Nat /\ Len(b) \in Nat
      /\ DOMAIN t = 1..Len(t) /\ DOMAIN s = 1..Len(s)
      /\ \A i \in 1..(Len(s) + Len(b)) : t[i] = IF i <= Len(s) THEN s[i] ELSE b[i - Len(s)]
  BY ConcatProperties, LenProperties
<1>2. Rising(t) /\ \A i \in DOMAIN t : t[i] <= n
  OBVIOUS
<1> HIDE DEF t
<1>3. \A i \in DOMAIN s : i \in DOMAIN t /\ t[i] = s[i]
  BY <1>1
<1> QED
  BY <1>2, <1>3 DEF Rising

LEMMA PublishKeeps ==
  ASSUME WorkInv, StepPublish
  PROVE  WorkInv'
<1> USE DEF StepPublish
<1>1. /\ Lane!InSequence /\ Typed /\ Placed /\ Timely /\ Kept /\ Restored /\ Drained
  BY DEF WorkInv
<1>2. todo # <<>> /\ Head(todo) = "publish" /\ Ready /\ Admissible(pending)
      /\ Then(<<>>) /\ Lane!Publish
  BY DEF On, At, Accepted
<1>3. /\ UNCHANGED <<boundaryCycle, stale, session, builder, stream, lost>>
      /\ UNCHANGED <<epoch, open, blocked, applied, acked, boundaryCycle, stale,
                     cEpoch, workEpoch, workCycle, builder, stream, lost>>
      /\ lastCycle' = pending.cycle /\ pending' = NoCommit /\ counts' = NoCount
      /\ out' = out \o pending.items
  BY <1>2 DEF session, Lane!Publish
<1>4. /\ todo' = Tail(todo) /\ call' = call
      /\ todo' \in Seq(Steps) /\ Legal(call.kind, todo')
      /\ todo' # <<>> => Follows(call.kind, "publish", Head(todo'))
  BY <1>1, <1>2, Advance
<1>5. pending # NoCommit /\ builder = NoCommit
  BY <1>1, <1>2 DEF Placed, At, Finds
<1>6. Collected' = Collected /\ out' \in Seq(Nat) /\ builder.items = <<>>
  <2>1. out \in Seq(Nat) /\ pending.items \in Seq(Nat) /\ builder.items = <<>>
    BY <1>1, <1>5, NoCommitFacts DEF Typed, CommitRecord
  <2>2. out \o pending.items \in Seq(Nat)
    BY <2>1, CollectedWhere, NoCommitFacts
  <2>3. Collected = (out \o pending.items)
    BY <2>1, CollectedWhere, NoCommitFacts DEF Collected
  <2>4. Collected' = ((out \o pending.items) \o <<>>) \o <<>>
    BY <1>3, <2>1, NoCommitFacts DEF Collected
  <2>5. Collected' = out \o pending.items
    BY <2>2, <2>4, ConcatEmptySeq
  <2> QED
    BY <2>1, <2>2, <2>3, <2>5, <1>3
<1>7. Lane!InSequence'
  BY <1>1, <1>2, LaneStep DEF Lane!Next
<1>8. Typed'
  BY <1>1, <1>3, <1>4, <1>6, NoCommitFacts DEF Typed, CommitRecord
<1>9. Placed'
  <2>1. Finds(todo', builder', pending') /\ ~At("ready")' /\ ~At("begin")'
    BY <1>3, <1>4, <1>5 DEF Finds, Follows, After, At
  <2> QED
    BY <2>1, <1>3, <1>4, <1>5 DEF Placed
<1>10. Timely'
  <2>1. Current(builder)' /\ Current(pending)'
    BY <1>3, <1>5 DEF Current
  <2>2. pending.epoch = epoch /\ pending.cycle <= EpochCycle
    BY <1>1, <1>2, <1>5 DEF Timely, Current, Admissible
  <2>3. EpochCycle' = EpochCycle
    BY <1>3 DEF EpochCycle
  <2>4. ~At("begin")' /\ ~At("seal")'
    BY <1>4 DEF Follows, After, At
  <2> QED
    BY <2>1, <2>2, <2>3, <2>4, <1>1, <1>3 DEF Timely
<1>11. Kept'
  BY <1>1, <1>3, <1>6 DEF Kept
<1>12. Restored'
  <2>1. ASSUME call.kind = "restore", todo' # <<>>
        PROVE  /\ Head(todo') \notin {"plan", "begin", "import", "append"}
               /\ stream = <<>> /\ Collected = <<>>
    BY <2>1, <1>1, <1>2, <1>4 DEF Restored, Follows, After
  <2> QED
    BY <2>1, <1>3, <1>4, <1>6 DEF Restored
<1>13. Drained'
  BY <1>4 DEF Drained, At, Follows, After
<1> QED
  BY <1>7, <1>8, <1>9, <1>10, <1>11, <1>12, <1>13 DEF WorkInv

LEMMA PlanKeeps ==
  ASSUME WorkInv, StepPlan
  PROVE  WorkInv'
<1> USE DEF StepPlan
<1>1. /\ Lane!InSequence /\ Typed /\ Placed /\ Timely /\ Kept /\ Restored /\ Drained
  BY DEF WorkInv
<1>2. todo # <<>> /\ Head(todo) = "plan" /\ Ready /\ Then(<<>>)
  BY DEF On, At, Accepted
<1>3. /\ UNCHANGED <<laneVars, clock, rooms, pending, counts, history>>
      /\ UNCHANGED <<epoch, open, blocked, published, applied, acked, lastCycle,
                     boundaryCycle, held, stale, pending, counts, stream, out, lost>>
      /\ cEpoch' = epoch /\ workEpoch' = epoch /\ cEpoch \in {0, epoch}
      /\ workCycle' = PublicationCycle(call.cycle)
  BY <1>2 DEF laneVars, clock, rooms, history, Enter, Ready
<1>4. /\ todo' = Tail(todo) /\ call' = call
      /\ todo' \in Seq(Steps) /\ Legal(call.kind, todo')
      /\ todo' # <<>> => Follows(call.kind, "plan", Head(todo'))
  BY <1>1, <1>2, Advance
<1>5. pending = NoCommit /\ builder = NoCommit
  BY <1>1, <1>2 DEF Placed, At, Finds
<1>6. /\ epoch \in Nat \ {0} /\ published \in Nat
      /\ workCycle' \in Nat /\ workCycle' >= EpochCycle /\ EpochCycle' = workCycle'
      /\ workCycle' >= call.cycle /\ workCycle' >= boundaryCycle
  <2>1. call.cycle \in Nat
    BY <1>1 DEF Typed
  <2>2. EpochCycle' = workCycle'
    BY <1>3 DEF EpochCycle
  <2>3. epoch \in Nat \ {0} /\ published \in Nat
    BY <1>1, WorkAssumption DEF Lane!InSequence
  <2> QED
    BY <2>1, <2>2, <2>3, <1>1, <1>3, CycleIsLatest
<1> DEFINE b == [NoCommit EXCEPT !.epoch = epoch, !.seq = published + 1, !.cycle = workCycle']
<1>14. /\ builder' = b /\ b \in CommitRecord /\ b.items = <<>> /\ b.epoch = epoch
       /\ b.seq = published + 1 /\ b.cycle = workCycle' /\ b # NoCommit
  <2>1. builder' = b
    BY <1>3
  <2>2. published + 1 \in Nat
    BY <1>6
  <2>3. /\ b \in CommitRecord /\ b.items = NoCommit.items /\ b.epoch = epoch
        /\ b.seq = published + 1 /\ b.cycle = workCycle'
    BY <2>2, <1>6, NoCommitFacts DEF CommitRecord
  <2>4. b # NoCommit
    BY <2>3, <1>6, NoCommitFacts
  <2> QED
    BY <2>1, <2>3, <2>4, NoCommitFacts
<1> HIDE DEF b
<1>15. Collected' = Collected
  BY <1>3, <1>5, <1>14, NoCommitFacts DEF Collected
<1>7. Lane!InSequence'
  BY <1>1, <1>3 DEF Lane!InSequence
<1>8. Typed'
  BY <1>1, <1>3, <1>4, <1>6, <1>14 DEF Typed
<1>9. Placed'
  <2>1. Finds(todo', builder', pending') /\ ~At("ready")'
    BY <1>4, <1>14 DEF Finds, Follows, After, At
  <2> QED
    BY <2>1, <1>3, <1>4, <1>5, <1>14 DEF Placed
<1>10. Timely'
  <2>1. Current(builder)' /\ Current(pending)'
    BY <1>3, <1>5, <1>6, <1>14 DEF Current
  <2>2. lastCycle <= EpochCycle /\ EpochCycle \in Nat /\ lastCycle \in Nat
    BY <1>1, EpochCycleTyped DEF Timely, Typed
  <2>3. lastCycle' <= EpochCycle'
    BY <2>2, <1>3, <1>6
  <2> QED
    BY <2>1, <2>3, <1>1, <1>3, <1>4, <1>5, <1>6 DEF Timely
<1>11. Kept'
  BY <1>1, <1>3, <1>15 DEF Kept
<1>12. Restored'
  <2>1. ASSUME call.kind = "restore"
        PROVE  /\ stream = <<>> /\ Collected = <<>> /\ counts = NoCount
               /\ cEpoch # 0 /\ Alone
    BY <2>1, <1>1, <1>2 DEF Restored
  <2>2. call.kind = "restore" => Alone'
    <3>1. ASSUME call.kind = "restore" PROVE Alone'
      <4>1. cEpoch = epoch /\ Alone
        BY <2>1, <3>1, <1>3
      <4> QED
        BY <4>1, <1>3 DEF Alone
    <3> QED
      BY <3>1
  <2>3. builder'.items = <<>> /\ DOMAIN builder'.items = {}
    <3>1. DOMAIN <<>> = {}
      OBVIOUS
    <3> QED
      BY ONLY <3>1, <1>14
  <2>4. call'.kind = "restore" => cEpoch' # 0
    BY <1>3, <1>6
  <2> QED
    BY <2>1, <2>2, <2>3, <2>4, <1>3, <1>4, <1>15 DEF Restored
<1>13. Drained'
  BY <1>4 DEF Drained, At, Follows, After
<1> QED
  BY <1>7, <1>8, <1>9, <1>10, <1>11, <1>12, <1>13 DEF WorkInv

(* A call that fails keeps what it has done so far.                          *)
LEMMA FailureKeeps ==
  ASSUME WorkInv, Fails,
         UNCHANGED <<laneVars, clock, rooms, session, chunk, history>>
  PROVE  WorkInv'
<1>1. /\ Lane!InSequence /\ Typed /\ Placed /\ Timely /\ Kept /\ Restored /\ Drained
  BY DEF WorkInv
<1>2. /\ UNCHANGED <<epoch, open, blocked, published, applied, acked, lastCycle,
                     boundaryCycle, held, stale, cEpoch, workEpoch, workCycle,
                     builder, pending, counts, stream, out, lost>>
      /\ todo' = <<>> /\ call' = call
  BY DEF laneVars, clock, rooms, session, chunk, history, Fails
<1>3. /\ todo' \in Seq(Steps) /\ Legal(call.kind, todo')
      /\ \A b, p : Finds(todo', b, p) /\ \A step : ~At(step)'
  BY <1>2, Stopped
<1>4. /\ ~At("begin")' /\ ~At("seal")' /\ ~At("ready")' /\ ~At("invalidate")'
  BY <1>3
<1>5. EpochCycle' = EpochCycle /\ Collected' = Collected
  BY <1>2 DEF EpochCycle, Collected
<1>7. Lane!InSequence'
  BY <1>1, <1>2 DEF Lane!InSequence
<1>8. Typed'
  BY <1>1, <1>2, <1>3 DEF Typed
<1>9. Placed'
  BY <1>1, <1>2, <1>3, <1>4 DEF Placed
<1>10. Timely'
  <2>1. Current(builder)' /\ Current(pending)'
    BY <1>1, <1>2, <1>5 DEF Timely, Current
  <2> QED
    BY <2>1, <1>1, <1>2, <1>4, <1>5 DEF Timely
<1>11. Kept'
  BY <1>1, <1>2, <1>5 DEF Kept
<1>12. Restored'
  BY <1>1, <1>2 DEF Restored, Alone
<1>13. Drained'
  BY <1>4 DEF Drained
<1> QED
  BY <1>7, <1>8, <1>9, <1>10, <1>11, <1>12, <1>13 DEF WorkInv

LEMMA BeginKeeps ==
  ASSUME WorkInv, StepBegin
  PROVE  WorkInv'
<1> USE DEF StepBegin
<1>1. /\ Lane!InSequence /\ Typed /\ Placed /\ Timely /\ Kept /\ Restored /\ Drained
  BY DEF WorkInv
<1>2. todo # <<>> /\ Head(todo) = "begin"
  BY DEF On, At
<1>3. /\ UNCHANGED <<laneVars, clock, rooms, session, pending, counts, history>>
      /\ UNCHANGED <<epoch, open, blocked, published, applied, acked, lastCycle,
                     boundaryCycle, held, stale, cEpoch, workEpoch, workCycle,
                     pending, counts, stream, out, lost>>
  BY DEF laneVars, clock, rooms, session, history
<1>4. /\ builder # NoCommit /\ pending = NoCommit /\ builder.items = <<>>
      /\ builder.epoch # 0 /\ builder \in CommitRecord
  BY <1>1, <1>2 DEF Placed, At, Finds, Typed, Timely, Current
<1>5. EpochCycle' = EpochCycle
  BY <1>3 DEF EpochCycle
<1>6. Lane!InSequence'
  BY <1>1, <1>3 DEF Lane!InSequence
<1>7. CASE builder' = [builder EXCEPT !.alive = TRUE] /\ Then(<<>>)
  <2>1. /\ todo' = Tail(todo) /\ call' = call
        /\ todo' \in Seq(Steps) /\ Legal(call.kind, todo')
        /\ todo' # <<>> =>
             /\ Follows(call.kind, "begin", Head(todo'))
             /\ Head(todo') = "ready" => Tail(todo') # <<>> /\ Head(Tail(todo')) = "append"
    BY <1>1, <1>2, <1>7, Advance
  <2>2. /\ builder' \in CommitRecord /\ builder'.items = <<>>
        /\ builder'.epoch = builder.epoch /\ builder'.seq = builder.seq
        /\ builder'.cycle = builder.cycle /\ builder' # NoCommit
    <3>1. /\ builder' \in CommitRecord /\ builder'.items = <<>>
          /\ builder'.epoch = builder.epoch /\ builder'.seq = builder.seq
          /\ builder'.cycle = builder.cycle
      BY <1>4, <1>7 DEF CommitRecord
    <3> QED
      BY <3>1, <1>4, NoCommitFacts
  <2>3. Collected' = Collected
    BY <1>3, <1>4, <2>2 DEF Collected
  <2>4. Typed'
    BY <1>1, <1>3, <2>1, <2>2 DEF Typed
  <2>5. Placed'
    <3>1. Finds(todo', builder', pending')
          /\ (Head(todo') = "ready" /\ todo' # <<>> => Finds(Tail(todo'), builder', pending'))
      BY <2>1, <2>2 DEF Finds, Follows, After
    <3> QED
      BY <3>1, <2>1, <2>2, <1>3, <1>4 DEF Placed, At
  <2>6. Timely'
    <3>1. Current(builder)' /\ Current(pending)'
      BY <1>1, <1>3, <1>4, <1>5, <2>2 DEF Timely, Current
    <3>2. cEpoch = epoch => call.cycle <= EpochCycle /\ boundaryCycle <= EpochCycle
      BY <1>1, <1>2 DEF Timely, At
    <3> QED
      BY <3>1, <3>2, <1>1, <1>3, <1>4, <1>5, <2>1 DEF Timely
  <2>7. Kept'
    BY <1>1, <1>3, <2>3 DEF Kept
  <2>8. Restored'
    <3>1. call.kind = "restore" =>
            /\ stream = <<>> /\ Collected = <<>> /\ counts = NoCount
            /\ cEpoch # 0 /\ Alone
      BY <1>1, <1>2 DEF Restored
    <3>2. Alone' = Alone
      BY <1>3 DEF Alone
    <3>3. builder'.items = <<>> /\ DOMAIN builder'.items = {}
      <4>1. DOMAIN <<>> = {}
        OBVIOUS
      <4> QED
        BY ONLY <4>1, <2>2
    <3> QED
      BY <3>1, <3>2, <3>3, <1>3, <2>1, <2>3 DEF Restored
  <2>9. Drained'
    BY <2>1 DEF Drained, At, Follows, After
  <2> QED
    BY <1>6, <2>4, <2>5, <2>6, <2>7, <2>8, <2>9 DEF WorkInv
<1>8. CASE builder' = NoCommit /\ Fails
  <2>1. /\ todo' = <<>> /\ call' = call
        /\ todo' \in Seq(Steps) /\ Legal(call.kind, todo')
        /\ \A b, p : Finds(todo', b, p) /\ \A step : ~At(step)'
    BY <1>8, Stopped DEF Fails
  <2>2. /\ ~At("begin")' /\ ~At("seal")' /\ ~At("ready")' /\ ~At("invalidate")'
    BY <2>1
  <2>3. Collected' = Collected
    BY <1>3, <1>4, <1>8, NoCommitFacts DEF Collected
  <2>4. Typed'
    BY <1>1, <1>3, <1>8, <2>1, NoCommitFacts DEF Typed
  <2>5. Placed'
    BY <1>8, <2>1, <2>2 DEF Placed
  <2>6. Timely'
    <3>1. Current(builder)' /\ Current(pending)'
      BY <1>3, <1>4, <1>8 DEF Current
    <3> QED
      BY <3>1, <1>1, <1>3, <1>4, <1>5, <2>2 DEF Timely
  <2>7. Kept'
    BY <1>1, <1>3, <2>3 DEF Kept
  <2>8. Restored'
    BY <1>8, <2>1, NoCommitFacts DEF Restored
  <2>9. Drained'
    BY <2>2 DEF Drained
  <2> QED
    BY <1>6, <2>4, <2>5, <2>6, <2>7, <2>8, <2>9 DEF WorkInv
<1> QED
  BY <1>7, <1>8

LEMMA AppendKeeps ==
  ASSUME WorkInv, StepAppend
  PROVE  WorkInv'
<1> USE DEF StepAppend
<1>1. /\ Lane!InSequence /\ Typed /\ Placed /\ Timely /\ Kept /\ Restored /\ Drained
  BY DEF WorkInv
<1>2. todo # <<>> /\ Head(todo) = "append" /\ Then(<<>>)
  BY DEF On, At
<1>3. /\ UNCHANGED <<laneVars, clock, rooms, session, pending, out, lost>>
      /\ UNCHANGED <<epoch, open, blocked, published, applied, acked, lastCycle,
                     boundaryCycle, held, stale, cEpoch, workEpoch, workCycle,
                     pending, out, lost>>
      /\ stream' = Append(stream, Item)
      /\ builder' = [builder EXCEPT !.items = Append(@, Item)]
  BY DEF laneVars, clock, rooms, session
<1>4. /\ builder # NoCommit /\ pending = NoCommit
      /\ builder.epoch # 0 /\ builder \in CommitRecord /\ builder.items \in Seq(Nat)
      /\ stream \in Seq(Nat) /\ out \in Seq(Nat)
  BY <1>1, <1>2 DEF Placed, At, Finds, Typed, Timely, Current, CommitRecord
<1>5. EpochCycle' = EpochCycle
  BY <1>3 DEF EpochCycle
<1>6. /\ todo' = Tail(todo) /\ call' = call
      /\ todo' \in Seq(Steps) /\ Legal(call.kind, todo')
      /\ todo' = <<>>
  <2>1. /\ todo' = Tail(todo) /\ call' = call
        /\ todo' \in Seq(Steps) /\ Legal(call.kind, todo')
        /\ todo' # <<>> => Follows(call.kind, "append", Head(todo'))
    BY <1>1, <1>2, Advance
  <2> QED
    BY <2>1 DEF Follows, After
<1>14. Item \in Nat /\ Item <= Len(stream) + 1 /\ Len(stream) \in Nat
  BY <1>4, LenProperties DEF Item
<1>15. /\ builder' \in CommitRecord /\ builder'.items = Append(builder.items, Item)
       /\ builder'.epoch = builder.epoch /\ builder'.seq = builder.seq
       /\ builder'.cycle = builder.cycle /\ builder' # NoCommit
  <2>1. Append(builder.items, Item) \in Seq(Nat)
    BY <1>4, <1>14, AppendProperties
  <2>2. /\ builder' \in CommitRecord /\ builder'.items = Append(builder.items, Item)
        /\ builder'.epoch = builder.epoch /\ builder'.seq = builder.seq
        /\ builder'.cycle = builder.cycle
    BY <2>1, <1>3, <1>4 DEF CommitRecord
  <2> QED
    BY <2>2, <1>4, NoCommitFacts
<1>16. /\ Collected' = Append(Collected, Item) /\ Collected \in Seq(Nat)
       /\ stream' \in Seq(Nat) /\ Len(stream') = Len(stream) + 1
  <2>1. out \o pending.items \in Seq(Nat) /\ Collected \in Seq(Nat)
    BY <1>4, NoCommitFacts, CollectedWhere DEF Collected
  <2>2. Collected' = (out \o pending.items) \o Append(builder.items, Item)
    BY <1>3, <1>15 DEF Collected
  <2>3. Collected' = Append((out \o pending.items) \o builder.items, Item)
    BY <2>1, <2>2, <1>4, <1>14, CollectedAppend
  <2>4. stream' \in Seq(Nat) /\ Len(stream') = Len(stream) + 1
    BY <1>3, <1>4, <1>14, AppendProperties
  <2> QED
    BY <2>1, <2>3, <2>4 DEF Collected
<1>17. /\ ~At("begin")' /\ ~At("seal")' /\ ~At("ready")' /\ ~At("invalidate")'
       /\ \A b, p : Finds(todo', b, p)
  BY <1>6 DEF At, Finds
<1>18. call.kind = "restore" =>
         /\ stream = <<>> /\ Collected = <<>> /\ cEpoch # 0 /\ Alone
  BY <1>1, <1>2 DEF Restored
<1>7. Lane!InSequence'
  BY <1>1, <1>3 DEF Lane!InSequence
<1>8. Typed'
  BY <1>1, <1>3, <1>6, <1>15, <1>16 DEF Typed
<1>9. Placed'
  BY <1>3, <1>4, <1>6, <1>17 DEF Placed
<1>10. Timely'
  <2>1. Current(builder)' /\ Current(pending)'
    BY <1>1, <1>3, <1>4, <1>5, <1>15 DEF Timely, Current
  <2> QED
    BY <2>1, <1>1, <1>3, <1>4, <1>5, <1>17 DEF Timely
<1>11. Kept'
  <2>1. ~lost' => Collected' = stream'
    BY <1>1, <1>3, <1>16 DEF Kept
  <2>2. Rising(Collected') /\ \A i \in DOMAIN Collected' : Collected'[i] <= Len(stream')
    <3>1. \A i \in DOMAIN Collected : Collected[i] <= Len(stream) /\ Collected[i] < Item
      <4>1. \A i \in DOMAIN Collected : Collected[i] <= Len(stream)
        BY <1>1 DEF Kept
      <4>2. CASE call.kind = "restore"
        <5>1. Collected = <<>> /\ DOMAIN <<>> = {}
          BY <4>2, <1>18
        <5> QED
          BY ONLY <5>1
      <4>3. CASE call.kind # "restore"
        <5>1. Item = Len(stream) + 1
          BY <4>3 DEF Item
        <5>2. \A i \in DOMAIN Collected : Collected[i] \in Nat
          BY <1>16, LenProperties, ElementOfSeq
        <5> QED
          BY <4>1, <5>1, <5>2, <1>14
      <4> QED
        BY <4>2, <4>3
    <3>2. Rising(Collected)
      BY <1>1 DEF Kept
    <3>3. Len(stream) + 1 \in Nat /\ Len(stream) <= Len(stream) + 1
      BY <1>14
    <3>4. /\ Rising(Append(Collected, Item))
          /\ \A i \in DOMAIN Append(Collected, Item) :
               Append(Collected, Item)[i] <= Len(stream) + 1
      BY ONLY <3>1, <3>2, <3>3, <1>14, <1>16, RisingAppend
    <3> QED
      BY ONLY <3>4, <1>16
  <2> QED
    BY <2>1, <2>2 DEF Kept, Rising
<1>12. Restored'
  <2>1. ASSUME NEW i \in DOMAIN builder'.items, builder'.items[i] = 0
        PROVE  Alone
    <3> DEFINE n == Len(builder.items)
    <3>1. n \in Nat /\ DOMAIN builder.items = 1..n
      BY <1>4, LenProperties
    <3>2. /\ Len(builder'.items) = n + 1 /\ builder'.items[n + 1] = Item
          /\ \A j \in 1..n : builder'.items[j] = builder.items[j]
          /\ builder'.items \in Seq(Nat)
      BY <1>4, <1>14, <1>15, AppendProperties
    <3>3. DOMAIN builder'.items = 1..(n + 1)
      BY <3>2, LenProperties
    <3> HIDE DEF n
    <3>4. CASE i = n + 1
      <4>1. Item = 0
        BY <3>4, <3>2, <2>1
      <4>2. call.kind = "restore"
        BY <4>1, <1>14 DEF Item
      <4> QED
        BY <4>2, <1>18
    <3>5. CASE i # n + 1
      <4>1. i \in DOMAIN builder.items /\ builder.items[i] = 0
        BY <3>5, <3>1, <3>2, <3>3, <2>1
      <4> QED
        BY <4>1, <1>1 DEF Restored
    <3> QED
      BY <3>4, <3>5
  <2>2. Alone' = Alone
    BY <1>3 DEF Alone
  <2> QED
    BY <2>1, <2>2, <1>6 DEF Restored
<1>13. Drained'
  BY <1>17 DEF Drained
<1> QED
  BY <1>7, <1>8, <1>9, <1>10, <1>11, <1>12, <1>13 DEF WorkInv

LEMMA SealKeeps ==
  ASSUME WorkInv, StepSeal
  PROVE  WorkInv'
<1> USE DEF StepSeal
<1>1. /\ Lane!InSequence /\ Typed /\ Placed /\ Timely /\ Kept /\ Restored /\ Drained
  BY DEF WorkInv
<1>2. /\ todo # <<>> /\ Head(todo) = "seal" /\ Ready
      /\ builder.epoch = epoch /\ builder.seq = published + 1
      /\ CycleOk(PublicationCycle(call.cycle))
  BY DEF On, At, Accepted
<1>3. /\ UNCHANGED <<laneVars, clock, rooms, session, counts, stream, out>>
      /\ UNCHANGED <<epoch, open, blocked, published, applied, acked, lastCycle,
                     boundaryCycle, held, stale, cEpoch, workEpoch, workCycle,
                     counts, stream, out>>
      /\ builder' = NoCommit
  BY DEF laneVars, clock, rooms, session
<1>4. /\ builder # NoCommit /\ pending = NoCommit
      /\ builder.epoch = cEpoch /\ builder.epoch # 0 /\ workEpoch = epoch
      /\ builder \in CommitRecord /\ builder.items \in Seq(Nat) /\ out \in Seq(Nat)
  BY <1>1, <1>2 DEF Placed, At, Finds, Typed, Timely, Current, CommitRecord
<1>5. EpochCycle' = EpochCycle
  BY <1>3 DEF EpochCycle
<1>6. Collected = out \o builder.items /\ Len(stream) \in Nat /\ out \o <<>> = out
  <2>1. stream \in Seq(Nat)
    BY <1>1 DEF Typed
  <2> QED
    BY <2>1, <1>4, NoCommitFacts, CollectedWhere, LenProperties DEF Collected
<1>7. Lane!InSequence'
  BY <1>1, <1>3 DEF Lane!InSequence
<1>8. CASE Then(<<>>) /\ UNCHANGED lost
           /\ pending' = [builder EXCEPT !.cycle = PublicationCycle(call.cycle),
                                         !.boundary = (call.kind = "boundary")]
  <2>1. /\ todo' = Tail(todo) /\ call' = call
        /\ todo' \in Seq(Steps) /\ Legal(call.kind, todo')
        /\ todo' # <<>> => Follows(call.kind, "seal", Head(todo'))
    BY <1>1, <1>2, <1>8, Advance
  <2>2. /\ PublicationCycle(call.cycle) \in Nat /\ PublicationCycle(call.cycle) <= EpochCycle
        /\ PublicationCycle(call.cycle) >= lastCycle
    <3>1. call.cycle \in Nat /\ call.cycle <= EpochCycle /\ boundaryCycle <= EpochCycle
      BY <1>1, <1>2, <1>4 DEF Typed, Timely, At
    <3>2. EpochCycle \in Nat /\ EpochCycle <= EpochCycle
      BY <1>1, EpochCycleTyped
    <3>3. PublicationCycle(call.cycle) \in {call.cycle, boundaryCycle, EpochCycle}
          /\ PublicationCycle(call.cycle) \in Nat
      BY <3>1, <1>1, CycleIsLatest
    <3> QED
      BY <3>1, <3>2, <3>3, <1>2 DEF CycleOk
  <2>3. /\ pending' \in CommitRecord /\ pending'.items = builder.items
        /\ pending'.epoch = builder.epoch /\ pending'.seq = builder.seq
        /\ pending'.cycle = PublicationCycle(call.cycle) /\ pending' # NoCommit
    <3>1. (call.kind = "boundary") \in BOOLEAN
      OBVIOUS
    <3>2. /\ pending' \in CommitRecord /\ pending'.items = builder.items
          /\ pending'.epoch = builder.epoch /\ pending'.seq = builder.seq
          /\ pending'.cycle = PublicationCycle(call.cycle)
      BY <3>1, <1>4, <1>8, <2>2 DEF CommitRecord
    <3> QED
      BY <3>2, <1>4, NoCommitFacts
  <2>4. Collected' = Collected
    <3>1. Collected' = out \o builder.items \o <<>>
      BY <1>3, <2>3, NoCommitFacts DEF Collected
    <3> QED
      BY <3>1, <1>4, <1>6, CollectedWhere, NoCommitFacts
  <2>5. ~At("begin")' /\ ~At("seal")' /\ ~At("ready")' /\ ~At("invalidate")'
        /\ Finds(todo', NoCommit, pending')
    BY <2>1, <2>3 DEF At, Follows, After, Finds
  <2>6. Typed'
    BY <1>1, <1>3, <1>8, <2>1, <2>3, NoCommitFacts DEF Typed
  <2>7. Placed'
    BY <1>3, <2>1, <2>5 DEF Placed
  <2>8. Timely'
    <3>1. Current(builder)' /\ Current(pending)'
      BY <1>2, <1>3, <1>4, <1>5, <2>2, <2>3 DEF Current
    <3> QED
      BY <3>1, <1>1, <1>3, <1>5, <2>2, <2>3, <2>5 DEF Timely
  <2>9. Kept'
    BY <1>1, <1>3, <1>8, <2>4 DEF Kept
  <2>10. Restored'
    <3>1. call.kind = "restore" =>
            /\ stream = <<>> /\ Collected = <<>> /\ counts = NoCount
            /\ todo' # <<>> => Head(todo') = "publish"
      BY <1>1, <1>2, <2>1 DEF Restored, Follows, After
    <3>2. DOMAIN builder'.items = {}
      BY <1>3, NoCommitFacts
    <3> QED
      BY <3>1, <3>2, <1>3, <2>1, <2>4 DEF Restored
  <2>11. Drained'
    BY <2>5 DEF Drained
  <2> QED
    BY <1>7, <2>6, <2>7, <2>8, <2>9, <2>10, <2>11 DEF WorkInv
<1>9. CASE Fails /\ lost' = TRUE /\ UNCHANGED pending
  <2>1. /\ todo' = <<>> /\ call' = call
        /\ todo' \in Seq(Steps) /\ Legal(call.kind, todo')
        /\ \A b, p : Finds(todo', b, p) /\ \A step : ~At(step)'
    BY <1>9, Stopped DEF Fails
  <2>2. /\ ~At("begin")' /\ ~At("seal")' /\ ~At("ready")' /\ ~At("invalidate")'
    BY <2>1
  <2>3. Collected' = out
    <3>1. Collected' = (out \o <<>>) \o <<>>
      BY <1>3, <1>4, <1>9, NoCommitFacts DEF Collected
    <3> QED
      BY <3>1, <1>6
  <2>4. Typed'
    BY <1>1, <1>3, <1>4, <1>9, <2>1, NoCommitFacts DEF Typed
  <2>5. Placed'
    BY <1>3, <2>1, <2>2 DEF Placed
  <2>6. Timely'
    <3>1. Current(builder)' /\ Current(pending)'
      BY <1>3, <1>4, <1>9 DEF Current
    <3> QED
      BY <3>1, <1>1, <1>3, <1>4, <1>5, <1>9, <2>2 DEF Timely
  <2>7. Kept'
    <3>1. Rising(out) /\ \A i \in DOMAIN out : out[i] <= Len(stream)
      BY <1>1, <1>4, <1>6, RisingPrefix DEF Kept
    <3> QED
      BY <3>1, <2>3, <1>3, <1>9 DEF Kept, Rising
  <2>8. Restored'
    <3>1. DOMAIN builder'.items = {}
      BY <1>3, NoCommitFacts
    <3> QED
      BY <3>1, <2>1 DEF Restored
  <2>9. Drained'
    BY <2>2 DEF Drained
  <2> QED
    BY <1>7, <2>4, <2>5, <2>6, <2>7, <2>8, <2>9 DEF WorkInv
<1> QED
  BY <1>8, <1>9

LEMMA DrainedKeeps ==
  ASSUME WorkInv, StepDrained
  PROVE  WorkInv'
<1> USE DEF StepDrained
<1>1. /\ Lane!InSequence /\ Typed /\ Placed /\ Timely /\ Kept /\ Restored /\ Drained
  BY DEF WorkInv
<1>2. todo # <<>> /\ Head(todo) = "drained" /\ Ready /\ Enter /\ Then(<<>>)
      /\ acked = published /\ ~stale
  BY DEF On, At, Accepted
<1>3. /\ UNCHANGED <<laneVars, clock, rooms, chunk, history>>
      /\ UNCHANGED <<epoch, open, blocked, published, applied, acked, lastCycle,
                     boundaryCycle, held, stale, builder, pending, counts, stream, out, lost>>
      /\ cEpoch' = epoch /\ workEpoch' = epoch /\ workCycle' = EpochCycle
  BY <1>2 DEF laneVars, clock, rooms, chunk, history, Enter
<1>4. /\ todo' = Tail(todo) /\ call' = call
      /\ todo' \in Seq(Steps) /\ Legal(call.kind, todo')
      /\ todo' # <<>> => Follows(call.kind, "drained", Head(todo'))
  BY <1>1, <1>2, Advance
<1>5. builder = NoCommit /\ pending = NoCommit
  BY <1>1, <1>2 DEF Placed, At, Finds
<1>6. EpochCycle' = EpochCycle /\ EpochCycle \in Nat /\ epoch \in Nat \ {0}
      /\ Collected' = Collected
  BY <1>1, <1>3, EpochCycleTyped, WorkAssumption DEF EpochCycle, Lane!InSequence, Collected
<1>14. ~At("begin")' /\ ~At("seal")' /\ ~At("ready")'
  BY <1>4 DEF At, Follows, After
<1>7. Lane!InSequence'
  BY <1>1, <1>3 DEF Lane!InSequence
<1>8. Typed'
  BY <1>1, <1>3, <1>4, <1>6 DEF Typed
<1>9. Placed'
  <2>1. Finds(todo', builder', pending')
    BY <1>3, <1>4, <1>5 DEF Finds, Follows, After
  <2> QED
    BY <2>1, <1>3, <1>4, <1>5, <1>14 DEF Placed
<1>10. Timely'
  <2>1. Current(builder)' /\ Current(pending)'
    BY <1>3, <1>5 DEF Current
  <2> QED
    BY <2>1, <1>1, <1>3, <1>5, <1>6, <1>14 DEF Timely
<1>11. Kept'
  BY <1>1, <1>3, <1>6 DEF Kept
<1>12. Restored'
  <2>1. call.kind = "restore" => stream = <<>> /\ Collected = <<>> /\ counts = NoCount
    BY <1>1, <1>2 DEF Restored
  <2>2. Alone' /\ cEpoch' # 0
    BY <1>2, <1>3, <1>6 DEF Alone
  <2> QED
    BY <2>1, <2>2, <1>3, <1>4, <1>6 DEF Restored
<1>13. Drained'
  BY <1>2, <1>3 DEF Drained
<1> QED
  BY <1>7, <1>8, <1>9, <1>10, <1>11, <1>12, <1>13 DEF WorkInv

LEMMA CancelKeeps ==
  ASSUME WorkInv, StepCancel
  PROVE  WorkInv'
<1> USE DEF StepCancel
<1>1. /\ Lane!InSequence /\ Typed /\ Placed /\ Timely /\ Kept /\ Restored /\ Drained
  BY DEF WorkInv
<1>2. todo # <<>> /\ Head(todo) \in {"cancel", "rebase"} /\ Then(<<>>)
  BY DEF On, At
<1>3. /\ UNCHANGED <<laneVars, clock, rooms, workEpoch, workCycle>>
      /\ UNCHANGED <<epoch, open, blocked, published, applied, acked, lastCycle,
                     boundaryCycle, held, stale, workEpoch, workCycle>>
      /\ builder' = NoCommit /\ pending' = NoCommit /\ counts' = NoCount
      /\ cEpoch' = 0 /\ stream' = <<>> /\ out' = <<>> /\ lost' = FALSE
  BY DEF laneVars, clock, rooms
<1>4. /\ todo' = Tail(todo) /\ call' = call
      /\ todo' \in Seq(Steps) /\ Legal(call.kind, todo')
      /\ todo' # <<>> =>
           /\ Follows(call.kind, Head(todo), Head(todo'))
           /\ Head(todo') = "ready" =>
                /\ Tail(todo') # <<>>
                /\ Head(Tail(todo')) =
                     (IF Head(todo) = "rebase" THEN "drained" ELSE "append")
  BY <1>1, <1>2, Advance
<1>5. /\ ~At("begin")' /\ ~At("seal")'
      /\ todo' # <<>> => Head(todo') \in {"invalidate", "rebase", "ready"}
      /\ todo' # <<>> /\ Head(todo') = "ready" => Head(todo) = "rebase"
  BY <1>2, <1>4 DEF At, Follows, After
<1>6. EpochCycle' = EpochCycle /\ Collected' = <<>> /\ DOMAIN Collected' = {}
      /\ DOMAIN builder'.items = {}
  <2>1. Collected' = (<<>> \o <<>>) \o <<>>
    BY <1>3, NoCommitFacts DEF Collected
  <2>2. <<>> \o <<>> = <<>> /\ DOMAIN <<>> = {}
    BY NoCommitFacts, ConcatEmptySeq
  <2> QED
    BY <2>1, <2>2, <1>3, NoCommitFacts DEF EpochCycle
<1>7. Lane!InSequence'
  BY <1>1, <1>3 DEF Lane!InSequence
<1>8. Typed'
  BY <1>1, <1>3, <1>4, NoCommitFacts DEF Typed
<1>9. Placed'
  <2>1. ~At("ready")' => Finds(todo', builder', pending')
    BY <1>3, <1>5 DEF Finds, At
  <2>2. At("ready")' => Finds(Tail(todo'), builder', pending')
    <3>1. ASSUME At("ready")' PROVE Head(Tail(todo')) = "drained"
      BY <3>1, <1>4, <1>5 DEF At
    <3>2. ASSUME At("ready")' PROVE Finds(Tail(todo'), builder', pending')
      <4>1. builder' = NoCommit /\ pending' = NoCommit
        BY <1>3
      <4> QED
        BY <4>1, <3>1, <3>2 DEF Finds
    <3> QED
      BY <3>2
  <2> QED
    BY <2>1, <2>2, <1>3, <1>4, <1>5 DEF Placed, At
<1>10. Timely'
  <2>1. Current(builder)' /\ Current(pending)'
    BY <1>3 DEF Current
  <2>2. epoch \in Nat
    BY <1>1, WorkAssumption DEF Lane!InSequence
  <2> QED
    BY <2>1, <2>2, <1>1, <1>3, <1>5, <1>6 DEF Timely
<1>11. Kept'
  BY <1>3, <1>6 DEF Kept, Rising
<1>12. Restored'
  BY <1>3, <1>4, <1>5, <1>6 DEF Restored
<1>13. Drained'
  BY <1>2, <1>4 DEF Drained, At, Follows
<1> QED
  BY <1>7, <1>8, <1>9, <1>10, <1>11, <1>12, <1>13 DEF WorkInv

----------------------------------------------------------------------------
(* The lane and the host around the collector.                               *)

LEMMA EnvironmentKeeps ==
  ASSUME WorkInv, UNCHANGED <<call, todo, session, chunk, history>>,
         UNCHANGED <<epoch, published, lastCycle>>, Lane!InSequence',
         open' \in BOOLEAN, blocked' \in BOOLEAN, stale' \in BOOLEAN, stale' => stale,
         boundaryCycle' \in Nat, boundaryCycle' = boundaryCycle \/ todo = <<>>,
         acked = published => acked' = published
  PROVE  WorkInv'
<1>1. /\ Typed /\ Placed /\ Timely /\ Kept /\ Restored /\ Drained
  BY DEF WorkInv
<1>2. UNCHANGED <<call, todo, cEpoch, workEpoch, workCycle, builder, pending, counts,
                  stream, out, lost, epoch, published, lastCycle>>
  BY DEF session, chunk, history
<1>3. EpochCycle' = EpochCycle /\ Collected' = Collected
  BY <1>2 DEF EpochCycle, Collected
<1>4. Typed'
  BY <1>1, <1>2 DEF Typed
<1>5. Placed'
  BY <1>1, <1>2 DEF Placed, At
<1>6. Timely'
  <2>1. Current(builder)' /\ Current(pending)'
    BY <1>1, <1>2, <1>3 DEF Timely, Current
  <2>2. At("begin")' \/ At("seal")' =>
          (cEpoch' = epoch' => call'.cycle <= EpochCycle' /\ boundaryCycle' <= EpochCycle')
    BY <1>1, <1>2, <1>3 DEF Timely, At
  <2> QED
    BY <2>1, <2>2, <1>1, <1>2, <1>3 DEF Timely
<1>7. Kept'
  BY <1>1, <1>2, <1>3 DEF Kept
<1>8. Restored'
  <2>1. Alone => Alone'
    BY <1>2 DEF Alone
  <2>2. Collected' = Collected /\ call' = call /\ todo' = todo /\ stream' = stream
        /\ counts' = counts /\ builder' = builder /\ cEpoch' = cEpoch
    BY <1>2, <1>3
  <2> QED
    BY <2>1, <2>2, <1>1 DEF Restored
<1>9. Drained'
  BY <1>1, <1>2 DEF Drained, At
<1> QED
  BY <1>4, <1>5, <1>6, <1>7, <1>8, <1>9 DEF WorkInv

LEMMA LaneWorksKeeps ==
  ASSUME WorkInv, LaneWorks
  PROVE  WorkInv'
<1>1. Lane!InSequence /\ Typed
  BY DEF WorkInv
<1>2. Lane!InSequence'
  BY <1>1, LaneStep DEF LaneWorks, Lane!Next
<1>3. UNCHANGED <<boundaryCycle, lastCycle, held, stale, session, chunk, call, todo, history>>
  BY DEF LaneWorks, clock, rooms
<1>4. /\ UNCHANGED <<epoch, published, open>> /\ blocked' \in BOOLEAN
      /\ acked = published => acked' = published
  <2>1. CASE Lane!Apply
    BY <2>1, <1>1 DEF Lane!Apply, Typed
  <2>2. CASE Lane!Ack
    <3>1. acked # published
      BY <2>2, <1>1, WorkAssumption DEF Lane!Ack, Lane!InSequence
    <3> QED
      BY <3>1, <2>2, <1>1 DEF Lane!Ack, Typed
  <2>3. CASE Lane!Block
    BY <2>3, <1>1 DEF Lane!Block, Typed
  <2> QED
    BY <2>1, <2>2, <2>3 DEF LaneWorks
<1> QED
  BY <1>1, <1>2, <1>3, <1>4, EnvironmentKeeps DEF Typed

LEMMA HostOpensKeeps ==
  ASSUME WorkInv, HostOpens
  PROVE  WorkInv'
<1>1. Lane!InSequence /\ Typed
  BY DEF WorkInv
<1>2. Lane!InSequence'
  BY <1>1, LaneStep DEF HostOpens, Lane!Next
<1>3. UNCHANGED <<boundaryCycle, lastCycle, held, stale, session, chunk, call, todo, history>>
  BY DEF HostOpens, clock, rooms
<1>4. /\ UNCHANGED <<epoch, published, acked, blocked>> /\ open' \in BOOLEAN
  BY DEF HostOpens, Lane!Open
<1> QED
  BY <1>1, <1>2, <1>3, <1>4, EnvironmentKeeps DEF Typed

LEMMA WorldTurns ==
  ASSUME WorkInv,
         \/ Release
         \/ StaleEnds
         \/ \E cycle \in 0..CycleLimit : SourceBoundary(cycle)
         \/ UNCHANGED vars
  PROVE  WorkInv'
<1>1. Lane!InSequence /\ Typed
  BY DEF WorkInv
<1>2. /\ UNCHANGED <<laneVars, lastCycle, session, chunk, call, todo, history>>
      /\ stale' \in BOOLEAN /\ (stale' => stale)
      /\ boundaryCycle' \in Nat /\ (boundaryCycle' = boundaryCycle \/ todo = <<>>)
  <2>1. CASE Release
    BY <1>1, <2>1 DEF Release, clock, Typed
  <2>2. CASE StaleEnds
    BY <1>1, <2>2 DEF StaleEnds, clock, Typed
  <2>3. CASE \E cycle \in 0..CycleLimit : SourceBoundary(cycle)
    <3>1. PICK cycle \in 0..CycleLimit : SourceBoundary(cycle)
      BY <2>3
    <3> QED
      BY <3>1, <1>1, WorkAssumption DEF SourceBoundary, rooms, Typed
  <2>4. CASE UNCHANGED vars
    BY <1>1, <2>4 DEF vars, clock, rooms, Typed
  <2> QED
    BY <2>1, <2>2, <2>3, <2>4
<1>3. UNCHANGED <<epoch, open, blocked, published, applied, acked>>
  BY <1>2 DEF laneVars
<1>4. Lane!InSequence'
  BY <1>1, <1>3 DEF Lane!InSequence
<1>5. /\ UNCHANGED <<call, todo, session, chunk, history>>
      /\ UNCHANGED <<epoch, published, lastCycle>> /\ acked' = acked
      /\ open' \in BOOLEAN /\ blocked' \in BOOLEAN
  BY <1>1, <1>2, <1>3 DEF Typed
<1> QED
  BY <1>2, <1>4, <1>5, EnvironmentKeeps

(* An invalidation moves the lane to another epoch: what is under way here   *)
(* stays, and is of no current epoch any more.                               *)
LEMMA LaneGone ==
  ASSUME WorkInv, InvalidateLane
  PROVE  /\ UNCHANGED <<held, pending, counts, out, stream, lost, cEpoch, workEpoch, workCycle>>
         /\ open' \in BOOLEAN /\ blocked' \in BOOLEAN /\ stale' \in BOOLEAN
         /\ lastCycle' = 0 /\ boundaryCycle' = 0 /\ published' = 0 /\ acked' = 0
         /\ builder' \in CommitRecord /\ builder'.items = builder.items
         /\ builder' = NoCommit <=> builder = NoCommit
         /\ cEpoch' # epoch' /\ Collected' = Collected
         /\ Lane!InSequence' /\ Timely' /\ Kept'
<1>1. /\ Lane!InSequence /\ Typed /\ Placed /\ Timely /\ Kept /\ Restored /\ Drained
  BY DEF WorkInv
<1>2. /\ UNCHANGED <<held, pending, counts, out, stream, lost, cEpoch, workEpoch, workCycle>>
      /\ epoch' = epoch + 1 /\ published' = 0 /\ acked' = 0 /\ lastCycle' = 0
      /\ boundaryCycle' = 0 /\ blocked' = FALSE
      /\ builder' = [builder EXCEPT !.alive = FALSE]
  BY DEF InvalidateLane, Lane!Invalidate, session, history
<1>3. open' \in BOOLEAN /\ stale' \in BOOLEAN
  BY <1>1 DEF InvalidateLane, Lane!Invalidate, Typed
<1>4. epoch \in Nat /\ cEpoch \in Nat /\ workEpoch \in Nat
      /\ cEpoch <= epoch /\ workEpoch <= epoch
  BY <1>1, WorkAssumption DEF Lane!InSequence, Typed, Timely
<1>5. /\ builder' \in CommitRecord /\ builder'.items = builder.items
      /\ builder'.epoch = builder.epoch /\ builder'.seq = builder.seq
      /\ builder'.cycle = builder.cycle
  BY <1>1, <1>2 DEF Typed, CommitRecord
<1>6. builder' = NoCommit <=> builder = NoCommit
  <2>1. CASE builder = NoCommit
    BY <2>1, <1>2 DEF NoCommit
  <2>2. CASE builder # NoCommit
    <3>1. builder.epoch # 0
      BY <2>2, <1>1 DEF Timely, Current
    <3> QED
      BY <3>1, <2>2, <1>5, NoCommitFacts
  <2> QED
    BY <2>1, <2>2
<1>7. cEpoch' # epoch' /\ Collected' = Collected
  <2>1. cEpoch' # epoch'
    BY <1>2, <1>4
  <2>2. pending' = pending /\ out' = out
    BY <1>2
  <2> QED
    BY <2>1, <2>2, <1>5 DEF Collected
<1>8. Lane!InSequence'
  BY <1>1, LaneStep DEF InvalidateLane, Lane!Next
<1>9. Timely'
  <2>1. Current(builder)'
    <3>1. builder # NoCommit => builder.epoch = cEpoch /\ builder.epoch # 0
      BY <1>1 DEF Timely, Current
    <3> QED
      BY <3>1, <1>2, <1>5, <1>6, <1>7 DEF Current
  <2>2. Current(pending)' /\ (pending' # NoCommit => pending'.epoch # epoch')
    <3>1. pending # NoCommit => pending.epoch = cEpoch /\ pending.epoch # 0
      BY <1>1 DEF Timely, Current
    <3> QED
      BY <3>1, <1>2, <1>7 DEF Current
  <2>3. EpochCycle' \in Nat
    BY <1>1, <1>2 DEF EpochCycle, Typed
  <2>4. 0 <= EpochCycle'
    BY <2>3
  <2> QED
    BY <2>1, <2>2, <2>4, <1>2, <1>4, <1>7 DEF Timely
<1>10. Kept'
  BY <1>1, <1>2, <1>7 DEF Kept
<1> QED
  BY <1>2, <1>3, <1>5, <1>6, <1>7, <1>8, <1>9, <1>10

LEMMA HostClosesKeeps ==
  ASSUME WorkInv, HostCloses
  PROVE  WorkInv'
<1>1. Typed /\ Placed /\ Restored
  BY DEF WorkInv
<1>2. InvalidateLane /\ call' = call /\ todo' = todo
  BY DEF HostCloses
<1>3. /\ UNCHANGED <<held, pending, counts, out, stream, lost, cEpoch, workEpoch, workCycle>>
      /\ open' \in BOOLEAN /\ blocked' \in BOOLEAN /\ stale' \in BOOLEAN
      /\ lastCycle' = 0 /\ boundaryCycle' = 0 /\ published' = 0 /\ acked' = 0
      /\ builder' \in CommitRecord /\ builder'.items = builder.items
      /\ builder' = NoCommit <=> builder = NoCommit
      /\ cEpoch' # epoch' /\ Collected' = Collected
      /\ Lane!InSequence' /\ Timely' /\ Kept'
  BY <1>2, LaneGone
<1>4. Typed'
  BY <1>1, <1>2, <1>3 DEF Typed
<1>5. Placed'
  BY <1>1, <1>2, <1>3 DEF Placed, Finds, At
<1>6. Restored'
  <2>1. Alone'
    BY <1>3 DEF Alone
  <2> QED
    BY <2>1, <1>1, <1>2, <1>3 DEF Restored
<1>7. Drained'
  BY <1>3 DEF Drained
<1> QED
  BY <1>3, <1>4, <1>5, <1>6, <1>7 DEF WorkInv

LEMMA InvalidateKeeps ==
  ASSUME WorkInv, StepInvalidate
  PROVE  WorkInv'
<1> USE DEF StepInvalidate
<1>1. /\ Lane!InSequence /\ Typed /\ Placed /\ Timely /\ Kept /\ Restored /\ Drained
  BY DEF WorkInv
<1>2. todo # <<>> /\ Head(todo) = "invalidate" /\ Then(<<>>)
  BY DEF On, At
<1>3. /\ todo' = Tail(todo) /\ call' = call
      /\ todo' \in Seq(Steps) /\ Legal(call.kind, todo')
      /\ todo' # <<>> => Follows(call.kind, "invalidate", Head(todo'))
  BY <1>1, <1>2, Advance
<1>4. /\ ~At("begin")' /\ ~At("seal")' /\ ~At("ready")' /\ ~At("invalidate")'
      /\ todo' # <<>> => Head(todo') = "cancel"
      /\ \A b, p : Finds(todo', b, p)
  BY <1>3 DEF At, Finds, Follows, After
<1>5. builder = NoCommit \/ pending = NoCommit
  BY <1>1 DEF Placed
<1>6. CASE epoch < EpochLimit
  <2>1. InvalidateLane
    BY <1>6
  <2>2. /\ UNCHANGED <<held, pending, counts, out, stream, lost, cEpoch, workEpoch, workCycle>>
        /\ open' \in BOOLEAN /\ blocked' \in BOOLEAN /\ stale' \in BOOLEAN
        /\ lastCycle' = 0 /\ boundaryCycle' = 0 /\ published' = 0 /\ acked' = 0
        /\ builder' \in CommitRecord /\ builder'.items = builder.items
        /\ builder' = NoCommit <=> builder = NoCommit
        /\ cEpoch' # epoch' /\ Collected' = Collected
        /\ Lane!InSequence' /\ Timely' /\ Kept'
    BY <2>1, LaneGone
  <2>3. Typed'
    BY <1>1, <1>3, <2>2 DEF Typed
  <2>4. Placed'
    BY <1>3, <1>4, <1>5, <2>2 DEF Placed
  <2>5. Restored'
    <3>1. Alone'
      BY <2>2 DEF Alone
    <3> QED
      BY <3>1, <1>4 DEF Restored
  <2>6. Drained'
    BY <1>4 DEF Drained
  <2> QED
    BY <2>2, <2>3, <2>4, <2>5, <2>6 DEF WorkInv
<1>7. CASE ~(epoch < EpochLimit)
  <2>1. /\ UNCHANGED <<laneVars, clock, rooms, session, chunk, history>>
        /\ UNCHANGED <<epoch, open, blocked, published, applied, acked, lastCycle,
                       boundaryCycle, held, stale, cEpoch, workEpoch, workCycle,
                       builder, pending, counts, stream, out, lost>>
    BY <1>7 DEF laneVars, clock, rooms, session, chunk, history
  <2>2. EpochCycle' = EpochCycle /\ Collected' = Collected
    BY <2>1 DEF EpochCycle, Collected
  <2>3. Lane!InSequence'
    BY <1>1, <2>1 DEF Lane!InSequence
  <2>4. Typed'
    BY <1>1, <1>3, <2>1 DEF Typed
  <2>5. Placed'
    BY <1>3, <1>4, <1>5, <2>1 DEF Placed
  <2>6. Timely'
    <3>1. Current(builder)' /\ Current(pending)'
      BY <1>1, <2>1, <2>2 DEF Timely, Current
    <3> QED
      BY <3>1, <1>1, <1>4, <2>1, <2>2 DEF Timely
  <2>7. Kept'
    BY <1>1, <2>1, <2>2 DEF Kept
  <2>8. Restored'
    <3>1. Alone' = Alone
      BY <2>1 DEF Alone
    <3> QED
      BY <3>1, <1>1, <1>4, <2>1 DEF Restored
  <2>9. Drained'
    BY <1>4 DEF Drained
  <2> QED
    BY <2>3, <2>4, <2>5, <2>6, <2>7, <2>8, <2>9 DEF WorkInv
<1> QED
  BY <1>6, <1>7

----------------------------------------------------------------------------
(* A list of steps that is written anew: a call that starts, an upload that  *)
(* drains and imports once more, an item whose commit was full.              *)

LEMMA Chained ==
  ASSUME NEW k, NEW p \in Seq(Steps), NEW q \in Seq(Steps), Legal(k, p), Legal(k, q),
         q # <<>>, p # <<>> => Follows(k, p[Len(p)], q[1]),
         q[1] = "ready" => Len(q) >= 2 /\ q[2] = "append" /\ (p # <<>> => p[Len(p)] # "rebase")
  PROVE  /\ p \o q \in Seq(Steps) /\ Legal(k, p \o q) /\ p \o q # <<>>
         /\ (p \o q)[1] = (IF p = <<>> THEN q[1] ELSE p[1])
         /\ (p \o q)[Len(p \o q)] = q[Len(q)]
         /\ p = <<>> => p \o q = q
<1>1. p \o q \in Seq(Steps) /\ Legal(k, p \o q) /\ (p = <<>> => p \o q = q)
  BY Joined
<1>2. CASE p = <<>>
  BY <1>1, <1>2
<1>3. CASE p # <<>>
  <2>1. /\ p \o q # <<>> /\ (p \o q)[1] = p[1]
        /\ (p \o q)[Len(p \o q)] = q[Len(q)]
    BY <1>3, Ends
  <2> QED
    BY <1>1, <1>3, <2>1
<1> QED
  BY <1>2, <1>3

LEMMA StepsAssociative ==
  ASSUME NEW p \in Seq(Steps), NEW q \in Seq(Steps), NEW r \in Seq(Steps)
  PROVE  (p \o q) \o r = p \o (q \o r)
BY ConcatAssociative

LEMMA Relisted ==
  ASSUME WorkInv, UNCHANGED <<laneVars, clock, rooms, session, chunk, history>>,
         call' \in [kind : Kinds \cup {"none"}, cycle : Nat,
                    flushed : BOOLEAN, drained : BOOLEAN],
         todo' \in Seq(Steps), todo' # <<>>, Legal(call'.kind, todo'),
         \/ Head(todo') = "ready" /\ Finds(Tail(todo'), builder, pending)
         \/ Head(todo') = "cancel",
         call'.kind = "restore" /\ Head(todo') = "ready" =>
           stream = <<>> /\ Collected = <<>> /\ counts = NoCount
  PROVE  WorkInv'
<1>1. /\ Lane!InSequence /\ Typed /\ Placed /\ Timely /\ Kept /\ Restored /\ Drained
  BY DEF WorkInv
<1>2. UNCHANGED <<epoch, open, blocked, published, applied, acked, lastCycle,
                  boundaryCycle, held, stale, cEpoch, workEpoch, workCycle,
                  builder, pending, counts, stream, out, lost>>
  BY DEF laneVars, clock, rooms, session, chunk, history
<1>3. EpochCycle' = EpochCycle /\ Collected' = Collected
  BY <1>2 DEF EpochCycle, Collected
<1>4. ~At("begin")' /\ ~At("seal")' /\ ~At("invalidate")'
  BY DEF At
<1>7. Lane!InSequence'
  BY <1>1, <1>2 DEF Lane!InSequence
<1>8. Typed'
  BY <1>1, <1>2 DEF Typed
<1>9. Placed'
  <2>1. At("ready")' => Finds(Tail(todo'), builder', pending')
    BY <1>2 DEF At
  <2>2. ~At("ready")' => Finds(todo', builder', pending')
    BY <1>2 DEF At, Finds
  <2>3. builder' = NoCommit \/ pending' = NoCommit
    BY <1>1, <1>2 DEF Placed
  <2> QED
    BY <2>1, <2>2, <2>3, <1>4 DEF Placed, At
<1>10. Timely'
  <2>1. Current(builder)' /\ Current(pending)'
    BY <1>1, <1>2, <1>3 DEF Timely, Current
  <2> QED
    BY <2>1, <1>1, <1>2, <1>3, <1>4 DEF Timely
<1>11. Kept'
  BY <1>1, <1>2, <1>3 DEF Kept
<1>12. Restored'
  <2>1. Alone' = Alone
    BY <1>2 DEF Alone
  <2>2. \A i \in DOMAIN builder'.items : builder'.items[i] = 0 => Alone'
    BY <2>1, <1>1, <1>2 DEF Restored
  <2> QED
    BY <2>2, <1>2, <1>3 DEF Restored
<1>13. Drained'
  BY <1>4 DEF Drained
<1> QED
  BY <1>7, <1>8, <1>9, <1>10, <1>11, <1>12, <1>13 DEF WorkInv

LEMMA AppendFullKeeps ==
  ASSUME WorkInv, AppendFull
  PROVE  WorkInv'
<1>1. Typed /\ Placed /\ Restored
  BY DEF WorkInv
<1>2. /\ todo # <<>> /\ Head(todo) = "append" /\ builder # NoCommit
      /\ UNCHANGED <<laneVars, clock, rooms, session, chunk, history>>
  BY <1>1 DEF AppendFull, On, At, Placed, Finds
<1>3. CASE ~call.flushed /\ (counts # NoCount \/ call.kind = "coverage")
  <2> DEFINE l == <<"ready", "seal", "publish", "plan", "begin", "append">>
             x == <<"seal", "publish", "plan", "begin", "append">>
  <2>1. call' = [call EXCEPT !.flushed = TRUE] /\ todo' = l
    BY <1>3 DEF AppendFull
  <2>2. call.kind # "restore"
    BY <1>1, <1>2, <1>3 DEF Restored
  <2>3. l \in Seq(Steps) /\ Legal(call.kind, l)
    BY <2>2, ListAgain
  <2>4. l # <<>> /\ Head(l) = "ready" /\ Tail(l) = x /\ Head(x) = "seal"
    OBVIOUS
  <2> HIDE DEF l, x
  <2>5. call'.kind = call.kind
        /\ call' \in [kind : Kinds \cup {"none"}, cycle : Nat,
                      flushed : BOOLEAN, drained : BOOLEAN]
    BY <2>1, <1>1 DEF Typed
  <2>6. Finds(x, builder, pending)
    BY <2>4, <1>2 DEF Finds
  <2> QED
    BY <2>1, <2>2, <2>3, <2>4, <2>5, <2>6, <1>2, Relisted
<1>4. CASE ~(~call.flushed /\ (counts # NoCount \/ call.kind = "coverage"))
  <2>1. Fails
    BY <1>4 DEF AppendFull
  <2> QED
    BY <2>1, <1>2, FailureKeeps
<1> QED
  BY <1>3, <1>4

LEMMA ImportKeeps ==
  ASSUME WorkInv, StepImport
  PROVE  WorkInv'
<1>1. /\ Lane!InSequence /\ Typed /\ Placed /\ Timely /\ Kept /\ Restored /\ Drained
  BY DEF WorkInv
<1>2. /\ todo # <<>> /\ Head(todo) = "import" /\ builder # NoCommit /\ pending = NoCommit
      /\ UNCHANGED <<laneVars, clock, rooms, session, chunk, history>>
      /\ UNCHANGED <<epoch, open, blocked, published, applied, acked, lastCycle,
                     boundaryCycle, held, stale, cEpoch, workEpoch, workCycle,
                     builder, pending, counts, stream, out, lost>>
  BY <1>1 DEF StepImport, On, At, Placed, Finds, laneVars, clock, rooms, session, chunk, history
<1>3. call.kind = "restore" => /\ stream = <<>> /\ Collected = <<>> /\ counts = NoCount
                               /\ cEpoch # 0 /\ Alone
  BY <1>1, <1>2 DEF Restored
<1>4. CASE Then(<<>>)
  <2>1. /\ todo' = Tail(todo) /\ call' = call
        /\ todo' \in Seq(Steps) /\ Legal(call.kind, todo')
        /\ todo' # <<>> => Follows(call.kind, "import", Head(todo'))
    BY <1>1, <1>2, <1>4, Advance
  <2>2. /\ ~At("begin")' /\ ~At("seal")' /\ ~At("ready")' /\ ~At("invalidate")'
        /\ Finds(todo', builder', pending')
    BY <2>1, <1>2 DEF At, Follows, After, Finds
  <2>3. EpochCycle' = EpochCycle /\ Collected' = Collected /\ Alone' = Alone
    BY <1>2 DEF EpochCycle, Collected, Alone
  <2>4. Lane!InSequence'
    BY <1>1, <1>2 DEF Lane!InSequence
  <2>5. Typed'
    BY <1>1, <1>2, <2>1 DEF Typed
  <2>6. Placed'
    BY <1>2, <2>1, <2>2 DEF Placed
  <2>7. Timely'
    <3>1. Current(builder)' /\ Current(pending)'
      BY <1>1, <1>2, <2>3 DEF Timely, Current
    <3> QED
      BY <3>1, <1>1, <1>2, <2>2, <2>3 DEF Timely
  <2>8. Kept'
    BY <1>1, <1>2, <2>3 DEF Kept
  <2>9. Restored'
    <3>1. \A i \in DOMAIN builder'.items : builder'.items[i] = 0 => Alone'
      BY <1>1, <1>2, <2>3 DEF Restored
    <3> QED
      BY <3>1, <1>2, <1>3, <2>1, <2>3 DEF Restored
  <2>10. Drained'
    BY <2>2 DEF Drained
  <2> QED
    BY <2>4, <2>5, <2>6, <2>7, <2>8, <2>9, <2>10 DEF WorkInv
<1>5. CASE /\ todo' = <<"ready">> \o Drain \o <<"plan", "begin", "import", "append">>
           /\ call' = [call EXCEPT !.drained = TRUE]
  <2> DEFINE k == call.kind a == <<"ready">> b == <<"seal", "publish">> c == <<"drained">>
             d == <<"plan", "begin", "import", "append">> y == b \o c x == y \o d
  <2>1. /\ a \in Seq(Steps) /\ a # <<>>
        /\ b \in Seq(Steps) /\ Legal(k, b) /\ b[Len(b)] = "publish" /\ b[1] = "seal" /\ b # <<>>
        /\ c \in Seq(Steps) /\ Legal(k, c) /\ c[1] = "drained" /\ c[Len(c)] = "drained" /\ c # <<>>
        /\ d \in Seq(Steps) /\ Legal(k, d) /\ d[1] = "plan" /\ d # <<>>
    BY ListReady, ListSealPublish, ListDrained, ListAnew
  <2>2. Drain = b \o c
    BY <1>2 DEF Drain, Flush, FlushSteps, Building
  <2>3. todo' = (a \o y) \o d
    BY <2>2, <1>5
  <2> HIDE DEF a, b, c, d
  <2>4. /\ y \in Seq(Steps) /\ Legal(k, y) /\ y # <<>>
        /\ y[1] = "seal" /\ y[Len(y)] = "drained"
    <3>1. Follows(k, b[Len(b)], c[1])
      BY <2>1 DEF Follows, After
    <3> QED
      BY <2>1, <3>1, Chained
  <2> HIDE DEF y
  <2>5. x \in Seq(Steps) /\ Legal(k, x) /\ x # <<>> /\ x[1] = "seal"
    <3>1. Follows(k, y[Len(y)], d[1])
      BY <2>1, <2>4 DEF Follows, After
    <3>2. d[1] # "ready"
      BY <2>1
    <3> QED
      BY <2>1, <2>4, <3>1, <3>2, Chained
  <2>6. todo' = a \o x
    <3>1. a \in Seq(Steps) /\ y \in Seq(Steps) /\ d \in Seq(Steps)
      BY <2>1, <2>4
    <3>2. (a \o y) \o d = a \o (y \o d)
      BY ONLY <3>1, StepsAssociative
    <3> QED
      BY <3>2, <2>3
  <2>7. Finds(x, builder, pending)
    <3>1. Head(x) = "seal"
      BY <2>5, FirstIsHead
    <3> QED
      BY <3>1, <1>2 DEF Finds
  <2> HIDE DEF x
  <2>8. /\ todo' \in Seq(Steps) /\ Legal(k, todo') /\ todo' # <<>> /\ Head(todo') = "ready"
        /\ Finds(Tail(todo'), builder, pending)
    <3>1. todo' = <<"ready">> \o x
      BY <2>6 DEF a
    <3> QED
      BY <3>1, <2>5, <2>7, Guarded
  <2>9. call'.kind = call.kind
        /\ call' \in [kind : Kinds \cup {"none"}, cycle : Nat,
                      flushed : BOOLEAN, drained : BOOLEAN]
    BY <1>5, <1>1 DEF Typed
  <2> QED
    BY <2>8, <2>9, <1>2, <1>3, Relisted
<1> QED
  BY <1>4, <1>5 DEF StepImport

(* The list a call starts with suits what is built and what is sealed.       *)
Startable(k, l) ==
  /\ l \in Seq(Steps) /\ Legal(k, l) /\ l # <<>>
  /\ \/ Head(l) = "ready" /\ Finds(Tail(l), builder, pending)
     \/ Head(l) = "cancel"

LEMMA Starts ==
  ASSUME NEW k, k # "restore", NEW x \in Seq(Steps), Legal(k, x), Finds(x, builder, pending),
         x # <<>> => x[1] \in {"append", "import", "seal", "publish", "plan", "drained"}
                     \/ (x[1] = "ready" /\ Len(x) >= 2 /\ x[2] = "append")
  PROVE  Startable(k, <<"ready">> \o x)
BY Guarded DEF Startable

LEMMA DrainList ==
  ASSUME NEW k, k # "restore", builder = NoCommit \/ pending = NoCommit
  PROVE  /\ Drain \in Seq(Steps) /\ Legal(k, Drain) /\ Drain # <<>>
         /\ Drain[Len(Drain)] = "drained" /\ Finds(Drain, builder, pending)
         /\ Drain[1] \in {"drained", "seal", "publish", "plan"}
<1> DEFINE f == FlushSteps(FALSE) c == <<"drained">> r == f \o c
<1>1. /\ f \in Seq(Steps) /\ Legal(k, f)
      /\ f = <<>> => builder = NoCommit /\ pending = NoCommit
      /\ f # <<>> =>
           /\ f[Len(f)] = "publish"
           /\ \/ f[1] = "plan" /\ builder = NoCommit /\ pending = NoCommit
              \/ f[1] = "publish" /\ pending # NoCommit
              \/ f[1] = "seal" /\ builder # NoCommit
  BY FlushList
<1>2. c \in Seq(Steps) /\ Legal(k, c) /\ c # <<>> /\ c[1] = "drained" /\ c[Len(c)] = "drained"
  BY ListDrained
<1>3. Drain = r
  BY DEF Drain, Flush
<1> HIDE DEF f, c
<1>4. f # <<>> => Follows(k, f[Len(f)], c[1])
  BY <1>1, <1>2 DEF Follows, After
<1>5. c[1] # "ready"
  BY <1>2
<1>6. /\ r \in Seq(Steps) /\ Legal(k, r) /\ r # <<>> /\ r[Len(r)] = "drained"
      /\ r[1] = (IF f = <<>> THEN "drained" ELSE f[1])
  BY <1>1, <1>2, <1>4, <1>5, Chained
<1> HIDE DEF r
<1>7. Finds(r, builder, pending) /\ r[1] \in {"drained", "seal", "publish", "plan"}
  <2>1. Head(r) = r[1]
    BY <1>6, FirstIsHead
  <2> QED
    BY <2>1, <1>1, <1>6 DEF Finds
<1> QED
  BY <1>3, <1>6, <1>7

(* What follows begin_chunk.                                                 *)
LEMMA AfterBegin ==
  ASSUME NEW k, k # "restore", builder = NoCommit \/ pending = NoCommit,
         NEW q \in Seq(Steps), Legal(k, q), q # <<>>,
         q[1] \in {"append", "import", "seal"} \/ (q[1] = "ready" /\ Len(q) >= 2 /\ q[2] = "append")
  PROVE  LET r == BeginChunk \o q
         IN  /\ r \in Seq(Steps) /\ Legal(k, r) /\ r # <<>> /\ Finds(r, builder, pending)
             /\ r[Len(r)] = q[Len(q)]
             /\ r[1] \in {"append", "import", "seal", "publish", "plan"}
                \/ (r[1] = "ready" /\ Len(r) >= 2 /\ r[2] = "append")
<1> DEFINE p == BeginChunk r == p \o q
<1>1. /\ p \in Seq(Steps) /\ Legal(k, p)
      /\ p = <<>> => builder # NoCommit
      /\ p # <<>> =>
           /\ p[Len(p)] = "begin"
           /\ \/ p[1] = "plan" /\ builder = NoCommit /\ pending = NoCommit
              \/ p[1] = "publish" /\ pending # NoCommit
  BY BeginChunkList
<1> HIDE DEF p
<1>2. p # <<>> => Follows(k, p[Len(p)], q[1])
  BY <1>1 DEF Follows, After
<1>3. q[1] = "ready" => Len(q) >= 2 /\ q[2] = "append" /\ (p # <<>> => p[Len(p)] # "rebase")
  BY <1>1
<1>4. /\ r \in Seq(Steps) /\ Legal(k, r) /\ r # <<>> /\ r[Len(r)] = q[Len(q)]
      /\ r[1] = (IF p = <<>> THEN q[1] ELSE p[1]) /\ (p = <<>> => r = q)
  BY <1>1, <1>2, <1>3, Chained
<1> HIDE DEF r
<1>5. Finds(r, builder, pending)
  <2>1. Head(r) = r[1]
    BY <1>4, FirstIsHead
  <2>2. CASE p = <<>>
    <3>1. Head(r) \in {"append", "import", "seal", "ready"} /\ builder # NoCommit
      BY <2>1, <2>2, <1>1, <1>4
    <3> QED
      BY <3>1 DEF Finds
  <2>3. CASE p # <<>>
    <3>1. \/ Head(r) = "plan" /\ builder = NoCommit /\ pending = NoCommit
          \/ Head(r) = "publish" /\ pending # NoCommit
      BY <2>1, <2>3, <1>1, <1>4
    <3> QED
      BY <3>1 DEF Finds
  <2> QED
    BY <2>2, <2>3
<1>6. r[1] \in {"append", "import", "seal", "publish", "plan"}
      \/ (r[1] = "ready" /\ Len(r) >= 2 /\ r[2] = "append")
  <2>1. CASE p = <<>>
    BY <2>1, <1>4
  <2>2. CASE p # <<>>
    BY <2>2, <1>1, <1>4
  <2> QED
    BY <2>1, <2>2
<1> QED
  BY <1>4, <1>5, <1>6 DEF r, p

LEMMA ItemLists ==
  ASSUME NEW k, k # "restore", builder = NoCommit \/ pending = NoCommit
  PROVE  /\ Startable(k, <<"ready">> \o BeginChunk \o <<"append">>)
         /\ Startable(k, <<"ready">> \o BeginChunk \o <<"ready", "append">>)
<1> DEFINE a == <<"ready">> p == BeginChunk q == <<"append">> r == <<"ready", "append">>
<1>1. /\ a \in Seq(Steps) /\ p \in Seq(Steps)
      /\ q \in Seq(Steps) /\ Legal(k, q) /\ q[1] = "append" /\ q # <<>>
      /\ r \in Seq(Steps) /\ Legal(k, r) /\ r[1] = "ready" /\ r[2] = "append" /\ Len(r) = 2
      /\ r # <<>>
  BY ListReady, ListAppend, ListReadyAppend, BeginChunkList
<1> HIDE DEF a, p, q, r
<1>2. Startable(k, a \o (p \o q))
  <2> DEFINE x == p \o q
  <2>1. /\ x \in Seq(Steps) /\ Legal(k, x) /\ Finds(x, builder, pending)
        /\ x[1] \in {"append", "import", "seal", "publish", "plan"}
           \/ (x[1] = "ready" /\ Len(x) >= 2 /\ x[2] = "append")
    BY <1>1, AfterBegin DEF p
  <2> HIDE DEF x
  <2>2. Startable(k, <<"ready">> \o x)
    <3>1. x # <<>> => x[1] \in {"append", "import", "seal", "publish", "plan", "drained"}
                      \/ (x[1] = "ready" /\ Len(x) >= 2 /\ x[2] = "append")
      BY <2>1
    <3> QED
      BY <2>1, <3>1, Starts
  <2> QED
    BY <2>2 DEF a, x
<1>3. Startable(k, a \o (p \o r))
  <2> DEFINE x == p \o r
  <2>1. /\ x \in Seq(Steps) /\ Legal(k, x) /\ Finds(x, builder, pending)
        /\ x[1] \in {"append", "import", "seal", "publish", "plan"}
           \/ (x[1] = "ready" /\ Len(x) >= 2 /\ x[2] = "append")
    <3>1. /\ r \in Seq(Steps) /\ Legal(k, r) /\ r # <<>>
          /\ r[1] \in {"append", "import", "seal"} \/ (r[1] = "ready" /\ Len(r) >= 2 /\ r[2] = "append")
      BY <1>1
    <3> QED
      BY <3>1, AfterBegin DEF p
  <2> HIDE DEF x
  <2>2. Startable(k, <<"ready">> \o x)
    <3>1. x # <<>> => x[1] \in {"append", "import", "seal", "publish", "plan", "drained"}
                      \/ (x[1] = "ready" /\ Len(x) >= 2 /\ x[2] = "append")
      BY <2>1
    <3> QED
      BY <2>1, <3>1, Starts
  <2> QED
    BY <2>2 DEF a, x
<1>4. (a \o p) \o q = a \o (p \o q) /\ (a \o p) \o r = a \o (p \o r)
  BY ONLY <1>1, StepsAssociative
<1> QED
  BY <1>2, <1>3, <1>4 DEF a, p, q, r

LEMMA UploadList ==
  ASSUME NEW k, k # "restore", builder = NoCommit \/ pending = NoCommit
  PROVE  Startable(k, <<"ready">> \o UploadSteps)
<1> DEFINE p == BeginChunk q == <<"import", "append">>
           late == <<"seal", "publish", "plan", "begin">>
<1>1. /\ p \in Seq(Steps)
      /\ q \in Seq(Steps) /\ Legal(k, q) /\ q[1] = "import" /\ q # <<>>
      /\ late \in Seq(Steps) /\ Legal(k, late) /\ late[1] = "seal" /\ late # <<>>
      /\ late[Len(late)] = "begin" /\ p \o <<>> = p
  BY ListImportAppend, ListLate, BeginChunkList, ConcatEmptySeq
<1>2. UploadSteps = (p \o (IF UploadIsLate THEN late ELSE <<>>)) \o q
  BY DEF UploadSteps
<1> DEFINE x == late \o q
<1>3. x \in Seq(Steps) /\ Legal(k, x) /\ x # <<>> /\ x[1] = "seal"
  <2> HIDE DEF late, q
  <2>1. late # <<>> => Follows(k, late[Len(late)], q[1])
    BY <1>1 DEF Follows, After
  <2>2. q[1] # "ready"
    BY <1>1
  <2> QED
    BY <1>1, <2>1, <2>2, Chained
<1> DEFINE r == p \o (IF UploadIsLate THEN x ELSE q)
<1>4. UploadSteps = r
  <2>1. CASE UploadIsLate
    <3> HIDE DEF p, q, late
    <3>1. (p \o late) \o q = p \o (late \o q)
      BY ONLY <1>1, StepsAssociative
    <3> QED
      BY <3>1, <2>1, <1>2
  <2>2. CASE ~UploadIsLate
    <3> HIDE DEF p, q, late
    <3> QED
      BY <2>2, <1>1, <1>2
  <2> QED
    BY <2>1, <2>2
<1>5. /\ r \in Seq(Steps) /\ Legal(k, r) /\ Finds(r, builder, pending)
      /\ r[1] \in {"append", "import", "seal", "publish", "plan"}
         \/ (r[1] = "ready" /\ Len(r) >= 2 /\ r[2] = "append")
  <2> HIDE DEF x, q
  <2>1. CASE UploadIsLate
    <3>1. /\ p \o x \in Seq(Steps) /\ Legal(k, p \o x) /\ Finds(p \o x, builder, pending)
          /\ (p \o x)[1] \in {"append", "import", "seal", "publish", "plan"}
             \/ ((p \o x)[1] = "ready" /\ Len(p \o x) >= 2 /\ (p \o x)[2] = "append")
      BY <1>3, AfterBegin
    <3> QED
      BY <2>1, <3>1
  <2>2. CASE ~UploadIsLate
    <3>1. /\ p \o q \in Seq(Steps) /\ Legal(k, p \o q) /\ Finds(p \o q, builder, pending)
          /\ (p \o q)[1] \in {"append", "import", "seal", "publish", "plan"}
             \/ ((p \o q)[1] = "ready" /\ Len(p \o q) >= 2 /\ (p \o q)[2] = "append")
      BY <1>1, AfterBegin
    <3> QED
      BY <2>2, <3>1
  <2> QED
    BY <2>1, <2>2
<1> HIDE DEF r
<1>6. r # <<>> => r[1] \in {"append", "import", "seal", "publish", "plan", "drained"}
                  \/ (r[1] = "ready" /\ Len(r) >= 2 /\ r[2] = "append")
  BY <1>5
<1> QED
  BY <1>4, <1>5, <1>6, Starts

LEMMA FlushLists ==
  ASSUME NEW k, k # "restore", NEW boundary \in BOOLEAN,
         builder = NoCommit \/ pending = NoCommit
  PROVE  Startable(k, <<"ready">> \o FlushSteps(boundary))
<1> DEFINE f == FlushSteps(boundary)
<1>1. /\ f \in Seq(Steps) /\ Legal(k, f)
      /\ f # <<>> =>
           /\ \/ f[1] = "plan" /\ builder = NoCommit /\ pending = NoCommit
              \/ f[1] = "publish" /\ pending # NoCommit
              \/ f[1] = "seal" /\ builder # NoCommit
  BY FlushList
<1> HIDE DEF f
<1>2. f # <<>> => Head(f) = f[1]
  BY <1>1, FirstIsHead
<1>3. Finds(f, builder, pending)
  BY <1>1, <1>2 DEF Finds
<1>4. f # <<>> => f[1] \in {"append", "import", "seal", "publish", "plan", "drained"}
                  \/ (f[1] = "ready" /\ Len(f) >= 2 /\ f[2] = "append")
  BY <1>1
<1>5. Startable(k, <<"ready">> \o f)
  BY <1>1, <1>3, <1>4, Starts
<1> QED
  BY <1>5 DEF f

LEMMA DrainLists ==
  ASSUME NEW k, k # "restore", builder = NoCommit \/ pending = NoCommit
  PROVE  /\ Startable(k, <<"ready">> \o Drain)
         /\ Startable(k, <<"ready">> \o Drain \o <<"invalidate", "cancel">>)
<1> DEFINE a == <<"ready">> d == Drain q == <<"invalidate", "cancel">>
<1>1. /\ d \in Seq(Steps) /\ Legal(k, d) /\ d # <<>>
      /\ d[Len(d)] = "drained" /\ Finds(d, builder, pending)
      /\ d[1] \in {"drained", "seal", "publish", "plan"}
      /\ a \in Seq(Steps)
      /\ q \in Seq(Steps) /\ Legal(k, q) /\ q # <<>> /\ q[1] = "invalidate"
  BY DrainList, ListReady, ListInvalidateCancel
<1> HIDE DEF d
<1>2. Startable(k, a \o d)
  <2>1. d # <<>> => d[1] \in {"append", "import", "seal", "publish", "plan", "drained"}
                    \/ (d[1] = "ready" /\ Len(d) >= 2 /\ d[2] = "append")
    BY <1>1
  <2> QED
    BY <1>1, <2>1, Starts
<1> DEFINE x == d \o q
<1>3. /\ x \in Seq(Steps) /\ Legal(k, x) /\ x # <<>> /\ x[1] = d[1]
  <2> HIDE DEF q
  <2>1. Follows(k, d[Len(d)], q[1]) /\ q[1] # "ready"
    BY <1>1 DEF Follows, After
  <2> QED
    BY <1>1, <2>1, Chained
<1> HIDE DEF x
<1>4. Finds(x, builder, pending)
  <2>1. Head(x) = d[1] /\ Head(d) = d[1]
    BY <1>1, <1>3, FirstIsHead
  <2> QED
    BY <2>1, <1>1, <1>3 DEF Finds
<1>5. Startable(k, a \o x)
  <2>1. x # <<>> => x[1] \in {"append", "import", "seal", "publish", "plan", "drained"}
                    \/ (x[1] = "ready" /\ Len(x) >= 2 /\ x[2] = "append")
    BY <1>1, <1>3
  <2> QED
    BY <1>3, <1>4, <2>1, Starts
<1>6. (a \o d) \o q = a \o x
  <2> HIDE DEF a, q
  <2>1. (a \o d) \o q = a \o (d \o q)
    BY ONLY <1>1, StepsAssociative
  <2> QED
    BY <2>1 DEF x
<1>7. Startable(k, (a \o d) \o q)
  BY <1>5, <1>6
<1> QED
  BY <1>2, <1>7 DEF d

LEMMA CancelLists ==
  /\ Startable("reset", Cancelled)
  /\ Startable("restore", Cancelled \o <<"rebase", "ready", "drained", "plan", "begin",
                                         "import", "append">>)
  /\ Head(Cancelled \o <<"rebase", "ready", "drained", "plan", "begin",
                         "import", "append">>) = "cancel"
<1> DEFINE c == <<"cancel", "invalidate", "cancel">>
           q == <<"rebase", "ready", "drained", "plan", "begin", "import", "append">>
<1>1. c \in Seq(Steps) /\ c # <<>> /\ c[1] = "cancel" /\ c[Len(c)] = "cancel"
      /\ Legal("reset", c) /\ Legal("restore", c) /\ Head(c) = "cancel"
  BY ListCancelled
<1>2. q \in Seq(Steps) /\ q # <<>> /\ q[1] = "rebase" /\ Legal("restore", q)
  BY ListRestore
<1>3. Cancelled = c
  BY DEF Cancelled
<1> HIDE DEF c, q
<1> DEFINE x == c \o q
<1>4. x \in Seq(Steps) /\ Legal("restore", x) /\ x # <<>> /\ x[1] = "cancel"
  <2>1. Follows("restore", c[Len(c)], q[1]) /\ q[1] # "ready"
    BY <1>1, <1>2 DEF Follows, After
  <2> QED
    BY <1>1, <1>2, <2>1, Chained
<1> HIDE DEF x
<1>5. Head(x) = "cancel"
  BY <1>4, FirstIsHead
<1>6. Startable("reset", c) /\ Startable("restore", x)
  BY <1>1, <1>4, <1>5 DEF Startable
<1> QED
  BY <1>3, <1>5, <1>6 DEF q, x

LEMMA CallStartKeeps ==
  ASSUME WorkInv, NEW kind \in DOMAIN CallSteps, NEW cycle \in 0..CycleLimit,
         CallStart(kind, cycle)
  PROVE  WorkInv'
<1>1. /\ Typed /\ (builder = NoCommit \/ pending = NoCommit)
  BY DEF WorkInv, Placed
<1>2. /\ call' = [NoCall EXCEPT !.kind = kind, !.cycle = cycle] /\ todo' = CallSteps[kind]
      /\ UNCHANGED <<laneVars, clock, rooms, session, chunk, history>>
  BY DEF CallStart
<1>3. kind \in Kinds
  BY DEF CallSteps, Kinds
<1>4. call'.kind = kind
      /\ call' \in [kind : Kinds \cup {"none"}, cycle : Nat,
                    flushed : BOOLEAN, drained : BOOLEAN]
  <2> DEFINE R == [kind : Kinds \cup {"none"}, cycle : Nat, flushed : BOOLEAN, drained : BOOLEAN]
  <2>1. NoCall \in R
    BY DEF NoCall, Kinds
  <2>2. cycle \in Nat
    BY WorkAssumption
  <2> HIDE DEF NoCall
  <2> QED
    BY <2>1, <2>2, <1>2, <1>3
<1>5. Startable(kind, CallSteps[kind])
      /\ (kind = "restore" => Head(CallSteps[kind]) # "ready")
  <2>1. CASE kind = "operation"
    BY <2>1, <1>1, ItemLists DEF CallSteps
  <2>2. CASE kind = "coverage"
    BY <2>2, <1>1, ItemLists DEF CallSteps
  <2>3. CASE kind = "upload"
    BY <2>3, <1>1, UploadList DEF CallSteps
  <2>4. CASE kind = "flush"
    BY <2>4, <1>1, FlushLists DEF CallSteps, Flush
  <2>5. CASE kind = "boundary"
    BY <2>5, <1>1, FlushLists DEF CallSteps
  <2>6. CASE kind = "drain"
    BY <2>6, <1>1, DrainLists DEF CallSteps
  <2>7. CASE kind = "scene"
    BY <2>7, <1>1, DrainLists DEF CallSteps
  <2>8. CASE kind = "reset"
    BY <2>8, <1>1, CancelLists DEF CallSteps
  <2>9. CASE kind = "restore"
    BY <2>9, <1>1, CancelLists DEF CallSteps
  <2> QED
    BY <2>1, <2>2, <2>3, <2>4, <2>5, <2>6, <2>7, <2>8, <2>9, <1>3 DEF Kinds
<1> QED
  BY <1>2, <1>4, <1>5, Relisted DEF Startable

----------------------------------------------------------------------------
(* The invariant holds.                                                      *)

LEMMA WorkStarts == Init => WorkInv
<1> SUFFICES ASSUME Init PROVE WorkInv
  OBVIOUS
<1> USE DEF Init
<1>1. /\ builder = NoCommit /\ pending = NoCommit /\ todo = <<>> /\ stream = <<>> /\ out = <<>>
      /\ cEpoch = 0 /\ workEpoch = 0 /\ workCycle = 0 /\ lastCycle = 0 /\ boundaryCycle = 0
      /\ epoch = 1 /\ call = NoCall
  BY DEF Lane!Init
<1>2. /\ todo \in Seq(Steps) /\ Len(todo) = 0 /\ \A step : ~At(step)
      /\ DOMAIN builder.items = {} /\ Collected = <<>> /\ DOMAIN Collected = {}
  <2>1. Collected = (<<>> \o <<>>) \o <<>>
    BY <1>1, NoCommitFacts DEF Collected
  <2>2. <<>> \o <<>> = <<>> /\ DOMAIN <<>> = {} /\ <<>> \in Seq(Steps) /\ Len(<<>>) = 0
    BY NoCommitFacts, ConcatEmptySeq
  <2> QED
    BY <2>1, <2>2, <1>1, NoCommitFacts DEF At
<1>3. Lane!InSequence
  BY WorkAssumption DEF Lane!Init, Lane!InSequence
<1>4. Typed
  <2>1. call \in [kind : Kinds \cup {"none"}, cycle : Nat,
                  flushed : BOOLEAN, drained : BOOLEAN]
    BY <1>1 DEF NoCall
  <2>2. stream \in Seq(Nat) /\ out \in Seq(Nat) /\ todo \in Seq(Steps)
    BY <1>1, <1>2, NoCommitFacts
  <2>3. open \in BOOLEAN /\ blocked \in BOOLEAN /\ stale \in BOOLEAN
    BY DEF Lane!Init
  <2>4. builder \in CommitRecord /\ pending \in CommitRecord
    BY <1>1, NoCommitFacts
  <2> QED
    BY <2>1, <2>2, <2>3, <2>4, <1>1 DEF Typed
<1>5. Placed
  BY <1>1, <1>2 DEF Placed, Legal, Finds, At
<1>6. Timely
  BY <1>1, <1>2 DEF Timely, Current, EpochCycle
<1>7. Kept
  BY <1>1, <1>2 DEF Kept, Rising
<1>8. Restored
  BY <1>1, <1>2 DEF Restored
<1>9. Drained
  BY <1>2 DEF Drained
<1> QED
  BY <1>3, <1>4, <1>5, <1>6, <1>7, <1>8, <1>9 DEF WorkInv

LEMMA WorkStep ==
  ASSUME WorkInv, [Next]_vars
  PROVE  WorkInv'
<1>1. CASE \E kind \in DOMAIN CallSteps, cycle \in 0..CycleLimit : CallStart(kind, cycle)
  BY <1>1, CallStartKeeps
<1>2. CASE \E cycle \in 0..CycleLimit : SourceBoundary(cycle)
  BY <1>2, WorldTurns
<1>3. CASE Collector
  <2>1. CASE Refused
    BY <2>1, FailureKeeps DEF Refused
  <2> QED
    BY <1>3, <2>1, ReadyKeeps, PublishKeeps, PlanKeeps, BeginKeeps, ImportKeeps,
       AppendKeeps, AppendFullKeeps, SealKeeps, DrainedKeeps, CancelKeeps,
       InvalidateKeeps DEF Collector
<1>4. CASE HostFails
  BY <1>4, FailureKeeps DEF HostFails
<1>5. CASE HostCloses
  BY <1>5, HostClosesKeeps
<1>6. CASE HostOpens
  BY <1>6, HostOpensKeeps
<1>7. CASE LaneWorks
  BY <1>7, LaneWorksKeeps
<1>8. CASE Release \/ StaleEnds \/ UNCHANGED vars
  BY <1>8, WorldTurns
<1> QED
  BY <1>1, <1>2, <1>3, <1>4, <1>5, <1>6, <1>7, <1>8 DEF Next

(* Every reachable state of the collector satisfies the inductive invariant: *)
(* the remaining steps of a call suit what is built and sealed, both commits *)
(* have the identity of their epoch, nothing is out of order.                *)
THEOREM WorkInvariant == Spec => []WorkInv
BY WorkStarts, WorkStep, PTL DEF Spec

----------------------------------------------------------------------------
(* What the guest and the lane can rely on.                                  *)

LEMMA KeptStream == WorkInv => StreamKept
BY DEF WorkInv, Kept, Placed, Rising, StreamKept

(* Unless a seal was refused, what was published, sealed and collected is    *)
(* exactly what the guest submitted, and it is always in that order: no      *)
(* operation is omitted, doubled or overtaken by append_operation's flushes, *)
(* an upload's retry or a failed wait.                                       *)
THEOREM WorkStreamKept == Spec => []StreamKept
BY WorkInvariant, KeptStream, PTL

LEMMA DrainedScene == WorkInv => SceneIsDrained
<1> SUFFICES ASSUME WorkInv, call.kind = "scene", At("invalidate")
             PROVE  /\ builder = NoCommit /\ pending = NoCommit
                    /\ acked = published /\ applied = acked
  BY DEF SceneIsDrained
<1>1. Lane!InSequence /\ Placed /\ Drained
  BY DEF WorkInv
<1>2. builder = NoCommit /\ pending = NoCommit
  BY <1>1 DEF Placed, Finds, At
<1>3. acked = published
  BY <1>1 DEF Drained
<1>4. applied = acked
  BY <1>1, <1>3, WorkAssumption DEF Lane!InSequence
<1> QED
  BY <1>2, <1>3, <1>4

(* A scene change invalidates the timeline only after all work of the epoch  *)
(* was published, executed and acknowledged (timeline_invalidate_locked).    *)
THEOREM WorkSceneIsDrained == Spec => []SceneIsDrained
BY WorkInvariant, DrainedScene, PTL

LEMMA TimelyIdentity == WorkInv => IdentityHolds
<1> SUFFICES ASSUME WorkInv, Ready
             PROVE  /\ todo # <<>> => CycleOk(PublicationCycle(call.cycle))
                    /\ builder.alive /\ builder.epoch = epoch =>
                         /\ builder.seq = published + 1
                         /\ todo # <<>> => PublicationCycle(call.cycle) >= builder.cycle
                    /\ pending # NoCommit /\ pending.epoch = epoch => Admissible(pending)
  BY DEF IdentityHolds
<1>1. Typed /\ Timely
  BY DEF WorkInv
<1>2. /\ PublicationCycle(call.cycle) \in Nat
      /\ PublicationCycle(call.cycle) >= boundaryCycle
      /\ PublicationCycle(call.cycle) >= EpochCycle
      /\ EpochCycle \in Nat /\ lastCycle \in Nat
  <2>1. call.cycle \in Nat /\ lastCycle \in Nat
    BY <1>1 DEF Typed
  <2> QED
    BY <2>1, <1>1, CycleIsLatest, EpochCycleTyped
<1>3. CycleOk(PublicationCycle(call.cycle))
  BY <1>1, <1>2 DEF CycleOk, Timely
<1>4. ASSUME builder.alive, builder.epoch = epoch
      PROVE  builder.seq = published + 1 /\ PublicationCycle(call.cycle) >= builder.cycle
  <2>1. builder # NoCommit
    BY <1>4, NoCommitFacts
  <2>2. builder.seq = published + 1 /\ builder.cycle <= EpochCycle
    BY <2>1, <1>1, <1>4 DEF Timely, Current
  <2>3. builder.cycle \in Nat
    BY <1>1 DEF Typed, CommitRecord
  <2> QED
    BY <2>2, <2>3, <1>2
<1>5. ASSUME pending # NoCommit, pending.epoch = epoch
      PROVE  Admissible(pending)
  <2>1. pending.cycle \in Nat
    BY <1>1 DEF Typed, CommitRecord
  <2> QED
    BY <2>1, <1>1, <1>2, <1>5 DEF Timely, Current, Admissible
<1> QED
  BY <1>3, <1>4, <1>5

(* While the lane is ready for the collector, neither a new, an open nor a   *)
(* sealed commit has a sequence or a cycle the lane would refuse: the choice *)
(* of publication_cycle and the sequence begin_chunk took stay right over    *)
(* every wait, boundary and older cycle in between.                          *)
THEOREM WorkIdentityHolds == Spec => []IdentityHolds
BY WorkInvariant, TimelyIdentity, PTL

LEMMA RestoredAlone == WorkInv => RestoreIsAlone
<1> SUFFICES ASSUME WorkInv, NEW i \in DOMAIN builder.items, builder.items[i] = 0,
                    builder.epoch = epoch
             PROVE  i = 1 /\ out = <<>> /\ acked = published /\ ~stale
  BY DEF RestoreIsAlone
<1>1. Typed /\ Placed /\ Timely /\ Kept /\ Restored
  BY DEF WorkInv
<1>2. builder # NoCommit
  BY NoCommitFacts
<1>3. acked = published /\ ~stale
  <2>1. cEpoch = epoch
    BY <1>1, <1>2 DEF Timely, Current
  <2> QED
    BY <2>1, <1>1 DEF Restored, Alone
<1> DEFINE b == builder.items c == out \o b n == Len(out)
<1>4. b \in Seq(Nat) /\ out \in Seq(Nat) /\ pending = NoCommit
  BY <1>1, <1>2 DEF Typed, Placed, CommitRecord
<1>5. Collected = c
  BY <1>4, NoCommitFacts, CollectedWhere DEF Collected
<1>6. Rising(c)
  BY <1>1, <1>5 DEF Kept
<1>7. /\ n \in Nat /\ c \in Seq(Nat) /\ Len(c) = n + Len(b) /\ Len(b) \in Nat
      /\ \A j \in 1..(n + Len(b)) : c[j] = IF j <= n THEN out[j] ELSE b[j - n]
  BY <1>4, ConcatProperties
<1>8. i \in 1..Len(b) /\ b[i] = 0
  BY <1>4, LenProperties
<1> HIDE DEF b, c, n
<1>9. n + i \in 1..(n + Len(b)) /\ ~(n + i <= n) /\ (n + i) - n = i
      /\ 1 \in 1..(n + Len(b))
  BY <1>7, <1>8
<1>10. c[n + i] = 0 /\ DOMAIN c = 1..(n + Len(b))
  <2>1. DOMAIN c = 1..Len(c)
    BY <1>7, LenProperties
  <2>2. c[n + i] = b[(n + i) - n]
    BY <1>7, <1>9
  <2> QED
    BY <1>7, <1>8, <1>9, <2>1, <2>2
<1>11. c[1] \in Nat
  BY <1>7, <1>9, <1>10, ElementOfSeq
<1>12. ~(1 < n + i)
  BY <1>6, <1>9, <1>10, <1>11 DEF Rising
<1>13. n = 0 /\ i = 1
  BY <1>7, <1>8, <1>12
<1>14. out = <<>>
  BY <1>4, <1>13, EmptySeq DEF n
<1> QED
  BY <1>3, <1>13, <1>14

(* The image of a restore is the first item of its epoch and recorded when   *)
(* no work, old or new, can still write over it (the restore of vram_event). *)
THEOREM WorkRestoreIsAlone == Spec => []RestoreIsAlone
BY WorkInvariant, RestoredAlone, PTL

(* What the collector and the host do to the lane is what a lane does.       *)
LEMMA LaneKept ==
  ASSUME [Next]_vars
  PROVE  [Lane!Next]_Lane!vars
<1>1. CASE UNCHANGED laneVars
  BY <1>1 DEF laneVars, Lane!vars
<1>2. CASE StepPublish
  BY <1>2 DEF StepPublish, Lane!Next
<1>3. CASE StepInvalidate
  BY <1>1, <1>3 DEF StepInvalidate, InvalidateLane, Lane!Next
<1>4. CASE HostCloses \/ HostOpens \/ LaneWorks
  BY <1>4 DEF HostCloses, InvalidateLane, HostOpens, LaneWorks, Lane!Next
<1>5. CASE Collector /\ ~StepPublish /\ ~StepInvalidate
  BY <1>1, <1>5 DEF Collector, StepReady, StepPlan, StepBegin, StepImport, StepAppend,
       AppendFull, StepSeal, StepDrained, StepCancel, Refused
<1>6. CASE Release \/ StaleEnds \/ HostFails \/ UNCHANGED vars
  BY <1>1, <1>6 DEF Release, StaleEnds, HostFails, vars
<1>7. CASE \/ \E kind \in DOMAIN CallSteps, cycle \in 0..CycleLimit : CallStart(kind, cycle)
           \/ \E cycle \in 0..CycleLimit : SourceBoundary(cycle)
  BY <1>1, <1>7 DEF CallStart, SourceBoundary
<1> QED
  BY <1>2, <1>3, <1>4, <1>5, <1>6, <1>7 DEF Next

(* The collector implements SourceLane: it publishes and invalidates only as *)
(* the lane's promise allows, so what holds of every lane holds of this one. *)
THEOREM WorkKeepsLane == Spec => Lane!Spec
<1>1. Init => Lane!Init
  BY DEF Init
<1> QED
  BY <1>1, LaneKept, PTL DEF Spec, Lane!Spec
=============================================================================
