--------------------------- MODULE DiscoveryProofs ----------------------------
(***************************************************************************)
(* Proofs about discovery, for any deployments, configuration and file.    *)
(* The lemmas about one step of Reflection hold whichever module takes it. *)
(***************************************************************************)
EXTENDS Discovery, WellFoundedInduction, FiniteSetTheorems, TLAPS

\* A load under way, and the server, as opposed to its call and its return.
RRun ==
    \/ \E calls : OpenStream(calls)
    \/ OpenFails \/ Answer \/ AnswerBadly
    \/ ReceiveNames \/ ReceiveDescriptor \/ ReceiveError \/ CancelLoad
    \/ Crash \/ Restart

RStep == (\E wanted \in Filters : BeginLoad(wanted)) \/ RRun \/ EndLoad

\* The part of ReflectionTypeOK that does not depend on how the configured list
\* is cleaned: what has been received, not what is still to be asked for.
Received ==
    /\ epoch \in Epochs
    /\ DOMAIN load = DOMAIN NoLoad
    /\ load.reply \in Reply
    /\ load.got \in Seq(ServiceAt)
    /\ load.since \in Epochs /\ load.listed \in Epochs

\* A reply on its way is from a deployment between the last one that gave a
\* descriptor and now, and the names come first.
ReplyIsRegular ==
    /\ load.listing => load.got = <<>>
    /\ load.phase = "replied" /\ load.reply.kind = "names" =>
          load.got = <<>> /\ load.reply.epoch \in load.since..epoch
    /\ load.phase = "replied" /\ load.reply.kind = "descriptor" =>
          /\ ~load.listing
          /\ load.reply.epoch \in load.listed..epoch
          /\ Head(load.todo) \in Deployed[load.reply.epoch]
          /\ \A i \in DOMAIN load.got : load.got[i].epoch <= load.reply.epoch

RegularInv == Received /\ ReplyIsRegular /\ LoadIsRegular

------------------------------------------------------------------------------
\* A load before it begins and after it failed has nothing.
LEMMA EmptyLoads ==
  /\ Epochs \subseteq Nat /\ 1 \in Epochs
  /\ NoReply \in Reply
  /\ NoLoad.reply = NoReply /\ NoLoad.got = <<>> /\ ~NoLoad.listing
  /\ NoLoad.since = 1 /\ NoLoad.listed = 1 /\ NoLoad.phase = "none"
  <1>1. Len(Deployed) \in Nat /\ Len(Deployed) # 0
    BY DeploymentsAssumption
  <1>. QED BY <1>1 DEF Epochs, NoReply, Reply, NoLoad

\* Whatever phase it is in, a load without descriptors is regular.
LEMMA NothingIsRegular ==
  ASSUME epoch \in Epochs, DOMAIN load = DOMAIN NoLoad, load.reply = NoReply, load.got = <<>>,
         load.since \in Epochs, load.listed \in Epochs,
         load.since <= load.listed, load.listed <= epoch
  PROVE  RegularInv
  <1>1. load.got \in Seq(ServiceAt) /\ DOMAIN load.got = {}
    OBVIOUS
  <1>2. load.reply \in Reply /\ load.reply.kind = "nothing"
    BY EmptyLoads DEF NoReply
  <1>. QED BY <1>1, <1>2 DEF RegularInv, Received, ReplyIsRegular, LoadIsRegular
\* A change of phase alone, short of a new reply.
LEMMA PhaseOnly ==
  ASSUME RegularInv, NEW ph, ph # "replied",
         load' = [load EXCEPT !.phase = ph], epoch' = epoch
  PROVE  RegularInv'
  <1>1. /\ DOMAIN load' = DOMAIN load /\ load'.phase = ph
        /\ load'.reply = load.reply /\ load'.got = load.got /\ load'.listing = load.listing
        /\ load'.since = load.since /\ load'.listed = load.listed
    BY DEF RegularInv, Received, NoLoad
  <1>. QED BY <1>1 DEF RegularInv, Received, ReplyIsRegular, LoadIsRegular

\* Every step, by the load or the server, keeps what has been received regular:
\* a reply is put behind the descriptors it is not older than, and the server
\* never goes back to an earlier deployment.
LEMMA RegularStep ==
  ASSUME RegularInv, RStep \/ UNCHANGED reflectionVars
  PROVE  RegularInv'
  <1>0. epoch \in Epochs /\ epoch \in Nat /\ 1 <= epoch
    BY EmptyLoads DEF RegularInv, Received, Epochs
  <1>1. ASSUME NEW wanted, BeginLoad(wanted)
        PROVE  RegularInv'
    <2>1. /\ epoch' = epoch
          /\ load' = [NoLoad EXCEPT !.phase = "opening", !.wanted = wanted,
                              !.todo = NamesOf(wanted), !.listing = (NamesOf(wanted) = <<>>),
                              !.since = epoch, !.listed = epoch]
      BY <1>1 DEF BeginLoad
    <2>2. /\ DOMAIN load' = DOMAIN NoLoad
          /\ load'.reply = NoReply /\ load'.got = <<>>
          /\ load'.since = epoch /\ load'.listed = epoch
      BY <2>1 DEF NoLoad
    <2>3. (load').reply.kind = "nothing" /\ NoReply \in Reply /\ (load').got \in Seq(ServiceAt)
          /\ DOMAIN (load').got = {}
      BY <2>2, EmptyLoads DEF NoReply
    <2>. QED BY <1>0, <2>1, <2>2, <2>3 DEF RegularInv, Received, ReplyIsRegular, LoadIsRegular
  <1>2. ASSUME epoch' = epoch, NEW ph, ph # "replied", load' = [NoLoad EXCEPT !.phase = ph]
        PROVE  RegularInv'
    <2>1. /\ DOMAIN load' = DOMAIN NoLoad
          /\ load'.reply = NoReply /\ load'.got = <<>>
          /\ load'.since = 1 /\ load'.listed = 1
      BY <1>2 DEF NoLoad
    <2>2. (load').reply.kind = "nothing" /\ NoReply \in Reply /\ (load').got \in Seq(ServiceAt)
          /\ DOMAIN (load').got = {} /\ 1 \in Epochs
      BY <2>1, EmptyLoads DEF NoReply
    <2>. QED BY <1>0, <1>2, <2>1, <2>2 DEF RegularInv, Received, ReplyIsRegular, LoadIsRegular
  <1>3. ASSUME NEW calls, OpenStream(calls)
        PROVE  RegularInv'
    BY <1>3, PhaseOnly DEF OpenStream
  <1>4. CASE OpenFails \/ ReceiveError \/ CancelLoad
    BY <1>2, <1>4 DEF OpenFails, ReceiveError, CancelLoad, FailLoad
  <1>5. CASE EndLoad
    <2>1. load' = NoLoad /\ epoch' = epoch
      BY <1>5 DEF EndLoad
    <2>2. NoLoad.reply.kind = "nothing" /\ NoLoad.got \in Seq(ServiceAt) /\ DOMAIN NoLoad.got = {}
      BY EmptyLoads DEF NoReply
    <2>. QED BY <1>0, <2>1, <2>2, EmptyLoads DEF RegularInv, Received, ReplyIsRegular, LoadIsRegular
  <1>6. CASE Answer
    <2> DEFINE reply == [kind |-> IF load.listing THEN "names"
                                  ELSE IF Head(load.todo) \in Deployed[epoch]
                                       THEN "descriptor" ELSE "error",
                         names |-> IF load.listing THEN Deployed[epoch] ELSE {},
                         epoch |-> epoch]
    <2>1. load' = [load EXCEPT !.phase = "replied", !.reply = reply] /\ epoch' = epoch
      BY <1>6 DEF Answer
    <2>2. reply \in Reply /\ reply.epoch = epoch
      <3>1. Deployed[epoch] \in SUBSET Services
        BY <1>0, DeploymentsAssumption DEF Epochs
      <3>. QED BY <1>0, <3>1 DEF Reply
    <2>3. /\ reply.kind = "names" => load.listing
          /\ reply.kind = "descriptor" => ~load.listing /\ Head(load.todo) \in Deployed[epoch]
      OBVIOUS
    <2> HIDE DEF reply
    <2>4. /\ DOMAIN load' = DOMAIN load /\ load'.phase = "replied" /\ load'.reply = reply
          /\ load'.got = load.got /\ load'.listing = load.listing /\ load'.todo = load.todo
          /\ load'.since = load.since /\ load'.listed = load.listed
      BY <2>1 DEF RegularInv, Received, NoLoad
    <2>5. Received'
      BY <2>1, <2>2, <2>4 DEF RegularInv, Received
    <2>6. LoadIsRegular'
      BY <2>1, <2>4 DEF RegularInv, LoadIsRegular
    <2>7. ReplyIsRegular'
      <3>1. load.since \in Nat /\ load.listed \in Nat /\ load.since <= load.listed /\ load.listed <= epoch
        BY EmptyLoads DEF RegularInv, Received, LoadIsRegular
      <3>2. \A i \in DOMAIN load.got : load.got[i].epoch <= epoch
        BY <1>0 DEF RegularInv, LoadIsRegular
      <3>3. load.listing => load.got = <<>>
        BY DEF RegularInv, ReplyIsRegular
      <3>4. epoch \in load.since..epoch /\ epoch \in load.listed..epoch
        BY <1>0, <3>1
      <3>. QED BY <2>1, <2>2, <2>3, <2>4, <3>2, <3>3, <3>4 DEF ReplyIsRegular
    <2>. QED BY <2>5, <2>6, <2>7 DEF RegularInv
  <1>7. CASE AnswerBadly
    <2>1. load' = [load EXCEPT !.phase = "replied", !.reply.kind = "error"] /\ epoch' = epoch
      BY <1>7 DEF AnswerBadly
    <2>2. /\ DOMAIN load' = DOMAIN load
          /\ load'.reply = [load.reply EXCEPT !.kind = "error"]
          /\ load'.got = load.got /\ load'.listing = load.listing
          /\ load'.since = load.since /\ load'.listed = load.listed
      BY <2>1 DEF RegularInv, Received, NoLoad
    <2>3. (load').reply \in Reply /\ (load').reply.kind = "error"
      BY <2>2 DEF RegularInv, Received, Reply
    <2>. QED BY <2>1, <2>2, <2>3 DEF RegularInv, Received, ReplyIsRegular, LoadIsRegular
  <1>8. CASE ReceiveNames
    <2>1. PICK ph, td : /\ ph # "replied" /\ epoch' = epoch
                        /\ load' = [load EXCEPT !.phase = ph, !.listing = FALSE, !.todo = td,
                                !.reply = NoReply, !.listed = load.reply.epoch]
      BY <1>8 DEF ReceiveNames
    <2>2. load.got = <<>> /\ load.reply.epoch \in load.since..epoch
      BY <1>8 DEF ReceiveNames, RegularInv, ReplyIsRegular
    <2>3. /\ DOMAIN load' = DOMAIN NoLoad /\ load'.reply = NoReply /\ load'.got = <<>>
          /\ load'.since = load.since /\ load'.listed = load.reply.epoch
          /\ load'.phase = ph
      BY <2>1, <2>2 DEF RegularInv, Received, NoLoad
    <2>4. load.since \in Epochs /\ load.reply.epoch \in Epochs /\ load.since \in Nat
      BY EmptyLoads DEF RegularInv, Received, Reply
    <2>5. (load').reply.kind = "nothing" /\ NoReply \in Reply /\ (load').got \in Seq(ServiceAt)
          /\ DOMAIN (load').got = {}
      BY <2>3, EmptyLoads DEF NoReply
    <2>. QED BY <1>0, <2>1, <2>2, <2>3, <2>4, <2>5
              DEF RegularInv, Received, ReplyIsRegular, LoadIsRegular
  <1>9. CASE ReceiveDescriptor
    <2> DEFINE found == [service |-> Head(load.todo), epoch |-> load.reply.epoch]
    <2>1. PICK ph, td : /\ ph # "replied" /\ epoch' = epoch
                        /\ load' = [load EXCEPT !.phase = ph, !.todo = td, !.reply = NoReply,
                                                !.got = Append(load.got, found)]
      BY <1>9 DEF ReceiveDescriptor
    <2>2. /\ load.reply.epoch \in load.listed..epoch
          /\ Head(load.todo) \in Deployed[load.reply.epoch]
          /\ \A i \in DOMAIN load.got : load.got[i].epoch <= load.reply.epoch
          /\ ~load.listing
      BY <1>9 DEF ReceiveDescriptor, RegularInv, ReplyIsRegular
    <2>3. /\ load.since \in Nat /\ load.listed \in Nat
          /\ load.since <= load.listed /\ load.listed <= epoch
          /\ load.reply.epoch \in Epochs /\ load.reply.epoch \in Nat
      BY EmptyLoads DEF RegularInv, Received, LoadIsRegular, Reply
    <2>4. found \in ServiceAt /\ found.epoch = load.reply.epoch /\ found.service = Head(load.todo)
      <3>1. Deployed[load.reply.epoch] \in SUBSET Services
        BY <2>3, DeploymentsAssumption DEF Epochs
      <3>. QED BY <2>2, <2>3, <3>1 DEF ServiceAt
    <2> HIDE DEF found
    <2> DEFINE n == Len(load.got)
    <2>5. /\ load.got \in Seq(ServiceAt) /\ n \in Nat /\ DOMAIN load.got = 1..n
          /\ \A i \in 1..n : load.got[i] \in ServiceAt /\ load.got[i].epoch \in Nat
      <3>1. load.got \in Seq(ServiceAt)
        BY DEF RegularInv, Received
      <3>2. \A d \in ServiceAt : d.epoch \in Nat
        BY EmptyLoads DEF ServiceAt
      <3>. QED BY <3>1, <3>2
    <2>6. /\ DOMAIN load' = DOMAIN NoLoad /\ load'.reply = NoReply /\ load'.phase = ph
          /\ load'.got = Append(load.got, found) /\ load'.listing = load.listing
          /\ load'.since = load.since /\ load'.listed = load.listed
      BY <2>1 DEF RegularInv, Received, NoLoad
    <2>7. /\ (load').got \in Seq(ServiceAt) /\ DOMAIN (load').got = 1..(n + 1)
          /\ (load').got[n + 1] = found
          /\ \A i \in 1..n : (load').got[i] = load.got[i]
      BY <2>4, <2>5, <2>6
    <2>8. \A i \in DOMAIN (load').got : i = n + 1 \/ (i \in 1..n /\ i # n + 1)
      BY <2>5, <2>7
    <2>9. Received' /\ ReplyIsRegular'
      <3>1. (load').reply.kind = "nothing" /\ NoReply \in Reply
        BY <2>6, EmptyLoads DEF NoReply
      <3>. QED BY <2>1, <2>2, <2>6, <2>7, <3>1 DEF RegularInv, Received, ReplyIsRegular
    <2>10. LoadIsRegular'
      <3>1. \A i \in 1..n : /\ load.got[i].epoch \in load.since..epoch
                            /\ load.listed <= load.got[i].epoch
                            /\ load.got[i].service \in Deployed[load.got[i].epoch]
                            /\ load.got[i].epoch <= found.epoch
        BY <2>2, <2>4, <2>5 DEF RegularInv, LoadIsRegular
      <3>2. /\ found.epoch \in load.since..epoch /\ load.listed <= found.epoch
            /\ found.service \in Deployed[found.epoch] /\ found.epoch <= found.epoch
        BY <1>0, <2>2, <2>3, <2>4
      <3>3. \A i, j \in 1..n : i <= j => load.got[i].epoch <= load.got[j].epoch
        BY <2>5 DEF RegularInv, LoadIsRegular
      <3>4. \A i \in DOMAIN (load').got :
              /\ (load').got[i].epoch \in load.since..epoch
              /\ load.listed <= (load').got[i].epoch
              /\ (load').got[i].service \in Deployed[(load').got[i].epoch]
        BY <2>7, <2>8, <3>1, <3>2
      <3>5. \A i, j \in DOMAIN (load').got :
              i <= j => (load').got[i].epoch <= (load').got[j].epoch
        <4>1. \A i \in 1..n : ~(n + 1 <= i)
          BY <2>5
        <4>. QED BY <2>7, <2>8, <3>1, <3>2, <3>3, <4>1
      <3>. QED BY <2>1, <2>3, <2>6, <3>4, <3>5 DEF LoadIsRegular
    <2>. QED BY <2>9, <2>10 DEF RegularInv
  <1>10. CASE Crash
    <2>1. CASE load' = load /\ epoch' = epoch
      BY <2>1 DEF RegularInv, Received, ReplyIsRegular, LoadIsRegular
    <2>. QED BY <1>10, <2>1, PhaseOnly DEF Crash
  <1>11. CASE Restart
    <2>1. load' = load /\ epoch' \in Epochs /\ epoch' \in {epoch, epoch + 1}
      BY <1>11 DEF Restart
    <2>2. epoch' \in Nat /\ epoch <= epoch'
      BY <1>0, <2>1
    <2>3. Received'
      BY <2>1 DEF RegularInv, Received
    <2>4. \A e \in Nat : e <= epoch => e <= epoch'
      BY <1>0, <2>2
    <2>5. load.since \in Nat /\ load.listed \in Nat /\ load.reply.epoch \in Nat
          /\ \A i \in DOMAIN load.got : load.got[i].epoch \in Nat
      <3>1. \A d \in ServiceAt : d.epoch \in Nat
        BY EmptyLoads DEF ServiceAt
      <3>2. load.got \in Seq(ServiceAt) /\ load.reply \in Reply
        BY DEF RegularInv, Received
      <3>3. \A i \in DOMAIN load.got : load.got[i] \in ServiceAt
        BY <3>2
      <3>. QED BY <3>1, <3>2, <3>3, EmptyLoads DEF RegularInv, Received, Reply
    <2>6. ReplyIsRegular'
      BY <1>0, <2>1, <2>2, <2>4, <2>5 DEF RegularInv, ReplyIsRegular
    <2>7. LoadIsRegular'
      BY <1>0, <2>1, <2>2, <2>4, <2>5 DEF RegularInv, LoadIsRegular
    <2>. QED BY <2>3, <2>6, <2>7 DEF RegularInv
  <1>12. CASE UNCHANGED reflectionVars
    BY <1>12 DEF reflectionVars, RegularInv, Received, ReplyIsRegular, LoadIsRegular
  <1>. QED
    BY <1>1, <1>3, <1>4, <1>5, <1>6, <1>7, <1>8, <1>9, <1>10, <1>11, <1>12 DEF RStep, RRun

\* The first load has not begun.
LEMMA RegularInit == RInit => RegularInv
  BY EmptyLoads, NothingIsRegular DEF RInit

------------------------------------------------------------------------------
InProgress == load.phase \notin {"none", "failed"}

\* The server moves on to later deployments, and a load keeps the one it began
\* with in mind.
LEMMA RunAges ==
  ASSUME RegularInv, RRun \/ UNCHANGED reflectionVars
  PROVE  /\ epoch \in Nat /\ epoch' \in Nat /\ epoch <= epoch'
         /\ load.phase = "none" => load'.phase = "none"
         /\ InProgress' => InProgress /\ load'.since = load.since /\ load'.wanted = load.wanted
  <1>1. epoch \in Nat
    BY EmptyLoads DEF RegularInv, Received
  <1>2. DOMAIN load = DOMAIN NoLoad
    BY DEF RegularInv, Received
  <1>3. CASE OpenFails \/ ReceiveError \/ CancelLoad
    <2>1. load' = [NoLoad EXCEPT !.phase = "failed"] /\ epoch' = epoch /\ load.phase # "none"
      BY <1>3 DEF OpenFails, ReceiveError, CancelLoad, FailLoad, Loading
    <2>2. load'.phase = "failed"
      BY <2>1 DEF NoLoad
    <2>. QED BY <1>1, <2>1, <2>2 DEF InProgress
  <1>4. ASSUME NEW calls, OpenStream(calls)
        PROVE  epoch' = epoch /\ load'.since = load.since /\ load'.wanted = load.wanted
               /\ InProgress /\ load.phase # "none"
    BY <1>2, <1>4 DEF OpenStream, InProgress, NoLoad
  <1>5. CASE Answer \/ AnswerBadly
    <2>1. epoch' = epoch /\ load'.since = load.since /\ load'.wanted = load.wanted
          /\ InProgress /\ load.phase # "none"
      BY <1>2, <1>5 DEF Answer, AnswerBadly, InProgress, NoLoad
    <2>. QED BY <1>1, <2>1
  <1>6. CASE ReceiveNames \/ ReceiveDescriptor
    <2>1. epoch' = epoch /\ load'.since = load.since /\ load'.wanted = load.wanted
          /\ InProgress /\ load.phase # "none"
      BY <1>2, <1>6 DEF ReceiveNames, ReceiveDescriptor, InProgress, NoLoad
    <2>. QED BY <1>1, <2>1
  <1>7. CASE Crash
    <2>1. CASE load' = load
      BY <1>1, <1>7, <2>1 DEF Crash, InProgress
    <2>2. CASE load.phase \in {"sent", "replied"} /\ load' = [load EXCEPT !.phase = "broken"]
      <3>1. load'.since = load.since /\ load'.wanted = load.wanted
            /\ InProgress /\ load.phase # "none"
        BY <1>2, <2>2 DEF InProgress, NoLoad
      <3>. QED BY <1>1, <1>7, <3>1 DEF Crash
    <2>. QED BY <1>7, <2>1, <2>2 DEF Crash
  <1>8. CASE Restart
    BY <1>1, <1>8 DEF Restart, InProgress
  <1>9. CASE UNCHANGED reflectionVars
    BY <1>1, <1>9 DEF reflectionVars, InProgress
  <1>. QED BY <1>1, <1>3, <1>4, <1>5, <1>6, <1>7, <1>8, <1>9 DEF RRun

LEMMA BeginAges ==
  ASSUME RegularInv, NEW wanted, BeginLoad(wanted)
  PROVE  /\ epoch \in Nat /\ epoch' = epoch /\ load'.since = epoch /\ load'.wanted = wanted
         /\ load.phase = "none" /\ load'.phase = "opening"
  BY EmptyLoads DEF RegularInv, Received, BeginLoad, NoLoad

------------------------------------------------------------------------------
\* picked has the members of s at the positions P, one after the other.
InOrder(picked, s, P) ==
    \E m \in Nat : \E pos \in [1..m -> P] :
        /\ picked = [k \in 1..m |-> s[pos[k]]]
        /\ \A k, l \in 1..m : k < l => pos[k] < pos[l]
        /\ \A i \in P : \E k \in 1..m : pos[k] = i

\* The positions and their ranks correspond to each other.
LEMMA PickedFacts ==
  ASSUME NEW s, NEW n \in Nat, NEW P \in SUBSET (1..n)
  PROVE  InOrder(Picked(s, P), s, P)
  <1> DEFINE upto(i) == {j \in P : j <= i}
             rank(i) == Cardinality(upto(i))
             m == Cardinality(P)
  <1>0. \A i \in P : i \in Nat
    OBVIOUS
  <1>1. IsFiniteSet(P) /\ m \in Nat
    <2>1. IsFiniteSet(1..n)
      BY FS_Interval, 1 \in Int, n \in Int
    <2>2. IsFiniteSet(P)
      BY <2>1, FS_Subset
    <2>. QED BY <2>2, FS_CardinalityType
  <1>2. ASSUME NEW i
        PROVE  IsFiniteSet(upto(i)) /\ rank(i) \in Nat /\ rank(i) <= m
    <2>1. upto(i) \in SUBSET P
      OBVIOUS
    <2>. QED BY <1>1, <2>1, FS_Subset, FS_CardinalityType
  <1>3. ASSUME NEW i \in P, NEW j \in P, i < j
        PROVE  rank(i) < rank(j)
    <2>1. i \in Nat /\ j \in Nat
      BY <1>0
    <2>2. upto(i) \in SUBSET upto(j)
      <3>1. \A k \in P : k <= i => k <= j
        BY <1>0, <1>3, <2>1
      <3>. QED BY <3>1
    <2>3. j \in upto(j) /\ j \notin upto(i)
      BY <1>3, <2>1
    <2>4. upto(i) # upto(j)
      BY <2>3
    <2>5. rank(i) <= rank(j) /\ rank(i) # rank(j)
      BY <1>2, <2>2, <2>4, FS_Subset
    <2>. QED BY <1>2, <2>5
  <1>4. ASSUME NEW i \in P
        PROVE  rank(i) \in 1..m
    <2>1. i \in upto(i)
      OBVIOUS
    <2>2. rank(i) # 0
      BY <1>2, <2>1, FS_EmptySet
    <2>. QED BY <1>1, <1>2, <2>2
  <1> DEFINE f == [i \in P |-> rank(i)]
  <1> HIDE DEF rank, m
  <1>5. f \in Injection(P, 1..m)
    <2>1. f \in [P -> 1..m]
      BY <1>4
    <2>2. ASSUME NEW i \in P, NEW j \in P, f[i] = f[j]
          PROVE  i = j
      <3>1. rank(i) = rank(j)
        BY <2>2
      <3>2. i \in Nat /\ j \in Nat /\ rank(i) \in Nat
        BY <1>0, <1>2
      <3>3. ~(i < j) /\ ~(j < i)
        BY <1>3, <3>1, <3>2
      <3>. QED BY <3>2, <3>3
    <2>. QED BY <2>1, <2>2 DEF Injection, IsInjective
  <1>6. IsFiniteSet(1..m) /\ Cardinality(1..m) = m
    BY <1>1, FS_Interval
  <1>7. f \in Surjection(P, 1..m)
    BY <1>5, <1>6, FS_Injection DEF m
  <1>8. ASSUME NEW k \in 1..m
        PROVE  \E i \in P : rank(i) = k
    BY <1>7 DEF Surjection
  <1> DEFINE pos == [k \in 1..m |-> CHOOSE i \in P : rank(i) = k]
  <1>9. ASSUME NEW k \in 1..m
        PROVE  pos[k] \in P /\ rank(pos[k]) = k
    BY <1>8
  <1>10. pos \in [1..m -> P]
    BY <1>9
  <1>11. Picked(s, P) = [k \in 1..m |-> s[pos[k]]]
    BY DEF Picked, rank, m
  <1> HIDE DEF pos
  <1>12. ASSUME NEW k \in 1..m, NEW l \in 1..m, k < l
         PROVE  pos[k] < pos[l]
    <2>1. pos[k] \in Nat /\ pos[l] \in Nat
      BY <1>0, <1>9
    <2>2. ~(pos[l] < pos[k])
      <3>1. SUFFICES ASSUME pos[l] < pos[k] PROVE FALSE
        OBVIOUS
      <3>2. rank(pos[l]) < rank(pos[k])
        BY <1>3, <1>9, <3>1
      <3>. QED BY <1>9, <1>12, <3>2
    <2>3. pos[k] # pos[l]
      BY <1>9, <1>12
    <2>. QED BY <2>1, <2>2, <2>3
  <1>13. ASSUME NEW i \in P
         PROVE  \E k \in 1..m : pos[k] = i
    <2>1. rank(i) \in 1..m
      BY <1>4
    <2>2. pos[rank(i)] \in P /\ rank(pos[rank(i)]) = rank(i)
      BY <1>9, <2>1
    <2>3. pos[rank(i)] \in Nat /\ i \in Nat /\ rank(i) \in Nat
      BY <1>0, <1>2, <2>2
    <2>4. ~(i < pos[rank(i)]) /\ ~(pos[rank(i)] < i)
      BY <1>3, <2>2, <2>3
    <2>. QED BY <2>1, <2>3, <2>4
  <1>. QED BY <1>1, <1>10, <1>11, <1>12, <1>13 DEF InOrder

\* What a kept entry is: the first of its name.
LEMMA KeptIsFirst ==
  ASSUME NEW list \in Seq(Entries(Services)), NEW i \in Kept(list)
  PROVE  /\ i \in DOMAIN list /\ i \in Nat
         /\ list[i].name \in Services /\ list[i].name \in Mentioned(list)
         /\ FirstMention(list, list[i].name) = i
  <1> DEFINE s == list[i].name
             First(k) == list[k].name = s /\ \A j \in 1..(k - 1) : list[j].name # s
             h == CHOOSE k \in DOMAIN list : First(k)
  <1>1. DOMAIN list = 1..Len(list) /\ Len(list) \in Nat
    OBVIOUS
  <1>2. i \in DOMAIN list /\ s # Blank /\ ~Repeats(list, i)
    BY DEF Kept
  <1>3. First(i)
    BY <1>2 DEF Repeats
  <1>4. h \in DOMAIN list /\ First(h)
    BY <1>2, <1>3
  <1>5. h = i
    <2>1. h \in Nat /\ i \in Nat /\ 1 <= h /\ 1 <= i
      BY <1>1, <1>2, <1>4
    <2>2. h < i => h \in 1..(i - 1)
      BY <2>1
    <2>3. i < h => i \in 1..(h - 1)
      BY <2>1
    <2>4. ~(h < i) /\ ~(i < h)
      BY <1>3, <1>4, <2>2, <2>3
    <2>. QED BY <2>1, <2>4
  <1>6. s \in Services
    <2>1. list[i] \in Entries(Services)
      BY <1>2
    <2>. QED BY <1>2, <2>1 DEF Entries
  <1>7. s \in Mentioned(list)
    BY <1>2 DEF Mentioned, Members
  <1>. QED BY <1>1, <1>2, <1>5, <1>6, <1>7 DEF FirstMention

LessThan == {p \in Nat \X Nat : p[1] < p[2]}

\* The order of the numbers is well-founded.
LEMMA LeastNumber ==
  ASSUME NEW S \in SUBSET Nat, S # {}
  PROVE  \E n \in S : \A m \in S : n <= m
  <1>1. OpToRel(<, Nat) = LessThan
    BY DEF OpToRel, LessThan
  <1>2. IsWellFoundedOn(LessThan, Nat)
    BY <1>1, NatLessThanWellFounded
  <1>3. PICK n \in S : \A m \in S : ~(<<m, n>> \in LessThan)
    BY <1>2, WFMin
  <1>4. \A m \in S : ~(m < n)
    BY <1>3 DEF LessThan
  <1>. QED BY <1>3, <1>4

\* A list of --service entries is cleaned to what it mentions, each name once
\* and in the order of first mention.
LEMMA NamesOfFacts ==
  ASSUME NEW list \in Seq(Entries(Services))
  PROVE  /\ NamesOf(list) \in Seq(Services)
         /\ AsMentioned(NamesOf(list), list)
         /\ NamesOf(list) = <<>> <=> Mentioned(list) = {}
  <1> DEFINE names == [i \in DOMAIN list |-> list[i].name]
             N == NamesOf(list)
  <1>1. DOMAIN list = 1..Len(list) /\ Len(list) \in Nat /\ Kept(list) \in SUBSET (1..Len(list))
    <2>1. DOMAIN list = 1..Len(list) /\ Len(list) \in Nat
      OBVIOUS
    <2>. QED BY <2>1 DEF Kept
  <1>2. PICK m \in Nat : \E pos \in [1..m -> Kept(list)] :
            /\ Picked(names, Kept(list)) = [k \in 1..m |-> names[pos[k]]]
            /\ \A k, l \in 1..m : k < l => pos[k] < pos[l]
            /\ \A i \in Kept(list) : \E k \in 1..m : pos[k] = i
    <2>1. InOrder(Picked(names, Kept(list)), names, Kept(list))
      BY <1>1, PickedFacts
    <2>. QED BY <2>1 DEF InOrder
  <1>3. PICK pos \in [1..m -> Kept(list)] :
            /\ Picked(names, Kept(list)) = [k \in 1..m |-> names[pos[k]]]
            /\ \A k, l \in 1..m : k < l => pos[k] < pos[l]
            /\ \A i \in Kept(list) : \E k \in 1..m : pos[k] = i
    BY <1>2
  <1>4. N = [k \in 1..m |-> names[pos[k]]]
    BY <1>3 DEF NamesOf
  <1>5. ASSUME NEW k \in 1..m
        PROVE  /\ pos[k] \in Kept(list) /\ pos[k] \in Nat
               /\ N[k] = list[pos[k]].name
               /\ N[k] \in Services /\ N[k] \in Mentioned(list)
               /\ FirstMention(list, N[k]) = pos[k]
    <2>1. pos[k] \in Kept(list)
      OBVIOUS
    <2>2. pos[k] \in DOMAIN list
      BY <2>1, KeptIsFirst
    <2>3. N[k] = list[pos[k]].name
      BY <1>4, <2>2
    <2>. QED BY <2>1, <2>3, KeptIsFirst
  <1> HIDE DEF N
  <1>6. N \in Seq(Services) /\ DOMAIN N = 1..m /\ Len(N) = m
    <2>1. N \in [1..m -> Services]
      BY <1>4, <1>5
    <2>2. N \in Seq(Services)
      BY <2>1
    <2>. QED BY <2>1, <2>2
  <1>7. ASSUME NEW s \in Mentioned(list)
        PROVE  \E k \in 1..m : N[k] = s
    <2> DEFINE S == {i \in DOMAIN list : list[i].name = s}
    <2>1. S # {} /\ S \in SUBSET Nat /\ s # Blank
      BY <1>1, <1>7 DEF Mentioned, Members
    <2>2. PICK p \in S : \A i \in S : p <= i
      BY <2>1, LeastNumber
    <2>3. ~Repeats(list, p)
      <3>1. ASSUME NEW j \in 1..(p - 1), list[j].name = list[p].name
            PROVE  FALSE
        <4>1. p \in 1..Len(list)
          BY <1>1, <2>2
        <4>2. j \in DOMAIN list
          BY <1>1, <4>1
        <4>3. j \in S
          BY <2>2, <3>1, <4>2
        <4>. QED BY <2>2, <4>1, <4>3
      <3>. QED BY <3>1 DEF Repeats
    <2>4. p \in Kept(list)
      BY <2>1, <2>2, <2>3 DEF Kept
    <2>5. PICK k \in 1..m : pos[k] = p
      BY <1>3, <2>4
    <2>6. N[k] = list[pos[k]].name
      BY <1>5
    <2>. QED BY <2>2, <2>5, <2>6
  <1>8. Members(N) = Mentioned(list)
    BY <1>5, <1>6, <1>7 DEF Members
  <1>9. \A i, j \in DOMAIN N : i < j => FirstMention(list, N[i]) < FirstMention(list, N[j])
    BY <1>3, <1>5, <1>6
  <1>10. N = <<>> <=> Mentioned(list) = {}
    <2>1. N = <<>> => DOMAIN N = {}
      OBVIOUS
    <2>2. DOMAIN N = {} => N = <<>>
      BY <1>6
    <2>3. DOMAIN N = {} <=> Members(N) = {}
      BY DEF Members
    <2>. QED BY <1>8, <2>1, <2>2, <2>3
  <1>. QED BY <1>6, <1>8, <1>9, <1>10 DEF AsMentioned, N

------------------------------------------------------------------------------
\* What a load asks for, one call per service.
Asked(wanted, listed) ==
    IF NamesOf(wanted) # <<>> THEN NamesOf(wanted) ELSE SortedNames[Listing(Deployed[listed])]

\* Of what was asked for, got has the first services and todo the others.
Divides(asked, got, todo) ==
    /\ Len(asked) = Len(got) + Len(todo)
    /\ \A i \in DOMAIN got : got[i].service = asked[i]
    /\ \A i \in DOMAIN todo : todo[i] = asked[Len(got) + i]

\* A load lists the services only if none is configured and before it asks for
\* any; it never drops one, and ends when none is left.
CompleteInv ==
    /\ load.listing => NamesOf(load.wanted) = <<>> /\ load.got = <<>>
    /\ load.phase = "replied" /\ load.reply.kind = "names" =>
          load.listing /\ load.reply.names = Deployed[load.reply.epoch]
    /\ load.phase = "replied" /\ load.reply.kind = "descriptor" => ~load.listing
    /\ Loading /\ ~load.listing => load.todo # <<>>
    /\ load.phase = "done" => ~load.listing /\ load.todo = <<>>
    /\ (Loading \/ load.phase = "done") /\ ~load.listing =>
          Divides(Asked(load.wanted, load.listed), load.got, load.todo)

LoadInv == ReflectionTypeOK /\ RegularInv /\ CompleteInv

\* The next descriptor is that of the first service left.
LEMMA DividesNext ==
  ASSUME NEW asked \in Seq(Services), NEW got \in Seq(ServiceAt), NEW todo \in Seq(Services),
         todo # <<>>, Divides(asked, got, todo),
         NEW found \in ServiceAt, found.service = Head(todo)
  PROVE  /\ Divides(asked, Append(got, found), Tail(todo))
         /\ Tail(todo) \in Seq(Services)
         /\ Len(todo) = 1 <=> Tail(todo) = <<>>
  <1> DEFINE n == Len(got)
             g == Append(got, found)
             t == Tail(todo)
  <1>1. n \in Nat /\ Len(todo) \in Nat /\ Len(todo) # 0 /\ DOMAIN todo = 1..Len(todo)
        /\ DOMAIN got = 1..n /\ Head(todo) = todo[1]
    OBVIOUS
  <1>2. g \in Seq(ServiceAt) /\ Len(g) = n + 1 /\ DOMAIN g = 1..(n + 1)
        /\ g[n + 1] = found /\ \A i \in 1..n : g[i] = got[i]
    OBVIOUS
  <1>3. t \in Seq(Services) /\ Len(t) = Len(todo) - 1 /\ DOMAIN t = 1..(Len(todo) - 1)
        /\ \A i \in DOMAIN t : t[i] = todo[i + 1]
    OBVIOUS
  <1> HIDE DEF n, g, t
  <1>4. Len(todo) = 1 <=> t = <<>>
    <2>1. t = <<>> <=> Len(t) = 0
      BY <1>3
    <2>. QED BY <1>1, <1>3, <2>1
  <1>5. /\ Len(asked) = n + Len(todo)
        /\ \A i \in 1..n : got[i].service = asked[i]
        /\ \A i \in DOMAIN todo : todo[i] = asked[n + i]
    BY <1>1 DEF Divides, n
  <1>6. Len(asked) = Len(g) + Len(t)
    BY <1>1, <1>2, <1>3, <1>5
  <1>7. ASSUME NEW i \in DOMAIN g
        PROVE  g[i].service = asked[i]
    <2>1. CASE i \in 1..n
      BY <1>2, <1>5, <2>1
    <2>2. CASE i = n + 1
      <3>1. todo[1] = asked[n + 1]
        BY <1>1, <1>5
      <3>. QED BY <1>1, <1>2, <2>2, <3>1
    <2>. QED BY <1>1, <1>2, <2>1, <2>2
  <1>8. ASSUME NEW i \in DOMAIN t
        PROVE  t[i] = asked[Len(g) + i]
    <2>1. i \in Nat /\ i + 1 \in DOMAIN todo
      BY <1>1, <1>3
    <2>2. t[i] = asked[n + (i + 1)]
      BY <1>3, <1>5, <2>1
    <2>3. n + (i + 1) = Len(g) + i
      BY <1>1, <1>2, <2>1
    <2>. QED BY <2>2, <2>3
  <1>9. Divides(asked, g, t)
    BY <1>6, <1>7, <1>8 DEF Divides
  <1>. QED BY <1>3, <1>4, <1>9 DEF g, t

\* Nothing is received yet.
LEMMA DividesFirst ==
  ASSUME NEW asked \in Seq(Services)
  PROVE  Divides(asked, <<>>, asked)
  <1>1. Len(asked) \in Nat /\ DOMAIN asked = 1..Len(asked)
    OBVIOUS
  <1>2. Len(<<>>) = 0 /\ DOMAIN <<>> = {}
    OBVIOUS
  <1>3. \A i \in DOMAIN asked : 0 + i = i
    BY <1>1
  <1>. QED BY <1>1, <1>2, <1>3 DEF Divides

\* The names in a listing are those of a deployment, without the internal ones.
LEMMA ListingFacts ==
  ASSUME NEW e \in Epochs
  PROVE  /\ Deployed[e] \in SUBSET Services
         /\ SortedNames[Listing(Deployed[e])] \in Seq(Services)
  <1>1. Deployed[e] \in SUBSET Services
    BY DeploymentsAssumption DEF Epochs
  <1>. QED BY <1>1, SortAssumption DEF Listing

\* A load that has nothing, in a phase in which nothing is under way.
LEMMA LoadStopped ==
  ASSUME NEW ph \in {"none", "failed"},
         load' = [phase |-> ph, wanted |-> <<>>, listing |-> FALSE, todo |-> <<>>, got |-> <<>>,
                  reply |-> NoReply, since |-> 1, listed |-> 1],
         epoch' \in Epochs, up' \in BOOLEAN, faults' \in 0..MaxFaults, streams' \in Nat
  PROVE  ReflectionTypeOK' /\ CompleteInv'
  <1>2. <<>> \in Seq(Entries(Services)) /\ <<>> \in Seq(Services) /\ <<>> \in Seq(ServiceAt)
    OBVIOUS
  <1>3. ph \in LoadPhases
    BY DEF LoadPhases
  <1>4. ReflectionTypeOK'
    BY <1>2, <1>3, EmptyLoads DEF ReflectionTypeOK
  <1>5. load'.phase = ph /\ load'.listing = FALSE
    OBVIOUS
  <1>. QED BY <1>4, <1>5 DEF CompleteInv, Loading

\* The type of a load, field by field.
LoadTyped(l) ==
    /\ DOMAIN l = DOMAIN NoLoad
    /\ l.phase \in LoadPhases /\ l.wanted \in Seq(Entries(Services)) /\ l.listing \in BOOLEAN
    /\ l.todo \in Seq(Services) /\ l.got \in Seq(ServiceAt) /\ l.reply \in Reply
    /\ l.since \in Epochs /\ l.listed \in Epochs
    /\ l = [phase |-> l.phase, wanted |-> l.wanted, listing |-> l.listing, todo |-> l.todo,
            got |-> l.got, reply |-> l.reply, since |-> l.since, listed |-> l.listed]

LEMMA LoadTypes ==
  /\ ReflectionTypeOK <=>
        /\ epoch \in Epochs /\ up \in BOOLEAN /\ faults \in 0..MaxFaults /\ streams \in Nat
        /\ LoadTyped(load)
  /\ ReflectionTypeOK' <=>
        /\ epoch' \in Epochs /\ up' \in BOOLEAN /\ faults' \in 0..MaxFaults /\ streams' \in Nat
        /\ LoadTyped(load')
  BY DEF ReflectionTypeOK, LoadTyped, NoLoad

\* Every step keeps the types, and what is asked for divided into what has been
\* received and what is left.
LEMMA LoadInvStep ==
  ASSUME LoadInv, RStep \/ UNCHANGED reflectionVars
  PROVE  LoadInv'
  <1>0. /\ epoch \in Epochs /\ up \in BOOLEAN /\ faults \in 0..MaxFaults /\ streams \in Nat
        /\ LoadTyped(load)
    BY LoadTypes DEF LoadInv
  <1>1. RegularInv'
    BY RegularStep DEF LoadInv
  <1>. SUFFICES ReflectionTypeOK' /\ CompleteInv'
    BY <1>1 DEF LoadInv
  <1>2. ASSUME NEW wanted \in Filters, BeginLoad(wanted)
        PROVE  ReflectionTypeOK' /\ CompleteInv'
    <2> DEFINE names == NamesOf(wanted)
    <2>1. wanted \in Seq(Entries(Services))
      BY FiltersAssumption
    <2>2. names \in Seq(Services)
      BY <2>1, NamesOfFacts
    <2>3. /\ load' = [phase |-> "opening", wanted |-> wanted, listing |-> (names = <<>>),
                      todo |-> names, got |-> <<>>, reply |-> NoReply,
                      since |-> epoch, listed |-> epoch]
          /\ UNCHANGED <<epoch, up, faults, streams>>
      BY <1>2 DEF BeginLoad, NoLoad
    <2> DEFINE empty == names = <<>>
    <2>4. empty \in BOOLEAN /\ (empty <=> names = <<>>)
      OBVIOUS
    <2> HIDE DEF names, empty
    <2>5. /\ load' = [phase |-> "opening", wanted |-> wanted, listing |-> empty,
                      todo |-> names, got |-> <<>>, reply |-> NoReply,
                      since |-> epoch, listed |-> epoch]
      BY <2>3 DEF empty
    <2>6. <<>> \in Seq(ServiceAt) /\ "opening" \in LoadPhases
      BY DEF LoadPhases
    <2>7. LoadTyped(load')
      BY <1>0, <2>1, <2>2, <2>4, <2>5, <2>6, EmptyLoads DEF LoadTyped, NoLoad
    <2>8. ReflectionTypeOK'
      BY <1>0, <2>3, <2>7, LoadTypes
    <2>9. /\ load'.phase = "opening" /\ load'.wanted = wanted /\ load'.listing = empty
          /\ load'.todo = names /\ load'.got = <<>>
      BY <2>5
    <2>10. ~empty => Divides(Asked(wanted, load'.listed), <<>>, names)
      BY <2>2, <2>4, DividesFirst DEF Asked, names
    <2>11. CompleteInv'
      BY <2>4, <2>9, <2>10 DEF CompleteInv, Loading, names
    <2>. QED BY <2>8, <2>11
  <1>3. ASSUME NEW calls, OpenStream(calls)
        PROVE  ReflectionTypeOK' /\ CompleteInv'
    <2>1. /\ load' = [load EXCEPT !.phase = "sent"] /\ load.phase = "opening"
          /\ UNCHANGED <<epoch, up, faults>> /\ streams' \in Nat
      BY <1>0, <1>3 DEF OpenStream
    <2>2. "sent" \in LoadPhases
      BY DEF LoadPhases
    <2>3. LoadTyped(load') /\ load'.phase = "sent" /\ load'.wanted = load.wanted
          /\ load'.listing = load.listing /\ load'.todo = load.todo /\ load'.got = load.got
          /\ load'.listed = load.listed
      BY <1>0, <2>1, <2>2 DEF LoadTyped, NoLoad
    <2>4. ReflectionTypeOK'
      BY <1>0, <2>1, <2>3, LoadTypes
    <2>5. CompleteInv'
      BY <2>1, <2>3 DEF LoadInv, CompleteInv, Loading
    <2>. QED BY <2>4, <2>5
  <1>4. CASE OpenFails \/ ReceiveError \/ CancelLoad
    <2>1. load' = [NoLoad EXCEPT !.phase = "failed"] /\ UNCHANGED <<epoch, up, faults>>
          /\ streams' \in Nat
      BY <1>0, <1>4 DEF OpenFails, ReceiveError, CancelLoad, FailLoad
    <2>2. load' = [phase |-> "failed", wanted |-> <<>>, listing |-> FALSE, todo |-> <<>>,
                   got |-> <<>>, reply |-> NoReply, since |-> 1, listed |-> 1]
      BY <2>1 DEF NoLoad
    <2>. QED BY <1>0, <2>1, <2>2, LoadStopped
  <1>5. CASE EndLoad
    <2>1. load' = NoLoad /\ UNCHANGED <<epoch, up, faults, streams>>
      BY <1>5 DEF EndLoad
    <2>2. load' = [phase |-> "none", wanted |-> <<>>, listing |-> FALSE, todo |-> <<>>,
                   got |-> <<>>, reply |-> NoReply, since |-> 1, listed |-> 1]
      BY <2>1 DEF NoLoad
    <2>. QED BY <1>0, <2>1, <2>2, LoadStopped
  <1>6. CASE Answer
    <2> DEFINE reply == [kind |-> IF load.listing THEN "names"
                                  ELSE IF Head(load.todo) \in Deployed[epoch]
                                       THEN "descriptor" ELSE "error",
                         names |-> IF load.listing THEN Deployed[epoch] ELSE {},
                         epoch |-> epoch]
    <2>1. /\ load' = [load EXCEPT !.phase = "replied", !.reply = reply] /\ load.phase = "sent"
          /\ UNCHANGED <<epoch, up, faults, streams>>
      BY <1>6 DEF Answer
    <2>2. reply \in Reply
      BY <1>0, ListingFacts DEF Reply
    <2>3. /\ reply.kind = "names" => load.listing /\ reply.names = Deployed[reply.epoch]
          /\ reply.kind = "descriptor" => ~load.listing
      OBVIOUS
    <2> HIDE DEF reply
    <2>4. "replied" \in LoadPhases
      BY DEF LoadPhases
    <2>5. LoadTyped(load') /\ load'.phase = "replied" /\ load'.wanted = load.wanted
          /\ load'.listing = load.listing /\ load'.todo = load.todo /\ load'.got = load.got
          /\ load'.listed = load.listed /\ load'.reply = reply
      BY <1>0, <2>1, <2>2, <2>4 DEF LoadTyped, NoLoad
    <2>6. ReflectionTypeOK'
      BY <1>0, <2>1, <2>5, LoadTypes
    <2>7. CompleteInv'
      BY <2>1, <2>3, <2>5 DEF LoadInv, CompleteInv, Loading
    <2>. QED BY <2>6, <2>7
  <1>7. CASE AnswerBadly
    <2> DEFINE reply == [load.reply EXCEPT !.kind = "error"]
    <2>1. /\ load' = [load EXCEPT !.phase = "replied", !.reply = reply] /\ load.phase = "sent"
          /\ UNCHANGED <<epoch, up, streams>> /\ faults' \in 0..MaxFaults
      <3>1. faults' \in 0..MaxFaults
        BY <1>0, <1>7, LimitAssumption DEF AnswerBadly
      <3>. QED BY <1>7, <3>1 DEF AnswerBadly
    <2>2. reply \in Reply /\ reply.kind = "error"
      BY <1>0 DEF LoadTyped, Reply
    <2> HIDE DEF reply
    <2>3. "replied" \in LoadPhases
      BY DEF LoadPhases
    <2>4. LoadTyped(load') /\ load'.phase = "replied" /\ load'.wanted = load.wanted
          /\ load'.listing = load.listing /\ load'.todo = load.todo /\ load'.got = load.got
          /\ load'.listed = load.listed /\ load'.reply = reply
      BY <1>0, <2>1, <2>2, <2>3 DEF LoadTyped, NoLoad
    <2>5. ReflectionTypeOK'
      BY <1>0, <2>1, <2>4, LoadTypes
    <2>6. CompleteInv'
      BY <2>1, <2>2, <2>4 DEF LoadInv, CompleteInv, Loading
    <2>. QED BY <2>5, <2>6
  <1>8. CASE ReceiveNames
    <2> DEFINE e == load.reply.epoch
               names == SortedNames[Listing(load.reply.names)]
               ph == IF names = <<>> THEN "done" ELSE "opening"
    <2>1. /\ load' = [load EXCEPT !.phase = ph, !.listing = FALSE, !.todo = names,
                                  !.reply = NoReply, !.listed = e]
          /\ UNCHANGED <<epoch, up, faults, streams>>
      BY <1>8 DEF ReceiveNames
    <2>2. /\ load.listing /\ load.reply.names = Deployed[e]
          /\ NamesOf(load.wanted) = <<>> /\ load.got = <<>>
      BY <1>8 DEF ReceiveNames, LoadInv, CompleteInv
    <2>3. e \in Epochs
      BY <1>0 DEF LoadTyped, Reply
    <2>4. names \in Seq(Services)
      BY <2>2, <2>3, ListingFacts
    <2>5. names = Asked(load.wanted, e)
      BY <2>2 DEF Asked
    <2>6. ph \in LoadPhases /\ ph \in {"done", "opening"} /\ (ph = "done" <=> names = <<>>)
      BY DEF LoadPhases
    <2> HIDE DEF e, names, ph
    <2>7. LoadTyped(load') /\ load'.phase = ph /\ load'.wanted = load.wanted
          /\ load'.listing = FALSE /\ load'.todo = names /\ load'.got = <<>>
          /\ load'.listed = e
      BY <1>0, <2>1, <2>2, <2>3, <2>4, <2>6, EmptyLoads DEF LoadTyped, NoLoad
    <2>8. ReflectionTypeOK'
      BY <1>0, <2>1, <2>7, LoadTypes
    <2>9. Divides(Asked(load.wanted, e), <<>>, names)
      BY <2>4, <2>5, DividesFirst
    <2>10. CompleteInv'
      BY <2>6, <2>7, <2>9 DEF CompleteInv, Loading
    <2>. QED BY <2>8, <2>10
  <1>9. CASE ReceiveDescriptor
    <2> DEFINE found == [service |-> Head(load.todo), epoch |-> load.reply.epoch]
               todo == Tail(load.todo)
               got == Append(load.got, found)
               ph == IF Len(load.todo) = 1 THEN "done" ELSE "opening"
    <2>1. /\ load' = [load EXCEPT !.phase = ph, !.todo = todo, !.reply = NoReply, !.got = got]
          /\ UNCHANGED <<epoch, up, faults, streams>>
          /\ load.phase = "replied" /\ load.reply.kind = "descriptor"
      BY <1>9 DEF ReceiveDescriptor
    <2>2. Loading /\ ~load.listing
      BY <2>1 DEF Loading, LoadInv, CompleteInv
    <2>3. load.todo # <<>> /\ Divides(Asked(load.wanted, load.listed), load.got, load.todo)
      BY <2>2 DEF LoadInv, CompleteInv
    <2>4. found \in ServiceAt /\ found.service = Head(load.todo)
      <3>1. Head(load.todo) \in Services
        BY <1>0, <2>3 DEF LoadTyped
      <3>. QED BY <1>0, <3>1 DEF LoadTyped, Reply, ServiceAt
    <2>5. Asked(load.wanted, load.listed) \in Seq(Services)
      BY <1>0, ListingFacts, NamesOfFacts DEF Asked, LoadTyped
    <2>6. /\ Divides(Asked(load.wanted, load.listed), got, todo)
          /\ todo \in Seq(Services)
          /\ Len(load.todo) = 1 <=> todo = <<>>
      <3> HIDE DEF found
      <3>. QED BY <1>0, <2>3, <2>4, <2>5, DividesNext DEF LoadTyped
    <2>7. got \in Seq(ServiceAt)
      BY <1>0, <2>4 DEF LoadTyped
    <2>8. ph \in LoadPhases /\ ph \in {"done", "opening"} /\ (ph = "done" <=> todo = <<>>)
      BY <2>6 DEF LoadPhases
    <2> HIDE DEF found, todo, got, ph
    <2>9. LoadTyped(load') /\ load'.phase = ph /\ load'.wanted = load.wanted
          /\ load'.listing = load.listing /\ load'.todo = todo /\ load'.got = got
          /\ load'.listed = load.listed
      BY <1>0, <2>1, <2>6, <2>7, <2>8, EmptyLoads DEF LoadTyped, NoLoad
    <2>10. ReflectionTypeOK'
      BY <1>0, <2>1, <2>9, LoadTypes
    <2>11. CompleteInv'
      BY <2>2, <2>6, <2>8, <2>9 DEF CompleteInv, Loading
    <2>. QED BY <2>10, <2>11
  <1>10. CASE Crash
    <2>1. /\ epoch' = epoch /\ up' \in BOOLEAN /\ streams' \in Nat /\ faults' \in 0..MaxFaults
      <3>1. faults < MaxFaults /\ faults' = faults + 1 /\ up' = FALSE /\ streams' = 0
            /\ epoch' = epoch
        BY <1>10 DEF Crash
      <3>2. faults' \in 0..MaxFaults
        BY <1>0, <3>1, LimitAssumption
      <3>. QED BY <3>1, <3>2
    <2>2. CASE load' = load
      BY <1>0, <2>1, <2>2, LoadTypes DEF LoadInv, CompleteInv, Loading
    <2>3. CASE load.phase \in {"sent", "replied"} /\ load' = [load EXCEPT !.phase = "broken"]
      <3>1. "broken" \in LoadPhases
        BY DEF LoadPhases
      <3>2. LoadTyped(load') /\ load'.phase = "broken" /\ load'.wanted = load.wanted
            /\ load'.listing = load.listing /\ load'.todo = load.todo /\ load'.got = load.got
            /\ load'.listed = load.listed
        BY <1>0, <2>3, <3>1 DEF LoadTyped, NoLoad
      <3>3. CompleteInv'
        BY <2>3, <3>2 DEF LoadInv, CompleteInv, Loading
      <3>. QED BY <1>0, <2>1, <3>2, <3>3, LoadTypes
    <2>. QED BY <1>10, <2>2, <2>3 DEF Crash
  <1>11. CASE Restart
    <2>1. load' = load /\ epoch' \in Epochs /\ up' \in BOOLEAN /\ UNCHANGED <<faults, streams>>
      BY <1>11 DEF Restart
    <2>2. ReflectionTypeOK'
      BY <1>0, <2>1, LoadTypes
    <2>. QED BY <2>1, <2>2 DEF LoadInv, CompleteInv, Loading
  <1>12. CASE UNCHANGED reflectionVars
    BY <1>0, <1>12, LoadTypes DEF reflectionVars, LoadInv, CompleteInv, Loading
  <1>. QED
    BY <1>2, <1>3, <1>4, <1>5, <1>6, <1>7, <1>8, <1>9, <1>10, <1>11, <1>12 DEF RStep, RRun

LEMMA LoadInvInit == RInit => LoadInv
  <1>1. ASSUME RInit
        PROVE  ReflectionTypeOK /\ CompleteInv
    <2>1. load = [phase |-> "none", wanted |-> <<>>, listing |-> FALSE, todo |-> <<>>,
                  got |-> <<>>, reply |-> NoReply, since |-> 1, listed |-> 1]
      BY <1>1 DEF RInit, NoLoad
    <2>2. <<>> \in Seq(Entries(Services)) /\ <<>> \in Seq(Services) /\ <<>> \in Seq(ServiceAt)
      OBVIOUS
    <2>3. "none" \in LoadPhases /\ 0 \in 0..MaxFaults
      BY LimitAssumption DEF LoadPhases
    <2>4. ReflectionTypeOK
      BY <1>1, <2>1, <2>2, <2>3, EmptyLoads DEF RInit, ReflectionTypeOK
    <2>5. load.phase = "none" /\ load.listing = FALSE
      BY <2>1
    <2>. QED BY <2>4, <2>5 DEF CompleteInv, Loading
  <1>. QED BY <1>1, RegularInit DEF LoadInv

\* Nothing is left when a load is done.
LEMMA DoneIsComplete == LoadInv => LoadIsComplete
  <1> DEFINE names == [i \in DOMAIN load.got |-> load.got[i].service]
             asked == Asked(load.wanted, load.listed)
  <1>1. SUFFICES ASSUME LoadInv, load.phase = "done"
                 PROVE  IF Mentioned(load.wanted) # {} THEN AsMentioned(names, load.wanted)
                        ELSE names = SortedNames[Listing(Deployed[load.listed])]
    BY DEF LoadIsComplete
  <1>2. load.wanted \in Seq(Entries(Services)) /\ load.got \in Seq(ServiceAt)
        /\ load.listed \in Epochs
    BY <1>1, LoadTypes DEF LoadInv, LoadTyped
  <1>3. asked \in Seq(Services)
    BY <1>2, ListingFacts, NamesOfFacts DEF Asked
  <1>4. load.todo = <<>> /\ Divides(asked, load.got, load.todo)
    BY <1>1 DEF LoadInv, CompleteInv
  <1> HIDE DEF asked
  <1>5. Len(asked) = Len(load.got) /\ \A i \in DOMAIN load.got : load.got[i].service = asked[i]
    <2>1. Len(load.todo) = 0 /\ Len(load.got) \in Nat
      BY <1>2, <1>4
    <2>. QED BY <1>4, <2>1 DEF Divides
  <1>6. DOMAIN asked = DOMAIN load.got /\ asked = [i \in DOMAIN asked |-> asked[i]]
    BY <1>2, <1>3, <1>5
  <1>7. names = asked
    BY <1>5, <1>6
  <1>. QED BY <1>2, <1>7, NamesOfFacts DEF Asked, asked

------------------------------------------------------------------------------
\* s holds what the file has of version v, from the start.
Part(s, v) ==
    /\ s \in Seq(Chunk)
    /\ Len(s) <= 2 * Len(Versions[v])
    /\ \A k \in 1..Len(s) : s[k] = Chunks(Versions[v])[k]

\* Every chunk of s comes from one of the versions.
From(s, first, last) ==
    \A k \in DOMAIN s : \E v \in first..last : s[k].record \in Members(Versions[v])

\* A reader has nothing but chunks of versions that were under the path since it
\* began; as long as nobody writes to the file it has open, that is a version,
\* and what it has read is the beginning of that version.
ReaderInv ==
    /\ read.phase \in {"reading", "done"} => read.opened <= revision
    /\ read.phase = "reading" =>
          /\ From(read.held, read.opened, revision)
          /\ From(read.raw, read.opened, revision)
          /\ ~read.torn =>
                /\ Part(read.raw, read.opened)
                /\ read.linked => revision = read.opened /\ Written
                /\ ~read.linked => read.held = Chunks(Versions[read.opened])

FileInv == FileTypeOK /\ Part(disk, revision) /\ ReaderInv /\ FileLoadIsFaithful

\* A file of n records is written in 2n chunks, and read back as what it was.
LEMMA ChunksFacts ==
  ASSUME NEW v \in 1..Len(Versions)
  PROVE  /\ Versions[v] \in Seq(Records) /\ Len(Versions[v]) \in Nat
         /\ Chunks(Versions[v]) \in Seq(Chunk)
         /\ Len(Chunks(Versions[v])) = 2 * Len(Versions[v])
         /\ \A k \in 1..(2 * Len(Versions[v])) :
               Chunks(Versions[v])[k].record \in Members(Versions[v])
         /\ RecordsIn(Chunks(Versions[v])) = Versions[v]
  <1> DEFINE list == Versions[v]
             n == Len(list)
             c == Chunks(list)
  <1>1. list \in Seq(Records) /\ n \in Nat /\ DOMAIN list = 1..n
    BY RecordsAssumption
  <1>2. c = [k \in 1..(2 * n) |->
                [record |-> list[(k + 1) \div 2], half |-> IF k % 2 = 1 THEN 1 ELSE 2]]
    BY DEF Chunks
  <1> HIDE DEF c, n, list
  <1>3. ASSUME NEW k \in 1..(2 * n)
        PROVE  (k + 1) \div 2 \in 1..n
    BY <1>1
  <1>4. ASSUME NEW k \in 1..(2 * n)
        PROVE  c[k] \in Chunk /\ c[k].record \in Members(list)
    <2>1. list[(k + 1) \div 2] \in Records /\ list[(k + 1) \div 2] \in Members(list)
      BY <1>1, <1>3 DEF Members, n
    <2>2. c[k] = [record |-> list[(k + 1) \div 2], half |-> IF k % 2 = 1 THEN 1 ELSE 2]
      BY <1>2
    <2>. QED BY <2>1, <2>2 DEF Chunk
  <1>5. c \in Seq(Chunk) /\ Len(c) = 2 * n /\ DOMAIN c = 1..(2 * n)
    <2>1. 2 * n \in Nat
      BY <1>1
    <2>2. c \in [1..(2 * n) -> Chunk]
      BY <1>2, <1>4
    <2>3. c \in Seq(Chunk)
      BY <2>1, <2>2
    <2>. QED BY <2>1, <2>2, <2>3
  <1>6. RecordsIn(c) = list
    <2>1. Len(c) \div 2 = n
      BY <1>1, <1>5
    <2>2. RecordsIn(c) = [k \in 1..n |-> c[2 * k].record]
      BY <2>1 DEF RecordsIn
    <2>3. ASSUME NEW k \in 1..n
          PROVE  c[2 * k].record = list[k]
      <3>1. 2 * k \in 1..(2 * n) /\ (2 * k + 1) \div 2 = k
        BY <1>1
      <3>. QED BY <1>2, <3>1
    <2>4. list = [k \in 1..n |-> list[k]]
      BY <1>1 DEF n
    <2>. QED BY <2>2, <2>3, <2>4
  <1>. QED BY <1>1, <1>4, <1>5, <1>6 DEF c, n, list

\* What is written in full, and what is not, is the version or its beginning.
LEMMA PartFacts ==
  ASSUME NEW v \in 1..Len(Versions), NEW s, Part(s, v)
  PROVE  /\ s = SubSeq(Chunks(Versions[v]), 1, Len(s))
         /\ \A k \in 1..Len(s) : s[k].record \in Members(Versions[v])
         /\ Len(s) \in Nat /\ DOMAIN s = 1..Len(s)
         /\ Len(s) >= 2 * Len(Versions[v]) => s = Chunks(Versions[v])
         /\ s # Chunks(Versions[v]) => Len(s) + 1 \in 1..(2 * Len(Versions[v]))
  <1> DEFINE c == Chunks(Versions[v])
             n == Len(s)
             m == 2 * Len(Versions[v])
  <1>1. /\ c \in Seq(Chunk) /\ Len(c) = m /\ m \in Nat /\ DOMAIN c = 1..m
        /\ \A k \in 1..m : c[k].record \in Members(Versions[v])
    BY ChunksFacts
  <1>2. s \in Seq(Chunk) /\ n <= m /\ n \in Nat /\ DOMAIN s = 1..n /\ \A k \in 1..n : s[k] = c[k]
    BY DEF Part
  <1> HIDE DEF c, n, m
  <1>3. s = SubSeq(c, 1, n)
    <2>1. SubSeq(c, 1, n) \in Seq(Chunk) /\ Len(SubSeq(c, 1, n)) = n
          /\ \A k \in 1..n : SubSeq(c, 1, n)[k] = c[k]
      BY <1>1, <1>2
    <2>2. Len(s) = n
      BY DEF n
    <2>. QED BY <1>2, <2>1, <2>2
  <1>4. n >= m => s = c
    <2>1. Len(s) = n
      BY DEF n
    <2>. QED BY <1>1, <1>2, <2>1
  <1>5. \A k \in 1..n : s[k].record \in Members(Versions[v])
    BY <1>1, <1>2
  <1>6. s # c => n + 1 \in 1..m
    BY <1>1, <1>2, <1>4
  <1>. QED BY <1>1, <1>2, <1>3, <1>4, <1>5, <1>6 DEF c, n, m

\* One more chunk of the same version.
LEMMA PartGrows ==
  ASSUME NEW v \in 1..Len(Versions), NEW s, Part(s, v), s # Chunks(Versions[v])
  PROVE  Part(Append(s, Chunks(Versions[v])[Len(s) + 1]), v)
  <1> DEFINE c == Chunks(Versions[v])
             n == Len(s)
             m == 2 * Len(Versions[v])
             t == Append(s, c[n + 1])
  <1>1. c \in Seq(Chunk) /\ Len(c) = m /\ m \in Nat
    BY ChunksFacts
  <1>2. s \in Seq(Chunk) /\ n \in Nat /\ \A k \in 1..n : s[k] = c[k]
    BY DEF Part
  <1>3. n + 1 \in 1..m
    BY PartFacts
  <1>4. c[n + 1] \in Chunk
    <2> HIDE DEF c, m, n
    <2>. QED BY <1>1, <1>3
  <1>5. t \in Seq(Chunk) /\ Len(t) = n + 1 /\ t[n + 1] = c[n + 1] /\ \A k \in 1..n : t[k] = s[k]
    <2> HIDE DEF c
    <2>. QED BY <1>2, <1>4
  <1> HIDE DEF c, n, m, t
  <1>6. \A k \in 1..Len(t) : t[k] = c[k]
    BY <1>2, <1>5
  <1>7. Len(t) <= m
    BY <1>1, <1>3, <1>5
  <1>8. Part(t, v)
    BY <1>5, <1>6, <1>7 DEF Part, c, m
  <1>. QED BY <1>8 DEF t, c, n

\* A full version, and none of it.
LEMMA PartEnds ==
  ASSUME NEW v \in 1..Len(Versions)
  PROVE  Part(Chunks(Versions[v]), v) /\ Part(<<>>, v)
  <1>1. <<>> \in Seq(Chunk) /\ Len(<<>>) = 0
    OBVIOUS
  <1>. QED BY <1>1, ChunksFacts DEF Part

LEMMA FromFacts ==
  ASSUME NEW s, NEW first \in Nat, NEW last \in Nat, From(s, first, last)
  PROVE  From(s, first, last + 1)
  <1>1. first..last \subseteq first..(last + 1)
    OBVIOUS
  <1>. QED BY <1>1 DEF From

LEMMA FromPart ==
  ASSUME NEW v \in 1..Len(Versions), NEW s, Part(s, v), NEW first \in Nat, NEW last \in Nat,
         v \in first..last
  PROVE  From(s, first, last)
  BY PartFacts DEF From

\* The type of a read, field by field.
ReadTyped(r) ==
    /\ DOMAIN r = DOMAIN Idle
    /\ r.phase \in {"none", "reading", "done", "failed"}
    /\ r.wanted \in Seq(Entries(Services)) /\ r.linked \in BOOLEAN
    /\ r.held \in Seq(Chunk) /\ r.raw \in Seq(Chunk)
    /\ r.got \in Seq([service : Services, record : Records])
    /\ r.opened \in 1..Len(Versions) /\ r.torn \in BOOLEAN
    /\ r = [phase |-> r.phase, wanted |-> r.wanted, linked |-> r.linked, held |-> r.held,
            raw |-> r.raw, got |-> r.got, opened |-> r.opened, torn |-> r.torn]

LEMMA ReadTypes ==
  /\ FileTypeOK <=>
        /\ revision \in 1..Len(Versions)
        /\ disk = SubSeq(Chunks(Versions[revision]), 1, Len(disk))
        /\ exists \in BOOLEAN /\ ReadTyped(read)
  /\ FileTypeOK' <=>
        /\ revision' \in 1..Len(Versions)
        /\ disk' = SubSeq(Chunks(Versions[revision']), 1, Len(disk'))
        /\ exists' \in BOOLEAN /\ ReadTyped(read')
  BY DEF FileTypeOK, ReadTyped, Idle

\* A reader that has nothing.
LEMMA ReaderIdle ==
  ASSUME NEW ph \in {"none", "failed"},
         read' = [phase |-> ph, wanted |-> <<>>, linked |-> TRUE, held |-> <<>>, raw |-> <<>>,
                  got |-> <<>>, opened |-> 1, torn |-> FALSE],
         1 \in 1..Len(Versions)
  PROVE  ReadTyped(read') /\ ReaderInv' /\ FileLoadIsFaithful'
  <1>1. <<>> \in Seq(Entries(Services)) /\ <<>> \in Seq(Chunk)
        /\ <<>> \in Seq([service : Services, record : Records])
    OBVIOUS
  <1>2. ReadTyped(read')
    BY <1>1 DEF ReadTyped, Idle
  <1>3. read'.phase = ph
    OBVIOUS
  <1>. QED BY <1>2, <1>3 DEF ReaderInv, FileLoadIsFaithful

\* What a successful load returns, of any list of records.
LEMMA LoadedFacts ==
  ASSUME NEW list \in Seq(Records), NEW wanted \in Seq(Entries(Services)),
         Loads(list, NamesOf(wanted))
  PROVE  LET got == Loaded(list, NamesOf(wanted))
             names == [i \in DOMAIN got |-> got[i].service]
         IN  /\ got \in Seq([service : Services, record : Records])
             /\ \A i \in DOMAIN got : got[i].record \in Members(list)
             /\ IF Mentioned(wanted) # {} THEN AsMentioned(names, wanted)
                ELSE names # <<>> /\ names = SortedNames[Listing(Members(names))]
  <1> DEFINE filter == NamesOf(wanted)
             chosen == Chosen(list, filter)
             got == Loaded(list, filter)
             names == [i \in DOMAIN got |-> got[i].service]
  <1>1. /\ filter \in Seq(Services) /\ AsMentioned(filter, wanted)
        /\ filter = <<>> <=> Mentioned(wanted) = {}
    BY NamesOfFacts
  <1>2. Members(list) \subseteq Records
    BY DEF Members
  <1>3. Listing(Declared(list)) \in SUBSET Services
    BY <1>2, RecordsAssumption DEF Listing, Declared
  <1>4. chosen \in Seq(Services)
    BY <1>1, <1>3, SortAssumption DEF Chosen
  <1>5. chosen # <<>> /\ Members(chosen) \subseteq Declared(list)
    BY DEF Loads
  <1>6. got = [i \in DOMAIN chosen |-> Find(list, chosen[i])]
    BY DEF Loaded
  <1>7. ~(filter = <<>>) => chosen = filter
    BY DEF Chosen
  <1>8. filter = <<>> => chosen = SortedNames[Listing(Declared(list))]
    BY DEF Chosen
  <1> HIDE DEF filter, chosen, got
  <1>9. ASSUME NEW i \in DOMAIN chosen
        PROVE  /\ got[i].service = chosen[i] /\ chosen[i] \in Services
               /\ got[i].record \in Members(list)
               /\ got[i] \in [service : Services, record : Records]
    <2>1. chosen[i] \in Declared(list) /\ chosen[i] \in Services
      BY <1>4, <1>5 DEF Members
    <2>2. \E r \in Members(list) : chosen[i] \in ServicesOf[r]
      BY <2>1 DEF Declared
    <2>3. got[i] = [service |-> chosen[i],
                    record |-> CHOOSE r \in Members(list) : chosen[i] \in ServicesOf[r]]
      BY <1>6 DEF Find
    <2>. QED BY <1>2, <2>1, <2>2, <2>3
  <1>10. got \in Seq([service : Services, record : Records])
    <2> DEFINE n == Len(chosen)
               R == [service : Services, record : Records]
    <2>1. n \in Nat /\ DOMAIN chosen = 1..n
      BY <1>4
    <2>2. \A i \in DOMAIN chosen : got[i] \in R
      BY <1>9
    <2> HIDE DEF n, R
    <2>3. got \in [1..n -> R]
      BY <1>6, <2>1, <2>2
    <2>4. got \in Seq(R)
      BY <2>1, <2>3
    <2>. QED BY <2>4 DEF R
  <1>11. DOMAIN got = DOMAIN chosen
    BY <1>6
  <1>12. names = chosen
    <2>1. names = [i \in DOMAIN chosen |-> chosen[i]]
      BY <1>9, <1>11
    <2>. QED BY <1>4, <2>1
  <1> HIDE DEF names
  <1>13. CASE Mentioned(wanted) # {}
    BY <1>1, <1>7, <1>9, <1>10, <1>11, <1>12, <1>13 DEF got, names, filter
  <1>14. CASE Mentioned(wanted) = {}
    <2>1. chosen = SortedNames[Listing(Declared(list))]
      BY <1>1, <1>8, <1>14
    <2>2. Members(chosen) = Listing(Declared(list))
      BY <1>3, <2>1, SortAssumption
    <2>3. Listing(Listing(Declared(list))) = Listing(Declared(list))
      BY DEF Listing
    <2>4. chosen # <<>> /\ chosen = SortedNames[Listing(Members(chosen))]
      BY <1>5, <2>1, <2>2, <2>3
    <2>. QED BY <1>9, <1>10, <1>11, <1>12, <1>14, <2>4 DEF got, names, filter
  <1>. QED BY <1>13, <1>14

\* Every step of a writer or a reader keeps a reader faithful to what the file
\* has been.
LEMMA FileStep ==
  ASSUME FileInv, NEW list \in Filters, FNext(list) \/ UNCHANGED fileVars
  PROVE  FileInv'
  <1>0. /\ revision \in 1..Len(Versions) /\ exists \in BOOLEAN /\ ReadTyped(read)
        /\ Part(disk, revision) /\ ReaderInv /\ FileLoadIsFaithful
    BY ReadTypes DEF FileInv
  <1>1. Len(Versions) \in Nat /\ revision \in Nat /\ 1 <= revision /\ 1 \in 1..Len(Versions)
    <2>1. Len(Versions) \in Nat
      BY RecordsAssumption
    <2>. QED BY <1>0, <2>1
  <1>2. ASSUME revision' \in 1..Len(Versions), Part(disk', revision'), exists' \in BOOLEAN,
               ReadTyped(read'), ReaderInv', FileLoadIsFaithful'
        PROVE  FileInv'
    <2>1. disk' = SubSeq(Chunks(Versions[revision']), 1, Len(disk'))
      BY <1>2, PartFacts
    <2>. QED BY <1>2, <2>1, ReadTypes DEF FileInv
  <1>3. read.opened \in 1..Len(Versions) /\ read.opened \in Nat
    BY <1>0, <1>1 DEF ReadTyped
  <1>4. Written <=> disk = Chunks(Versions[revision])
    BY DEF Written
  \* The writer.
  <1>5. ASSUME revision' \in 1..Len(Versions), revision' \in {revision, revision + 1},
               read' = read, read.phase # "reading"
        PROVE  ReadTyped(read') /\ ReaderInv' /\ FileLoadIsFaithful'
    <2>1. revision' \in Nat /\ revision <= revision'
      BY <1>1, <1>5
    <2>2. read.phase = "done" =>
             /\ read.opened <= revision
             /\ OfOneVersion(read.raw) => \A i \in DOMAIN read.got : \E v \in read.opened..revision :
                   read.got[i].record \in Members(Versions[v])
      BY <1>0, <1>5 DEF ReaderInv, FileLoadIsFaithful
    <2>3. read.opened..revision \subseteq read.opened..revision'
      BY <1>1, <1>3, <2>1
    <2>4. ReaderInv'
      BY <1>1, <1>3, <1>5, <2>1, <2>2 DEF ReaderInv
    <2>5. /\ \A v, filter : IsVersion(v, filter)' <=> IsVersion(v, filter)
          /\ OfOneVersion(read.raw)' <=> OfOneVersion(read.raw)
      BY <1>5 DEF IsVersion, OfOneVersion
    <2>6. FileLoadIsFaithful'
      BY <1>0, <1>5, <2>2, <2>3, <2>5 DEF FileLoadIsFaithful
    <2>. QED BY <1>0, <1>5, <2>4, <2>6
  <1>6. ASSUME revision' \in 1..Len(Versions), revision' \in {revision, revision + 1},
               NEW linked \in BOOLEAN, NEW held \in Seq(Chunk), NEW torn \in BOOLEAN,
               read' = [read EXCEPT !.linked = linked, !.held = held, !.torn = torn],
               read.phase = "reading",
               From(held, read.opened, revision),
               ~torn => /\ ~read.torn /\ ~linked /\ held = Chunks(Versions[read.opened])
        PROVE  ReadTyped(read') /\ ReaderInv' /\ FileLoadIsFaithful'
    <2>1. /\ ReadTyped(read') /\ read'.phase = "reading" /\ read'.opened = read.opened
          /\ read'.raw = read.raw /\ read'.held = held /\ read'.linked = linked
          /\ read'.torn = torn
      BY <1>0, <1>6 DEF ReadTyped, Idle
    <2>2. /\ read.opened <= revision /\ From(read.raw, read.opened, revision)
          /\ ~read.torn => Part(read.raw, read.opened)
      BY <1>0, <1>6 DEF ReaderInv
    <2>3. From(held, read.opened, revision') /\ From(read.raw, read.opened, revision')
      BY <1>1, <1>3, <1>6, <2>2, FromFacts
    <2>4. read.opened <= revision'
      BY <1>1, <1>3, <1>6, <2>2
    <2>5. ReaderInv'
      BY <1>6, <2>1, <2>2, <2>3, <2>4 DEF ReaderInv
    <2>6. FileLoadIsFaithful'
      BY <2>1 DEF FileLoadIsFaithful
    <2>. QED BY <2>1, <2>5, <2>6
  \* The reader.
  <1>7. ASSUME NEW ph \in {"none", "failed"}, read' = [Idle EXCEPT !.phase = ph]
        PROVE  ReadTyped(read') /\ ReaderInv' /\ FileLoadIsFaithful'
    <2>1. read' = [phase |-> ph, wanted |-> <<>>, linked |-> TRUE, held |-> <<>>,
                   raw |-> <<>>, got |-> <<>>, opened |-> 1, torn |-> FALSE]
      BY <1>7 DEF Idle
    <2>. QED BY <1>1, <2>1, ReaderIdle
  <1>8. ASSUME Touch, revision' \in 1..Len(Versions), revision' \in {revision, revision + 1}
        PROVE  ReadTyped(read') /\ ReaderInv' /\ FileLoadIsFaithful'
    <2>1. CASE read.phase = "reading" /\ read.linked
      <3> DEFINE held == read.held
      <3>1. held \in Seq(Chunk)
        BY <1>0 DEF ReadTyped
      <3>2. From(held, read.opened, revision)
        BY <1>0, <2>1 DEF ReaderInv
      <3> HIDE DEF held
      <3>3. read' = [read EXCEPT !.torn = TRUE]
        BY <1>8, <2>1 DEF Touch
      <3>4. read' = [read EXCEPT !.linked = TRUE, !.held = held, !.torn = TRUE]
        BY <1>0, <2>1, <3>3 DEF ReadTyped, held
      <3>. QED BY <1>6, <1>8, <2>1, <3>1, <3>2, <3>4
    <2>2. CASE read.phase = "reading" /\ ~read.linked
      <3>1. read' = read
        BY <1>8, <2>2 DEF Touch
      <3>2. From(read.held, read.opened, revision') /\ From(read.raw, read.opened, revision')
        BY <1>0, <1>1, <1>3, <1>8, <2>2, FromFacts DEF ReaderInv
      <3>3. read.opened <= revision'
        BY <1>0, <1>1, <1>3, <1>8, <2>2 DEF ReaderInv
      <3>4. ReaderInv'
        BY <1>0, <2>2, <3>1, <3>2, <3>3 DEF ReaderInv
      <3>. QED BY <1>0, <2>2, <3>1, <3>4 DEF FileLoadIsFaithful
    <2>3. CASE read.phase # "reading"
      <3>1. read' = read
        BY <1>8, <2>3 DEF Touch
      <3>. QED BY <1>5, <1>8, <2>3, <3>1
    <2>. QED BY <2>1, <2>2, <2>3
  <1>9. CASE Replace
    <2>1. /\ Written /\ revision < Len(Versions) /\ revision' = revision + 1
          /\ disk' = Chunks(Versions[revision']) /\ exists' = TRUE
      BY <1>9 DEF Replace
    <2>2. revision' \in 1..Len(Versions)
      BY <1>1, <2>1
    <2>3. Part(disk', revision')
      BY <2>1, <2>2, PartEnds
    <2>4. CASE read.phase = "reading" /\ read.linked
      <3> DEFINE torn == read.torn
      <3>1. read' = [read EXCEPT !.linked = FALSE, !.held = disk]
        BY <1>9, <2>4 DEF Replace
      <3>2. read' = [read EXCEPT !.linked = FALSE, !.held = disk, !.torn = torn]
        BY <1>0, <3>1 DEF ReadTyped
      <3>3. disk \in Seq(Chunk)
        BY <1>0 DEF Part
      <3>4. read.opened <= revision /\ (~torn => revision = read.opened)
        BY <1>0, <2>4 DEF ReaderInv
      <3>5. From(disk, read.opened, revision)
        <4>1. revision \in read.opened..revision
          BY <1>1, <1>3, <3>4
        <4>. QED BY <1>0, <1>1, <1>3, <4>1, FromPart
      <3>6. torn \in BOOLEAN /\ (~torn => ~read.torn /\ disk = Chunks(Versions[read.opened]))
        BY <1>0, <1>4, <2>1, <3>4 DEF ReadTyped
      <3> HIDE DEF torn
      <3>7. ReadTyped(read') /\ ReaderInv' /\ FileLoadIsFaithful'
        BY <1>6, <2>1, <2>2, <2>4, <3>2, <3>3, <3>5, <3>6
      <3>. QED BY <1>2, <2>1, <2>2, <2>3, <3>7
    <2>5. CASE ~(read.phase = "reading" /\ read.linked)
      <3>1. Touch
        BY <1>9, <2>5 DEF Replace, Touch
      <3>2. ReadTyped(read') /\ ReaderInv' /\ FileLoadIsFaithful'
        BY <1>8, <2>1, <2>2, <3>1
      <3>. QED BY <1>2, <2>1, <2>2, <2>3, <3>2
    <2>. QED BY <2>4, <2>5
  <1>10. CASE Truncate
    <2>1. /\ revision < Len(Versions) /\ revision' = revision + 1
          /\ disk' = <<>> /\ exists' = exists /\ Touch
      BY <1>10 DEF Truncate
    <2>2. revision' \in 1..Len(Versions)
      BY <1>1, <2>1
    <2>3. Part(disk', revision')
      BY <2>1, <2>2, PartEnds
    <2>4. ReadTyped(read') /\ ReaderInv' /\ FileLoadIsFaithful'
      BY <1>8, <2>1, <2>2
    <2>. QED BY <1>0, <1>2, <2>1, <2>2, <2>3, <2>4
  <1>11. CASE WriteChunk
    <2>1. /\ ~Written /\ revision' = revision /\ exists' = exists /\ Touch
          /\ disk' = Append(disk, Chunks(Versions[revision])[Len(disk) + 1])
      BY <1>11 DEF WriteChunk
    <2>2. Part(disk', revision')
      BY <1>0, <1>4, <2>1, PartGrows
    <2>3. ReadTyped(read') /\ ReaderInv' /\ FileLoadIsFaithful'
      BY <1>0, <1>8, <2>1
    <2>. QED BY <1>0, <1>2, <2>1, <2>2, <2>3
  <1>12. CASE OpenFile(list)
    <2> DEFINE torn == ~Written
    <2>1. /\ UNCHANGED <<disk, revision, exists>>
          /\ read' = [Idle EXCEPT !.phase = "reading", !.wanted = list, !.opened = revision,
                                  !.torn = torn]
      BY <1>12 DEF OpenFile
    <2>2. torn \in BOOLEAN /\ (~torn <=> Written)
      OBVIOUS
    <2> HIDE DEF torn
    <2>3. read' = [phase |-> "reading", wanted |-> list, linked |-> TRUE, held |-> <<>>,
                   raw |-> <<>>, got |-> <<>>, opened |-> revision, torn |-> torn]
      BY <2>1 DEF Idle
    <2>4. <<>> \in Seq(Chunk) /\ <<>> \in Seq([service : Services, record : Records])
          /\ DOMAIN <<>> = {} /\ list \in Seq(Entries(Services))
      BY FiltersAssumption
    <2>5. ReadTyped(read')
      BY <1>0, <2>2, <2>3, <2>4 DEF ReadTyped, Idle
    <2>6. From(<<>>, revision, revision)
      BY <2>4 DEF From
    <2>7. /\ read'.phase = "reading" /\ read'.opened = revision /\ read'.held = <<>>
          /\ read'.raw = <<>> /\ read'.torn = torn /\ read'.linked = TRUE
      BY <2>3
    <2>8. Written' = Written
      BY <2>1 DEF Written
    <2>9. ReaderInv'
      BY <1>0, <1>1, <2>1, <2>2, <2>6, <2>7, <2>8, PartEnds DEF ReaderInv
    <2>10. FileLoadIsFaithful'
      BY <2>7 DEF FileLoadIsFaithful
    <2>. QED BY <1>0, <1>2, <2>1, <2>5, <2>9, <2>10
  <1>13. CASE NoFile \/ RejectFile \/ EndRead
    <2>1. UNCHANGED <<disk, revision, exists>>
      BY <1>13 DEF NoFile, RejectFile, EndRead
    <2>2. CASE NoFile \/ RejectFile
      BY <1>0, <1>2, <1>7, <2>1, <2>2 DEF NoFile, RejectFile, FailRead
    <2>3. CASE EndRead
      <3>1. read' = Idle
        BY <2>3 DEF EndRead
      <3>2. read' = [Idle EXCEPT !.phase = "none"]
        BY <3>1 DEF Idle
      <3>. QED BY <1>0, <1>2, <1>7, <2>1, <3>2
    <2>. QED BY <1>13, <2>2, <2>3
  <1>14. CASE ReadChunk
    <2> DEFINE n == Len(read.raw)
               chunk == Source[n + 1]
               raw == Append(read.raw, chunk)
    <2>1. /\ read.phase = "reading" /\ n < Len(Source)
          /\ read' = [read EXCEPT !.raw = raw] /\ UNCHANGED <<disk, revision, exists>>
      BY <1>14 DEF ReadChunk
    <2>2. /\ read.opened <= revision
          /\ From(read.held, read.opened, revision) /\ From(read.raw, read.opened, revision)
          /\ ~read.torn =>
                /\ Part(read.raw, read.opened)
                /\ read.linked => revision = read.opened /\ Written
                /\ ~read.linked => read.held = Chunks(Versions[read.opened])
      BY <1>0, <2>1 DEF ReaderInv
    <2>3. read.raw \in Seq(Chunk) /\ n \in Nat /\ DOMAIN read.raw = 1..n
      BY <1>0 DEF ReadTyped
    <2>4. Source \in Seq(Chunk) /\ From(Source, read.opened, revision)
      <3>1. disk \in Seq(Chunk) /\ read.held \in Seq(Chunk)
        BY <1>0 DEF Part, ReadTyped
      <3>2. From(disk, read.opened, revision)
        <4>1. revision \in read.opened..revision
          BY <1>1, <1>3, <2>2
        <4>. QED BY <1>0, <1>1, <1>3, <4>1, FromPart
      <3>. QED BY <2>2, <3>1, <3>2 DEF Source
    <2>5. n + 1 \in DOMAIN Source
      <3>1. Len(Source) \in Nat /\ DOMAIN Source = 1..Len(Source)
        BY <2>4
      <3>. QED BY <2>1, <2>3, <3>1
    <2>6. chunk \in Chunk /\ \E v \in read.opened..revision : chunk.record \in Members(Versions[v])
      BY <2>4, <2>5 DEF From
    <2> HIDE DEF chunk
    <2>7. raw \in Seq(Chunk) /\ DOMAIN raw = 1..(n + 1) /\ raw[n + 1] = chunk
          /\ \A k \in 1..n : raw[k] = read.raw[k]
      BY <2>3, <2>6
    <2>8. From(raw, read.opened, revision)
      <3> HIDE DEF raw, n
      <3>1. \A k \in 1..(n + 1) : k \in 1..n \/ k = n + 1
        BY <2>3
      <3>. QED BY <2>2, <2>3, <2>6, <2>7, <3>1 DEF From
    <2>9. ~read.torn => Part(raw, read.opened)
      <3>1. SUFFICES ASSUME ~read.torn PROVE Part(raw, read.opened)
        OBVIOUS
      <3>2. Source = Chunks(Versions[read.opened])
        BY <1>4, <2>2, <3>1 DEF Source
      <3>3. read.raw # Chunks(Versions[read.opened])
        BY <2>1, <2>3, <3>2
      <3>. QED BY <1>3, <2>2, <3>1, <3>2, <3>3, PartGrows DEF chunk
    <2> HIDE DEF raw
    <2>10. /\ ReadTyped(read') /\ read'.phase = "reading" /\ read'.raw = raw
           /\ read'.opened = read.opened /\ read'.held = read.held
           /\ read'.linked = read.linked /\ read'.torn = read.torn
      BY <1>0, <2>1, <2>7 DEF ReadTyped, Idle
    <2>11. Written' = Written
      BY <2>1 DEF Written
    <2>12. ReaderInv'
      BY <2>1, <2>2, <2>8, <2>9, <2>10, <2>11 DEF ReaderInv
    <2>13. FileLoadIsFaithful'
      BY <2>10 DEF FileLoadIsFaithful
    <2>. QED BY <1>0, <1>2, <2>1, <2>10, <2>12, <2>13
  <1>15. CASE LoadFile
    <2> DEFINE filter == NamesOf(read.wanted)
    <2>0. PICK records \in Decodings(read.raw) :
             /\ Loads(records, filter)
             /\ read' = [read EXCEPT !.phase = "done", !.got = Loaded(records, filter)]
      BY <1>15 DEF LoadFile
    <2> DEFINE got == Loaded(records, filter)
    <2>1. /\ read.phase = "reading" /\ Len(read.raw) >= Len(Source)
          /\ Loads(records, filter)
          /\ read' = [read EXCEPT !.phase = "done", !.got = got]
          /\ UNCHANGED <<disk, revision, exists>>
      BY <1>15, <2>0 DEF LoadFile, AtEnd
    <2>2. /\ read.opened <= revision /\ From(read.raw, read.opened, revision)
          /\ ~read.torn =>
                /\ Part(read.raw, read.opened)
                /\ read.linked => revision = read.opened /\ Written
                /\ ~read.linked => read.held = Chunks(Versions[read.opened])
      BY <1>0, <2>1 DEF ReaderInv
    <2>3. read.raw \in Seq(Chunk) /\ read.wanted \in Seq(Entries(Services))
      BY <1>0 DEF ReadTyped
    <2>4. /\ records \in Seq(Records)
          /\ OfOneVersion(read.raw) => \A q \in Members(records) :
                \E v \in read.opened..revision : q \in Members(Versions[v])
      <3> DEFINE raw == read.raw
                 l == Len(raw)
                 n == l \div 2
                 r == RecordsIn(raw)
      <3>1. l \in Nat /\ DOMAIN raw = 1..l /\ n \in Nat /\ 2 * n <= l
        <4>1. l \in Nat /\ DOMAIN raw = 1..l
          BY <2>3
        <4> HIDE DEF l
        <4>. QED BY <4>1
      <3>2. r = [k \in 1..n |-> raw[2 * k].record]
        BY DEF RecordsIn
      <3>3. ASSUME NEW k \in 1..n
            PROVE  /\ r[k] \in Records
                   /\ \E v \in read.opened..revision : r[k] \in Members(Versions[v])
        <4>1. 2 * k \in DOMAIN raw
          <5> HIDE DEF l, n, raw
          <5>1. 2 * k \in 1..l
            BY <3>1
          <5>. QED BY <3>1, <5>1
        <4>2. raw[2 * k] \in Chunk
          BY <2>3, <4>1
        <4>3. r[k] = raw[2 * k].record
          BY <3>2
        <4>. QED BY <2>2, <4>1, <4>2, <4>3 DEF From, Chunk
      <3> HIDE DEF r
      <3>6. CASE OfOneVersion(raw)
        <4>1. records = r
          BY <2>0, <3>6 DEF Decodings, r, raw
        <4> HIDE DEF raw, l, n
        <4>2. DOMAIN records = 1..n
          BY <3>2, <4>1
        <4>3. records \in Seq(Records)
          BY <3>1, <3>2, <3>3, <4>1
        <4>. QED BY <3>3, <4>1, <4>2, <4>3 DEF Members
      <3>7. CASE ~OfOneVersion(raw)
        <4>1. PICK m \in 0..n : records \in [1..m -> Records]
          BY <2>0, <3>7 DEF Decodings
        <4> HIDE DEF raw, l, n
        <4>2. m \in Nat
          BY <3>1, <4>1
        <4>3. records \in Seq(Records)
          BY <4>1, <4>2
        <4>. QED BY <3>7, <4>3 DEF raw
      <3>. QED BY <3>6, <3>7
    <2>5. ~read.torn => records = Versions[read.opened]
      <3>1. SUFFICES ASSUME ~read.torn PROVE records = Versions[read.opened]
        OBVIOUS
      <3>2. Source = Chunks(Versions[read.opened])
        BY <1>4, <2>2, <3>1 DEF Source
      <3>3. Len(read.raw) >= 2 * Len(Versions[read.opened])
        BY <1>3, <2>1, <3>2, ChunksFacts
      <3>4. read.raw = Chunks(Versions[read.opened])
        BY <1>3, <2>2, <3>1, <3>3, PartFacts
      <3>5. OfOneVersion(read.raw)
        <4>1. Part(read.raw, read.opened)
          BY <2>2, <3>1
        <4>2. read.raw = SubSeq(Chunks(Versions[read.opened]), 1, Len(read.raw))
          BY <1>3, <4>1, PartFacts
        <4>3. Len(read.raw) <= 2 * Len(Versions[read.opened])
          BY <4>1 DEF Part
        <4>. QED BY <1>3, <4>2, <4>3 DEF OfOneVersion
      <3>6. records = RecordsIn(read.raw)
        BY <2>0, <3>5 DEF Decodings
      <3>. QED BY <1>3, <3>4, <3>6, ChunksFacts
    <2> DEFINE names == [i \in DOMAIN got |-> got[i].service]
    <2>6. /\ got \in Seq([service : Services, record : Records])
          /\ \A i \in DOMAIN got : got[i].record \in Members(records)
          /\ IF Mentioned(read.wanted) # {} THEN AsMentioned(names, read.wanted)
             ELSE names # <<>> /\ names = SortedNames[Listing(Members(names))]
      BY <2>1, <2>3, <2>4, LoadedFacts
    <2> HIDE DEF got
    <2>7. /\ ReadTyped(read') /\ read'.phase = "done" /\ read'.got = got
          /\ read'.opened = read.opened /\ read'.wanted = read.wanted /\ read'.torn = read.torn
          /\ read'.raw = read.raw
      BY <1>0, <2>1, <2>6 DEF ReadTyped, Idle
    <2>8. ReaderInv'
      BY <2>1, <2>2, <2>7 DEF ReaderInv
    <2>9. ~read.torn => IsVersion(read.opened, NamesOf(read.wanted))'
      BY <2>1, <2>5, <2>7 DEF IsVersion, got
    <2>10. OfOneVersion(read'.raw) => \A i \in DOMAIN got :
              \E v \in read.opened..revision : got[i].record \in Members(Versions[v])
      BY <2>4, <2>6, <2>7
    <2>11. FileLoadIsFaithful'
      BY <2>1, <2>6, <2>7, <2>9, <2>10 DEF FileLoadIsFaithful, OfOneVersion
    <2>. QED BY <1>0, <1>2, <2>1, <2>7, <2>8, <2>11
  <1>16. CASE UNCHANGED fileVars
    BY <1>16 DEF fileVars, FileInv, FileTypeOK, ReaderInv, FileLoadIsFaithful, IsVersion, OfOneVersion, Written
  <1>. QED BY <1>9, <1>10, <1>11, <1>12, <1>13, <1>14, <1>15, <1>16 DEF FNext, Loader

LEMMA FileInit == FInit => FileInv
  <1>1. ASSUME FInit
        PROVE  FileInv
    <2>1. 1 \in 1..Len(Versions)
      <3>1. Len(Versions) \in Nat /\ Len(Versions) # 0
        BY RecordsAssumption
      <3>. QED BY <3>1
    <2>2. Part(disk, 1) /\ revision = 1 /\ exists \in BOOLEAN
      BY <1>1, <2>1, PartEnds DEF FInit
    <2>3. disk = SubSeq(Chunks(Versions[revision]), 1, Len(disk))
      BY <2>1, <2>2, PartFacts
    <2>4. read = [phase |-> "none", wanted |-> <<>>, linked |-> TRUE, held |-> <<>>,
                  raw |-> <<>>, got |-> <<>>, opened |-> 1, torn |-> FALSE]
      BY <1>1 DEF FInit, Idle
    <2>5. <<>> \in Seq(Entries(Services)) /\ <<>> \in Seq(Chunk)
          /\ <<>> \in Seq([service : Services, record : Records])
      OBVIOUS
    <2>6. ReadTyped(read)
      BY <2>1, <2>4, <2>5 DEF ReadTyped, Idle
    <2>7. read.phase = "none"
      BY <2>4
    <2>. QED BY <2>1, <2>2, <2>3, <2>6, <2>7, ReadTypes
              DEF FileInv, ReaderInv, FileLoadIsFaithful
  <1>. QED BY <1>1

------------------------------------------------------------------------------
\* The services asked for stay those of the configuration.
DiscoveryInv == services \in Filters /\ LoadInv /\ FileInv

LEMMA Discovering == DSpec => []DiscoveryInv
  <1>1. DInit => DiscoveryInv
    BY LoadInvInit, FileInit DEF DInit, DiscoveryInv
  <1>2. ASSUME DiscoveryInv, [DNext]_discoveryVars
        PROVE  DiscoveryInv'
    <2>1. services' = services
      BY <1>2 DEF DNext, discoveryVars
    <2>2. RStep \/ UNCHANGED reflectionVars
      <3>1. ASSUME RNext(services)
            PROVE  RStep
        <4>1. CASE OpenStream(0)
          BY <4>1 DEF RStep, RRun
        <4>2. CASE ~OpenStream(0)
          BY <1>2, <3>1, <4>2 DEF RNext, RStep, RRun, DiscoveryInv
        <4>. QED BY <4>1, <4>2
      <3>. QED BY <1>2, <3>1 DEF DNext, discoveryVars
    <2>3. FNext(services) \/ UNCHANGED fileVars
      BY <1>2 DEF DNext, discoveryVars
    <2>4. LoadInv'
      BY <1>2, <2>2, LoadInvStep DEF DiscoveryInv
    <2>5. FileInv'
      BY <1>2, <2>3, FileStep DEF DiscoveryInv
    <2>. QED BY <1>2, <2>1, <2>4, <2>5 DEF DiscoveryInv
  <1>. QED BY <1>1, <1>2, PTL DEF DSpec

\* The state is of its type, whatever is configured, deployed or written.
THEOREM DiscoveryTyped == DSpec => []DTypeOK
  <1>1. DiscoveryInv => DTypeOK
    BY DEF DiscoveryInv, DTypeOK, LoadInv, FileInv
  <1>. QED BY <1>1, Discovering, PTL

\* For any sequence of deployments, of any services, crashes and redeploys at
\* any point of a load: what a load collects was deployed while it ran, and in
\* the order of the deployments.
THEOREM LoadsAreRegular == DSpec => []LoadIsRegular
  <1>1. DiscoveryInv => LoadIsRegular
    BY DEF DiscoveryInv, LoadInv, RegularInv
  <1>. QED BY <1>1, Discovering, PTL

\* For any configured list, however names are repeated or spelled in it: a load
\* that succeeds has one descriptor for each name and in the order of first
\* mention, or, if it names none, one for each service of the listing.
THEOREM LoadsAreComplete == DSpec => []LoadIsComplete
  <1>1. DiscoveryInv => LoadIsComplete
    BY DoneIsComplete DEF DiscoveryInv
  <1>. QED BY <1>1, Discovering, PTL

\* For any contents the file is given, by rename or in place, at any point of a
\* read: a load of a file nobody wrote to is of one version, and a torn one
\* that succeeds, of whatever its pieces decode as, still has every name that is
\* configured, and nothing that no version had if its pieces are of one version.
THEOREM FileLoadsAreFaithful == DSpec => []FileLoadIsFaithful
  <1>1. DiscoveryInv => FileLoadIsFaithful
    BY DEF DiscoveryInv, FileInv
  <1>. QED BY <1>1, Discovering, PTL
==============================================================================
