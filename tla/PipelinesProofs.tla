---------------------------- MODULE PipelinesProofs ----------------------------
(***************************************************************************)
(* The answers of group requests are honest and quiet edits strand         *)
(* nothing, for any number of pipelines, entries, requests and faults.     *)
(***************************************************************************)
EXTENDS Pipelines, WellFoundedInduction, TLAPS

Edits      == {"update", "delete"}
ModelKinds == {"model-start", "model-stop", "model-restart", "automodel"}
AllKinds   == Group \cup Edits \cup ModelKinds \cup
              {"launch", "instance-stop", "instance-restart", "cleanup"}

Launching  == {"start", "record", "spawn"}
Admitting  == {"record", "spawn"}
Stopping   == {"stop", "stopping"}
Restarting == {"rlock", "rstop", "rawait", "rspawn"}

Snaps == Layouts \cup {<<>>} \cup {Manual(m) : m \in Models}

ReqType ==
    [kind : AllKinds \cup {"none"}, pc : PCs,
     arg : Pipes \cup Models \cup Instances \cup {No},
     snap : Snaps, targets : Seq(SUBSET Instances), cur : Instances \cup {No},
     idx : Nat, blockers : SUBSET Instances, failed : BOOLEAN,
     new : Layouts \cup {<<>>}]

EntryIds == (UNION {Ids(l) : l \in Layouts}) \cup {No}

OwnerType ==
    [model : Models \cup {No}, pipe : Pipes \cup {No}, entry : EntryIds]

SupTypes ==
    /\ state \in [Instances -> InFlight \cup Terminal \cup {"none", "gone"}]
    /\ owner \in [Instances -> OwnerType]
    /\ op \in [Instances -> {"none", "launch", "restart"}]
    /\ mu \in [Instances -> All \cup {No}]
    /\ late \subseteq Instances
    /\ durable \in [Instances -> InFlight \cup Terminal \cup {"none"}]
    /\ restarted \subseteq Instances

DocTypes ==
    /\ pipes \in [Pipes -> Layouts \cup {<<>>}]
    /\ mutex \in [Pipes -> All \cup {No}]
    /\ booted \in 0..Len(BootJobs)
    /\ made \in 0..MaxRequests
    /\ quiet \subseteq All

Types ==
    /\ SupTypes
    /\ DocTypes
    /\ faults \in 0..MaxFaults
    /\ req \in [All -> ReqType]

-----------------------------------------------------------------------------
(* The inductive invariant: what holds of the request c                    *)

\* It is where its kind takes it, with what that place needs.
Placed(c) ==
    LET r == req[c] IN
    /\ r.pc = "idle" => r.kind = "none"
    /\ r.pc = "lock" => r.kind \in Group
    /\ r.pc = "list" => r.kind \in {"stop", "restart"} \cup ModelKinds
    /\ r.pc \in Launching =>
           /\ r.kind \in {"start", "autostart", "restart", "launch", "model-start", "automodel"}
           /\ r.idx \in DOMAIN r.snap
    /\ r.pc \in Stopping => r.kind \in {"stop", "restart", "model-stop", "instance-stop"}
    /\ r.pc = "stopping" => r.cur \in Instances
    /\ r.pc \in {"radmit", "rarbitrate"} \cup Restarting =>
           r.kind \in {"model-restart", "instance-restart"}
    /\ r.pc = "rarbitrate" => r.cur \in Instances
    /\ r.pc \in {"check", "write"} => r.kind \in Edits
    /\ r.pc \in {"clean", "forget"} => r.kind = "cleanup"
    /\ r.pc \notin Launching \cup {"reply"} => r.idx = 1
    /\ r.kind \in Group \cup Edits => r.arg \in Pipes
    /\ r.kind \in ModelKinds => r.arg \in Models
    /\ r.kind \in Group /\ r.pc \notin {"lock", "reply"} => r.snap \in Layouts

\* A group request holds the mutex of its pipeline until it is answered.
Holds(c) == req[c].kind \in Group /\ req[c].pc # "lock" => mutex[req[c].arg] = c

\* Its launch under way is pending, its own, and no restart's.
Launches(c) ==
    req[c].pc \in Admitting =>
        LET i == req[c].cur IN
        /\ i \in Instances \ restarted
        /\ state[i] = "pending"
        /\ owner[i] = OwnerFor(c, req[c].snap[req[c].idx])
        /\ req[c].pc = "spawn" => durable[i] = "pending"

\* What it restarts one by one is in the history of those restarts.
Restarts(c) == req[c].pc \in Restarting => req[c].cur \in restarted

\* Instance i belongs to an entry its snapshot lists.
Owned(c, i) == owner[i].pipe = req[c].arg /\ owner[i].entry \in Ids(req[c].snap)

\* While a stop has not failed, what is in flight of its entries is a target;
\* answered, none is.
Stops(c) ==
    /\ req[c].kind \in {"stop", "restart"} /\ req[c].pc \in Stopping /\ ~req[c].failed =>
          \A i \in Instances \ restarted : Owned(c, i) /\ state[i] \in InFlight =>
              \E k \in DOMAIN req[c].targets : i \in req[c].targets[k]
    /\ req[c].kind = "stop" /\ req[c].pc = "reply" /\ ~req[c].failed =>
          \A i \in Instances \ restarted : Owned(c, i) => state[i] \notin InFlight

\* Instance i belongs to an entry its start phase has still to launch.
Coming(c, i) ==
    /\ owner[i].pipe = req[c].arg
    /\ \E k \in DOMAIN req[c].snap : k >= req[c].idx /\ owner[i].entry = req[c].snap[k].id

\* In the start phase of a restart nothing is in flight of the entries still
\* to come but what is being launched.
Starts(c) ==
    req[c].kind = "restart" /\ req[c].pc \in Launching /\ ~req[c].failed =>
        \A i \in Instances \ restarted : Coming(c, i) /\ state[i] \in InFlight =>
            req[c].pc \in Admitting /\ i = req[c].cur

\* No instance of its own pipeline refused the start phase of a restart.
Blocked(c) ==
    /\ \A i \in req[c].blockers : state[i] # "none"
    /\ req[c].kind = "restart" /\ ~req[c].failed =>
          \A i \in req[c].blockers \ restarted : owner[i].pipe # req[c].arg

\* A quiet edit: nobody has entered its pipeline since it looked.
Quiet(c) ==
    c \in quiet =>
        /\ req[c].pc = "write"
        /\ mutex[req[c].arg] = No
        /\ \/ IdSeq(req[c].new) = IdSeq(pipes[req[c].arg])
           \/ \A i \in Instances \ restarted :
                  owner[i].pipe = req[c].arg => state[i] \notin InFlight

-----------------------------------------------------------------------------
(* The inductive invariant: the whole                                      *)

\* Requests that have not arrived are idle; the boot is not over while it serves.
Arrivals ==
    /\ \A c \in Requests : c > made => req[c] = Idle
    /\ req[Boot].pc # "idle" => booted < Len(BootJobs)

\* Two launches are of two instances.
Apart ==
    \A c, d \in All : req[c].pc \in Admitting /\ req[d].pc \in Admitting /\ c # d
                          => req[c].cur # req[d].cur

\* An instance has an owner from its admission on.
Minted ==
    /\ \A i \in Instances : owner[i] = NoOwner <=> state[i] = "none"
    /\ \A i \in restarted : state[i] # "none"

\* Of what nobody restarted only a pending instance has an operation, and a
\* wait() that has still to persist an exit belongs to nothing alive.
FirstGeneration ==
    \A i \in Instances \ restarted :
        /\ op[i] # "none" => state[i] = "pending"
        /\ i \in late => state[i] \in Terminal \cup {"gone"}

\* What is in flight is recorded as in flight, except between its admission
\* and its first record.
Recorded ==
    \A i \in Instances \ restarted : state[i] \in InFlight =>
        durable[i] \in InFlight \/ \E c \in All : req[c].pc = "record" /\ req[c].cur = i

IInv ==
    /\ Types /\ Arrivals /\ Apart /\ Minted /\ FirstGeneration /\ Recorded
    /\ \A c \in All : /\ Placed(c) /\ Holds(c) /\ Launches(c) /\ Restarts(c)
                      /\ Stops(c) /\ Starts(c) /\ Blocked(c) /\ Quiet(c)

-----------------------------------------------------------------------------
(* Lemmas                                                                  *)

\* Max picks from a nonempty set of positions.
LEMMA LastExists ==
    ASSUME NEW n \in Nat, NEW S, S \subseteq 1..n, S # {}
    PROVE  Max(S) \in S
<1> DEFINE R == {ss \in Nat \X Nat : ss[1] < ss[2]}
           T == {n - k : k \in S}
<1>1. T \subseteq Nat
  <2>1. \A k \in S : k \in 1..n
    OBVIOUS
  <2>2. \A k \in 1..n : n - k \in Nat
    OBVIOUS
  <2> QED  BY <2>1, <2>2
<1>2. T # {}
  OBVIOUS
<1>3. PICK x \in T : \A y \in T : ~(<<y, x>> \in R)
  <2>1. IsWellFoundedOn(R, Nat)
    BY NatLessThanWellFounded DEF OpToRel
  <2> HIDE DEF R, T
  <2> QED  BY <1>1, <1>2, <2>1, WFMin
<1>4. \A y \in T : ~(y < x)
  <2> SUFFICES ASSUME NEW y \in T PROVE ~(y < x)
    OBVIOUS
  <2> HIDE DEF T
  <2> QED  BY <1>1, <1>3
<1>5. PICK k \in S : x = n - k
  OBVIOUS
<1>6. ASSUME NEW j \in S PROVE k >= j
  <2>1. ~(n - j < n - k)
    BY <1>4, <1>5
  <2>2. j \in 1..n /\ k \in 1..n
    OBVIOUS
  <2> QED  BY <2>1, <2>2
<1> QED  BY <1>6 DEF Max

\* A request is replaced, the others stay.
LEMMA Served ==
    ASSUME Types, NEW c \in All, NEW r \in ReqType, Serve(c, r)
    PROVE  /\ req' \in [All -> ReqType]
           /\ req'[c] = r
           /\ \A d \in All \ {c} : req'[d] = req[d]
  BY DEF Types, Serve

\* Taking a target off the list leaves a list, of the others.
LEMMA TargetsLeft ==
    ASSUME NEW t \in Seq(SUBSET Instances), NEW i
    PROVE  LET u == [k \in DOMAIN t |-> t[k] \ {i}]
           IN  /\ u \in Seq(SUBSET Instances)
               /\ DOMAIN u = DOMAIN t
               /\ \A k \in DOMAIN t : u[k] = t[k] \ {i}
<1> DEFINE u == [k \in DOMAIN t |-> t[k] \ {i}]
<1>1. DOMAIN t = 1..Len(t) /\ Len(t) \in Nat /\ t \in [1..Len(t) -> SUBSET Instances]
  OBVIOUS
<1>2. u \in [1..Len(t) -> SUBSET Instances]
  BY <1>1
<1>3. u \in Seq(SUBSET Instances)
  BY <1>1, <1>2
<1> QED  BY <1>3

\* The target at hand is an instance.
LEMMA TargetExists ==
    ASSUME Types, NEW c \in All, Unfinished(c) # {}
    PROVE  /\ Max(Unfinished(c)) \in DOMAIN req[c].targets
           /\ req[c].targets[Max(Unfinished(c))] \subseteq Instances
           /\ req[c].targets[1] \subseteq Instances
<1>1. req[c].targets \in Seq(SUBSET Instances)
  BY DEF Types, ReqType
<1>2. /\ Len(req[c].targets) \in Nat /\ DOMAIN req[c].targets = 1..Len(req[c].targets)
      /\ \A k \in DOMAIN req[c].targets : req[c].targets[k] \subseteq Instances
  BY <1>1
<1>3. Unfinished(c) \subseteq 1..Len(req[c].targets)
  BY <1>2 DEF Unfinished
<1>4. Max(Unfinished(c)) \in Unfinished(c)
  BY <1>2, <1>3, LastExists
<1>5. 1 \in DOMAIN req[c].targets
  BY <1>2, <1>3, <1>4
<1> QED  BY <1>2, <1>4, <1>5 DEF Unfinished

\* What a snapshot lists is an entry with a model.
LEMMA Entries ==
    ASSUME NEW s \in Snaps, NEW k \in DOMAIN s
    PROVE  s[k].model \in Models /\ s[k].id \in EntryIds
<1>1. CASE s \in Layouts
  <2> DEFINE E == [id : {s[j].id : j \in DOMAIN s}, model : Models]
  <2>1. s \in Seq(E)
    BY <1>1, LayoutAssumption
  <2>2. s[k] \in E
    <3> HIDE DEF E
    <3> QED  BY <2>1
  <2>3. s[k].id \in Ids(s)
    BY DEF Ids
  <2> QED  BY <1>1, <2>2, <2>3 DEF EntryIds
<1>2. CASE s = <<>>
  BY <1>2 DEF EntryIds
<1>3. CASE \E m \in Models : s = Manual(m)
  <2>1. PICK m \in Models : s = Manual(m)
    BY <1>3
  <2>2. k = 1
    BY <2>1 DEF Manual
  <2> QED  BY <2>1, <2>2 DEF Manual, EntryIds
<1>4. s \in Layouts \/ s = <<>> \/ \E m \in Models : s = Manual(m)
  BY DEF Snaps
<1> QED  BY <1>1, <1>2, <1>3, <1>4

\* An entry of a snapshot is at one place of it.
LEMMA EntriesDiffer ==
    ASSUME NEW s \in Layouts, NEW j \in DOMAIN s, NEW k \in DOMAIN s, s[j].id = s[k].id
    PROVE  j = k
  BY LayoutAssumption

\* The entries of a layout are numbered from 1, and there is one.
LEMMA LayoutDomain ==
    ASSUME NEW s \in Layouts
    PROVE  Len(s) \in Nat \ {0} /\ DOMAIN s = 1..Len(s)
<1> DEFINE E == [id : {s[j].id : j \in DOMAIN s}, model : Models]
<1>1. s \in Seq(E) /\ s # <<>>
  BY LayoutAssumption
<1> HIDE DEF E
<1> QED  BY <1>1

\* A step that admits nothing and disturbs nothing the request d relies on
\* keeps what is invariant of d.
LEMMA OthersKept ==
    ASSUME IInv, NEW d \in All, req'[d] = req[d], owner' = owner,
           restarted \subseteq restarted', restarted' \subseteq Instances,
           \A i \in Instances : state[i] # "none" => state'[i] # "none",
           \A i \in Instances \ restarted' : state'[i] \in InFlight => state[i] \in InFlight,
           req[d].pc \in Admitting =>
               LET i == req[d].cur IN
               /\ state'[i] = state[i] /\ i \notin restarted'
               /\ durable[i] = "pending" => durable'[i] = "pending",
           \A p \in Pipes : mutex[p] = d => mutex'[p] = d
    PROVE  (Placed(d) /\ Holds(d) /\ Launches(d) /\ Restarts(d) /\ Stops(d) /\ Starts(d)
              /\ Blocked(d))'
<1> DEFINE OD == Placed(d) /\ Holds(d) /\ Launches(d) /\ Restarts(d) /\ Stops(d) /\ Starts(d)
                   /\ Blocked(d)
<1>1. OD /\ req[d].blockers \subseteq Instances
  BY DEF IInv, Types, ReqType
<1>2. Placed(d)'
  BY <1>1 DEF Placed, Manual
<1>3. Holds(d)'
  BY <1>1 DEF Holds, Placed
<1>4. Launches(d)'
  BY <1>1 DEF Launches, OwnerFor, Arg
<1>5. Restarts(d)'
  BY <1>1 DEF Restarts
<1>6. Stops(d)'
  BY <1>1 DEF Stops, Owned
<1>7. Starts(d)'
  BY <1>1 DEF Starts, Coming
<1>8. Blocked(d)'
  BY <1>1 DEF Blocked
<1> QED  BY <1>2, <1>3, <1>4, <1>5, <1>6, <1>7, <1>8

\* It keeps a quiet edit quiet too, if its pipeline is left alone.
LEMMA QuietKept ==
    ASSUME IInv, NEW d \in All, d \in quiet' => d \in quiet /\ req'[d] = req[d],
           owner' = owner, restarted \subseteq restarted',
           \A i \in Instances \ restarted' : state'[i] \in InFlight => state[i] \in InFlight,
           d \in quiet' => /\ mutex'[req[d].arg] = mutex[req[d].arg]
                           /\ pipes'[req[d].arg] = pipes[req[d].arg]
    PROVE  Quiet(d)'
<1>1. Quiet(d)
  BY DEF IInv
<1> QED  BY <1>1 DEF Quiet

\* What holds of a record of a request with a field changed.
LEMMA InitHolds == Init => IInv
<1> SUFFICES ASSUME Init PROVE IInv
  OBVIOUS
<1> USE PipelinesAssumption
<1>1. Types
  <2>1. Idle \in ReqType
    BY DEF Idle, ReqType, PCs, Snaps
  <2>2. NoOwner \in OwnerType
    BY DEF NoOwner, OwnerType, EntryIds
  <2>3. SupTypes
    BY <2>2 DEF Init, SupTypes, InFlight, Live, Terminal
  <2>4. DocTypes
    BY DEF Init, DocTypes
  <2> QED  BY <2>1, <2>3, <2>4 DEF Init, Types
<1>2. Arrivals
  BY DEF Init, Arrivals, Idle, All, Requests
<1>3. Apart /\ Minted /\ FirstGeneration /\ Recorded
  BY DEF Init, Apart, Minted, FirstGeneration, Recorded, Idle, Admitting, InFlight, Live
<1>4. ASSUME NEW c \in All
      PROVE  /\ Placed(c) /\ Holds(c) /\ Launches(c) /\ Restarts(c)
             /\ Stops(c) /\ Starts(c) /\ Blocked(c) /\ Quiet(c)
  <2>1. req[c] = Idle
    BY DEF Init
  <2>2. Placed(c) /\ Holds(c) /\ Launches(c) /\ Restarts(c)
    BY <2>1 DEF Placed, Holds, Launches, Restarts, Idle, Group, Edits, ModelKinds, Launching,
                Admitting, Stopping, Restarting
  <2>3. Stops(c) /\ Starts(c) /\ Blocked(c) /\ Quiet(c)
    BY <2>1 DEF Init, Stops, Starts, Blocked, Quiet, Idle
  <2> QED  BY <2>2, <2>3
<1> QED  BY <1>1, <1>2, <1>3, <1>4 DEF IInv

\* A step of the request c that touches no instance and is no launch's.
LEMMA RequestMoves ==
    ASSUME IInv, NEW c \in All, NEW r \in ReqType, Serve(c, r), UNCHANGED supVars,
           req[c].pc \notin Admitting, r.pc \notin Admitting,
           \A p \in Pipes : mutex[p] \in All \ {c} => mutex'[p] = mutex[p]
    PROVE  /\ req' \in [All -> ReqType] /\ req'[c] = r /\ \A d \in All \ {c} : req'[d] = req[d]
           /\ SupTypes' /\ Apart' /\ Minted' /\ FirstGeneration' /\ Recorded'
           /\ \A d \in All \ {c} : (Placed(d) /\ Holds(d) /\ Launches(d) /\ Restarts(d)
                                      /\ Stops(d) /\ Starts(d) /\ Blocked(d))'
<1>1. Types
  BY DEF IInv
<1>2. req' \in [All -> ReqType] /\ req'[c] = r /\ \A d \in All \ {c} : req'[d] = req[d]
  BY <1>1, Served
<1>3. Apart'
  BY <1>2 DEF IInv, Apart
<1>4. Minted' /\ FirstGeneration'
  BY DEF IInv, Minted, FirstGeneration, supVars
<1>5. Recorded'
  BY <1>2 DEF IInv, Recorded, supVars, Admitting
<1>6. ASSUME NEW d \in All \ {c}
      PROVE  (Placed(d) /\ Holds(d) /\ Launches(d) /\ Restarts(d)
                /\ Stops(d) /\ Starts(d) /\ Blocked(d))'
  <2>1. Launches(d)
    BY DEF IInv
  <2>2. req[d].pc \in Admitting => req[d].cur \notin restarted
    BY <2>1 DEF Launches
  <2>3. restarted \subseteq Instances /\ \A p \in Pipes : mutex[p] = d => mutex'[p] = d
    BY <1>1 DEF Types, SupTypes, DocTypes
  <2> QED  BY <1>2, <2>2, <2>3, OthersKept DEF supVars
<1>7. SupTypes'
  BY <1>1 DEF Types, SupTypes, supVars
<1> QED  BY <1>2, <1>3, <1>4, <1>5, <1>6, <1>7

\* A request in service stays in service, or is answered.
LEMMA ArrivalsKept ==
    ASSUME IInv, NEW c \in All, req[c].pc # "idle", \A d \in All \ {c} : req'[d] = req[d],
           UNCHANGED <<booted, made>>
    PROVE  Arrivals'
<1>1. Arrivals
  BY DEF IInv
<1>2. \A d \in Requests : d > made => d # c /\ req[d] = Idle
  <2>1. Idle.pc = "idle"
    BY DEF Idle
  <2> QED  BY <1>1, <2>1 DEF Arrivals
<1>3. req'[Boot].pc # "idle" => booted < Len(BootJobs)
  BY <1>1 DEF Arrivals, All
<1> QED  BY <1>2, <1>3 DEF Arrivals, All

\* The count of faults stays within its bound.
LEMMA FaultCounts ==
    ASSUME Types, Fault \/ NoFault
    PROVE  faults' \in 0..MaxFaults
  BY PipelinesAssumption DEF Types, Fault, NoFault

\* The parts make the whole.
LEMMA Whole ==
    ASSUME NEW c \in All, Types', Arrivals', Apart', Minted', FirstGeneration', Recorded',
           \A d \in All \ {c} : (Placed(d) /\ Holds(d) /\ Launches(d) /\ Restarts(d)
                                   /\ Stops(d) /\ Starts(d) /\ Blocked(d))',
           Placed(c)', Holds(c)', Launches(c)', Restarts(c)', Stops(c)', Starts(c)', Blocked(c)',
           \A d \in All : Quiet(d)'
    PROVE  IInv'
  BY DEF IInv

-----------------------------------------------------------------------------
(* Requests arrive and are answered                                        *)

\* An answered request holds nothing any more and frees its mutex.
LEMMA ReplyStep ==
    ASSUME IInv, NEW c \in All, Reply(c)
    PROVE  IInv'
<1>1. Types /\ Arrivals /\ Placed(c) /\ Quiet(c)
  BY DEF IInv
<1>2. Idle \in ReqType
  BY DEF Idle, ReqType, PCs, Snaps
<1>3. /\ mutex' \in [Pipes -> All \cup {No}]
      /\ \A p \in Pipes : mutex'[p] = IF mutex[p] = c THEN No ELSE mutex[p]
  BY <1>1 DEF Reply, Unlocked, Types, DocTypes
<1>4. /\ req' \in [All -> ReqType] /\ req'[c] = Idle /\ \A d \in All \ {c} : req'[d] = req[d]
      /\ SupTypes' /\ Apart' /\ Minted' /\ FirstGeneration' /\ Recorded'
      /\ \A d \in All \ {c} : (Placed(d) /\ Holds(d) /\ Launches(d) /\ Restarts(d)
                                 /\ Stops(d) /\ Starts(d) /\ Blocked(d))'
  <2>1. req[c].pc \notin Admitting /\ Idle.pc \notin Admitting
    BY DEF Reply, At, Admitting, Idle
  <2>2. \A p \in Pipes : mutex[p] \in All \ {c} => mutex'[p] = mutex[p]
    BY <1>3
  <2> QED  BY <1>2, <2>1, <2>2, RequestMoves DEF Reply
<1>5. Types'
  <2>1. booted' \in 0..Len(BootJobs)
    BY <1>1, PipelinesAssumption DEF Reply, At, Arrivals, Types, DocTypes
  <2>2. DocTypes'
    BY <1>1, <1>3, <2>1 DEF Reply, Types, DocTypes
  <2> QED  BY <1>1, <1>4, <2>2 DEF Reply, Types
<1>6. Arrivals'
  <2>1. Idle.pc = "idle"
    BY DEF Idle
  <2> QED  BY <1>1, <1>4, <2>1 DEF Reply, Arrivals, All
<1>7. /\ Placed(c)' /\ Holds(c)' /\ Launches(c)' /\ Restarts(c)' /\ Stops(c)' /\ Starts(c)'
      /\ Blocked(c)'
  BY <1>4 DEF Placed, Holds, Launches, Restarts, Stops, Starts, Blocked, Idle, Group, Edits,
              ModelKinds, Launching, Admitting, Stopping, Restarting
<1>8. ASSUME NEW d \in All PROVE Quiet(d)'
  <2>1. d \in quiet' => d \in quiet /\ d # c /\ mutex[req[d].arg] = No
    BY <1>1 DEF IInv, Quiet, Reply, At
  <2>2. d \in quiet' => mutex'[req[d].arg] = mutex[req[d].arg]
    <3>1. d \in quiet' => req[d].arg \in Pipes
      BY <2>1 DEF IInv, Quiet, Placed, Edits
    <3> QED  BY <1>3, <2>1, <3>1
  <2> QED  BY <1>4, <2>1, <2>2, QuietKept DEF Reply, supVars
<1> QED  BY <1>4, <1>5, <1>6, <1>7, <1>8, Whole

\* A request that arrives is where its kind begins, and holds nothing.
LEMMA Arrive ==
    ASSUME NEW c, NEW kind \in AllKinds, NEW arg \in Pipes \cup Models \cup Instances \cup {No},
           NEW new \in Layouts \cup {<<>>},
           kind \in Group \cup Edits => arg \in Pipes,
           kind \in ModelKinds \cup {"launch"} => arg \in Models,
           req'[c] = Asked(kind, arg, new)
    PROVE  /\ Asked(kind, arg, new) \in ReqType
           /\ Asked(kind, arg, new).pc \notin {"write", "idle"} \cup Admitting
           /\ Placed(c)' /\ Holds(c)' /\ Launches(c)' /\ Restarts(c)' /\ Stops(c)' /\ Starts(c)'
           /\ Blocked(c)'
<1> DEFINE r == Asked(kind, arg, new)
           sn == IF kind = "launch" THEN Manual(arg) ELSE <<>>
           ta == IF arg \in Instances THEN <<{arg}>> ELSE <<>>
<1>1. r = [kind |-> kind, pc |-> First(kind), arg |-> arg, snap |-> sn, targets |-> ta,
           cur |-> No, idx |-> 1, blockers |-> {}, failed |-> FALSE, new |-> new]
  BY ZenonT(100) DEF Asked, Idle
<1>2. sn \in Snaps /\ ta \in Seq(SUBSET Instances)
  <2>1. sn = <<>> \/ \E m \in Models : sn = Manual(m)
    OBVIOUS
  <2>2. sn \in Snaps
    <3> HIDE DEF sn
    <3> QED  BY <2>1 DEF Snaps
  <2>3. ta = <<>> \/ (ta = <<{arg}>> /\ {arg} \in SUBSET Instances)
    OBVIOUS
  <2>4. ta \in Seq(SUBSET Instances)
    <3> DEFINE S == SUBSET Instances
    <3>1. <<>> \in Seq(S) /\ ({arg} \in S => <<{arg}>> \in Seq(S))
      <4> HIDE DEF S
      <4> QED  OBVIOUS
    <3> HIDE DEF ta
    <3> QED  BY <2>3, <3>1
  <2> QED  BY <2>2, <2>4
<1>3. CASE kind \in Group
  <2>1. First(kind) = "lock"
    BY <1>3 DEF First, Group
  <2>2. kind \notin {"launch"} \cup ModelKinds
    BY <1>3 DEF Group, ModelKinds
  <2> HIDE DEF r, sn, ta
  <2>3. r \in ReqType
    BY <1>1, <1>2, <2>1 DEF ReqType, PCs
  <2> QED  BY <1>1, <1>3, <2>1, <2>2, <2>3 DEF Placed, Holds, Launches, Restarts, Stops, Starts,
              Blocked, Launching, Admitting, Stopping, Restarting, r
<1>4. CASE kind \in Edits
  <2>1. First(kind) = "check"
    BY <1>4 DEF First, Edits, Group
  <2>2. kind \notin Group \cup ModelKinds
    BY <1>4 DEF Group, ModelKinds, Edits
  <2> HIDE DEF r, sn, ta
  <2>3. r \in ReqType
    BY <1>1, <1>2, <2>1 DEF ReqType, PCs
  <2> QED  BY <1>1, <1>4, <2>1, <2>2, <2>3 DEF Placed, Holds, Launches, Restarts, Stops, Starts,
              Blocked, Launching, Admitting, Stopping, Restarting, Edits, r
<1>5. CASE kind \in ModelKinds
  <2>1. First(kind) = "list"
    BY <1>5 DEF First, ModelKinds, Group
  <2>2. kind \notin Group \cup Edits
    BY <1>5 DEF Group, ModelKinds, Edits
  <2> HIDE DEF r, sn, ta
  <2>3. r \in ReqType
    BY <1>1, <1>2, <2>1 DEF ReqType, PCs
  <2> QED  BY <1>1, <1>5, <2>1, <2>2, <2>3 DEF Placed, Holds, Launches, Restarts, Stops, Starts,
              Blocked, Launching, Admitting, Stopping, Restarting, ModelKinds, r
<1>6. CASE kind = "launch"
  <2>1. First(kind) = "start"
    BY <1>6 DEF First, Group
  <2>2. kind \notin Group \cup Edits \cup ModelKinds /\ 1 \in DOMAIN sn
    BY <1>6 DEF Group, ModelKinds, Edits, Manual
  <2> HIDE DEF r, sn, ta
  <2>3. r \in ReqType
    BY <1>1, <1>2, <2>1 DEF ReqType, PCs
  <2> QED  BY <1>1, <1>6, <2>1, <2>2, <2>3 DEF Placed, Holds, Launches, Restarts, Stops, Starts,
              Blocked, Launching, Admitting, Stopping, Restarting, r
<1>7. CASE kind \in {"instance-stop", "instance-restart", "cleanup"}
  <2>1. First(kind) = IF kind = "instance-stop" THEN "stop"
                      ELSE IF kind = "cleanup" THEN "clean" ELSE "radmit"
    BY <1>7 DEF First, Group
  <2>2. kind \notin Group \cup Edits \cup ModelKinds
    BY <1>7 DEF Group, ModelKinds, Edits
  <2> HIDE DEF r, sn, ta
  <2>3. r \in ReqType
    BY <1>1, <1>2, <1>7, <2>1 DEF ReqType, PCs
  <2> QED  BY <1>1, <1>7, <2>1, <2>2, <2>3 DEF Placed, Holds, Launches, Restarts, Stops, Starts,
              Blocked, Launching, Admitting, Stopping, Restarting, r
<1> QED  BY <1>3, <1>4, <1>5, <1>6, <1>7 DEF AllKinds

\* What a client may ask is of its kind.
LEMMA ArgsFit ==
    ASSUME NEW kind \in AllKinds, NEW arg \in ArgsOf(kind)
    PROVE  /\ arg \in Pipes \cup Models \cup Instances \cup {No}
           /\ kind \in Group \cup Edits => arg \in Pipes
           /\ kind \in ModelKinds \cup {"launch"} => arg \in Models
<1>1. CASE kind \in Group \cup Edits
  <2>1. ArgsOf(kind) = Pipes
    BY <1>1 DEF ArgsOf, Edits, Group
  <2> QED  BY <1>1, <2>1 DEF Group, Edits, ModelKinds
<1>2. CASE kind \in ModelKinds \cup {"launch"}
  <2>1. ArgsOf(kind) = Models
    BY <1>2 DEF ArgsOf, ModelKinds, Group
  <2> QED  BY <1>2, <2>1 DEF Group, Edits, ModelKinds
<1>3. CASE kind \in {"instance-stop", "instance-restart"}
  <2>1. ArgsOf(kind) \subseteq Instances
    BY <1>3 DEF ArgsOf, Group
  <2> QED  BY <1>3, <2>1 DEF Group, Edits, ModelKinds
<1>4. CASE kind = "cleanup"
  <2>1. ArgsOf(kind) = {No}
    BY <1>4 DEF ArgsOf, Group
  <2> QED  BY <1>4, <2>1 DEF Group, Edits, ModelKinds
<1> QED  BY <1>1, <1>2, <1>3, <1>4 DEF AllKinds

\* Requests of every kind arrive in the place of their kind.
LEMMA BeginStep ==
    ASSUME IInv, NEW c \in Requests, Begin(c)
    PROVE  IInv'
<1>1. /\ Types /\ Arrivals /\ c \in All /\ made \in Nat /\ c = made + 1
      /\ c # Boot
  BY PipelinesAssumption DEF IInv, Types, DocTypes, Begin, All, Requests
<1>2. req[c] = Idle
  BY <1>1 DEF Arrivals
<1>3. PICK kind \in Kinds : \E arg \in ArgsOf(kind) : \E new \in Layouts \cup {<<>>} :
          Serve(c, Asked(kind, arg, new))
  BY DEF Begin
<1>4. PICK arg \in ArgsOf(kind), new \in Layouts \cup {<<>>} : Serve(c, Asked(kind, arg, new))
  BY <1>3
<1>5. kind \in AllKinds
  BY PipelinesAssumption DEF AllKinds, Group, Edits, ModelKinds
<1> DEFINE r == Asked(kind, arg, new)
<1>6. req'[c] = r
  BY <1>1, <1>4 DEF Serve, Types
<1>7. /\ r \in ReqType /\ r.pc \notin {"write", "idle"} \cup Admitting
      /\ Placed(c)' /\ Holds(c)' /\ Launches(c)' /\ Restarts(c)' /\ Stops(c)' /\ Starts(c)'
      /\ Blocked(c)'
  BY <1>5, <1>6, ArgsFit, Arrive
<1> HIDE DEF r
<1>8. /\ req' \in [All -> ReqType] /\ req'[c] = r /\ \A d \in All \ {c} : req'[d] = req[d]
      /\ SupTypes' /\ Apart' /\ Minted' /\ FirstGeneration' /\ Recorded'
      /\ \A d \in All \ {c} : (Placed(d) /\ Holds(d) /\ Launches(d) /\ Restarts(d)
                                 /\ Stops(d) /\ Starts(d) /\ Blocked(d))'
  <2>1. req[c].pc \notin Admitting
    BY <1>2 DEF Idle, Admitting
  <2> QED  BY <1>1, <1>4, <1>7, <2>1, RequestMoves DEF Begin, r
<1>9. Types'
  <2>1. DocTypes'
    BY <1>1, PipelinesAssumption DEF Begin, Types, DocTypes, Requests
  <2> QED  BY <1>1, <1>8, <2>1 DEF Begin, Types
<1>10. Arrivals'
  <2>1. \A d \in Requests : d > made' => d > made /\ d # c
    BY <1>1 DEF Begin, Requests
  <2> QED  BY <1>1, <1>8, <2>1 DEF Begin, Arrivals, All
<1>11. ASSUME NEW d \in All PROVE Quiet(d)'
  <2>1. c \notin quiet
    BY <1>1, <1>2 DEF IInv, Quiet, Idle
  <2> QED  BY <1>8, <2>1, QuietKept DEF Begin, supVars
<1> QED  BY <1>1, <1>7, <1>8, <1>9, <1>10, <1>11, Whole

\* The autostart takes its next pipeline or model.
LEMMA BootNextStep ==
    ASSUME IInv, BootNext
    PROVE  IInv'
<1>1. /\ Types /\ Arrivals /\ Boot \in All /\ req[Boot].pc = "idle"
      /\ booted \in Nat /\ booted < Len(BootJobs)
  BY PipelinesAssumption DEF IInv, Types, DocTypes, BootNext, At, All
<1>2. PICK job \in Pipes \cup Models : job = BootJobs[booted + 1]
  BY <1>1, PipelinesAssumption
<1>3. PICK kind \in AllKinds, new \in Layouts \cup {<<>>} :
          /\ Serve(Boot, Asked(kind, job, new))
          /\ kind \in Group \cup Edits => job \in Pipes
          /\ kind \in ModelKinds \cup {"launch"} => job \in Models
  BY <1>2 DEF BootNext, AllKinds, Group, Edits, ModelKinds
<1> DEFINE r == Asked(kind, job, new)
<1>4. Serve(Boot, r)
  BY <1>3
<1>5. req'[Boot] = r
  BY <1>1, <1>4 DEF Serve, Types
<1>6. /\ r \in ReqType /\ r.pc \notin {"write", "idle"} \cup Admitting
      /\ Placed(Boot)' /\ Holds(Boot)' /\ Launches(Boot)' /\ Restarts(Boot)' /\ Stops(Boot)'
      /\ Starts(Boot)' /\ Blocked(Boot)'
  BY <1>2, <1>3, <1>5, Arrive
<1> HIDE DEF r
<1>7. /\ req' \in [All -> ReqType] /\ req'[Boot] = r /\ \A d \in All \ {Boot} : req'[d] = req[d]
      /\ SupTypes' /\ Apart' /\ Minted' /\ FirstGeneration' /\ Recorded'
      /\ \A d \in All \ {Boot} : (Placed(d) /\ Holds(d) /\ Launches(d) /\ Restarts(d)
                                    /\ Stops(d) /\ Starts(d) /\ Blocked(d))'
  BY <1>1, <1>4, <1>6, RequestMoves DEF BootNext, sysVars, docVars, Admitting
<1>8. Types'
  BY <1>1, <1>7 DEF BootNext, sysVars, docVars, Types, DocTypes
<1>9. Arrivals'
  BY <1>1, <1>7, PipelinesAssumption DEF BootNext, sysVars, docVars, Arrivals, All, Requests
<1>10. ASSUME NEW d \in All PROVE Quiet(d)'
  <2>1. Boot \notin quiet
    BY <1>1 DEF IInv, Quiet
  <2> QED  BY <1>7, <2>1, QuietKept DEF BootNext, supVars, sysVars, docVars
<1> QED  BY <1>1, <1>6, <1>7, <1>8, <1>9, <1>10, Whole

-----------------------------------------------------------------------------
(* Group requests, and what moves a request alone                          *)

\* The mutex taken excludes other group requests, and unsettles edits.
LEMMA LockStep ==
    ASSUME IInv, NEW c \in All, Lock(c)
    PROVE  IInv'
<1> DEFINE p == Arg(c)
<1>1. /\ Types /\ Arrivals /\ Placed(c) /\ Blocked(c) /\ req[c] \in ReqType
      /\ req[c].pc = "lock" /\ req[c].kind \in Group /\ p \in Pipes /\ req[c].idx = 1
  BY DEF IInv, Types, Lock, At, Arg, Placed, Launching
<1>2. PICK r \in ReqType :
         /\ Serve(c, r)
         /\ r.kind = req[c].kind /\ r.arg = req[c].arg /\ r.idx = 1
         /\ r.blockers = req[c].blockers
         /\ \/ r.pc = "reply" /\ r.failed
            \/ /\ r.snap \in Layouts /\ r.failed = req[c].failed
               /\ r.pc = IF r.kind \in {"start", "autostart"} THEN "start" ELSE "list"
  <2>1. CASE pipes[p] = <<>>
    <3>1. [req[c] EXCEPT !.pc = "reply", !.failed = TRUE] \in ReqType
      BY <1>1 DEF ReqType, PCs
    <3> QED  BY <1>1, <2>1, <3>1 DEF Lock, Answer, ReqType
  <2>2. CASE pipes[p] # <<>>
    <3>1. pipes[p] \in Layouts
      BY <1>1, <2>2 DEF Types, DocTypes
    <3> DEFINE pc == IF req[c].kind \in {"start", "autostart"} THEN "start" ELSE "list"
    <3>2. pipes[p] \in Snaps /\ pc \in PCs
      BY <3>1 DEF Snaps, PCs
    <3>3. Serve(c, [req[c] EXCEPT !.snap = pipes[p], !.pc = pc])
      BY <2>2 DEF Lock
    <3>4. pc = IF req[c].kind \in {"start", "autostart"} THEN "start" ELSE "list"
      OBVIOUS
    <3> HIDE DEF pc, p
    <3>5. [req[c] EXCEPT !.snap = pipes[p], !.pc = pc] \in ReqType
      BY <1>1, <3>2 DEF ReqType
    <3> QED  BY ZenonT(40), <1>1, <3>1, <3>3, <3>4, <3>5 DEF ReqType
  <2> QED  BY <2>1, <2>2
<1>3. /\ mutex[p] = No /\ mutex' = [mutex EXCEPT ![p] = c] /\ mutex \in [Pipes -> All \cup {No}]
      /\ UNCHANGED <<supVars, pipes, booted, made, draining, faults>>
      /\ quiet' = {d \in quiet : Arg(d) # p}
  BY <1>1 DEF Lock, Types, DocTypes, Overlaps
<1> HIDE DEF p
<1>4. /\ req' \in [All -> ReqType] /\ req'[c] = r /\ \A d \in All \ {c} : req'[d] = req[d]
      /\ SupTypes' /\ Apart' /\ Minted' /\ FirstGeneration' /\ Recorded'
      /\ \A d \in All \ {c} : (Placed(d) /\ Holds(d) /\ Launches(d) /\ Restarts(d)
                                 /\ Stops(d) /\ Starts(d) /\ Blocked(d))'
  <2>1. req[c].pc \notin Admitting /\ r.pc \notin Admitting
    BY <1>1, <1>2 DEF Admitting
  <2>2. \A q \in Pipes : mutex[q] \in All \ {c} => mutex'[q] = mutex[q]
    BY <1>3, PipelinesAssumption DEF All, Requests
  <2> QED  BY <1>2, <1>3, <2>1, <2>2, RequestMoves
<1>5. Types'
  <2>1. DocTypes'
    BY <1>1, <1>3 DEF Types, DocTypes
  <2> QED  BY <1>1, <1>3, <1>4, <2>1 DEF Types
<1>6. Arrivals'
  BY <1>1, <1>3, <1>4, ArrivalsKept
<1>7. Placed(c)'
  <2>1. \A s \in Layouts : 1 \in DOMAIN s
    BY LayoutDomain
  <2> QED  BY <1>1, <1>2, <1>4, <2>1 DEF Placed, Group, Edits, ModelKinds, Launching, Stopping,
              Restarting
<1>8. Holds(c)' /\ Launches(c)' /\ Restarts(c)' /\ Stops(c)' /\ Starts(c)'
  BY <1>1, <1>2, <1>3, <1>4 DEF Holds, Launches, Restarts, Stops, Starts, Admitting, Restarting,
     Stopping, Launching, p, Arg
<1>9. Blocked(c)'
  BY <1>1, <1>2, <1>3, <1>4 DEF Blocked, supVars
<1>10. ASSUME NEW d \in All PROVE Quiet(d)'
  <2>1. d \in quiet' => d \in quiet /\ req[d].arg # p /\ req[d].pc = "write" /\ req[d].arg \in Pipes
    BY <1>3 DEF IInv, Quiet, Placed, Arg, Edits
  <2>2. d \in quiet' => mutex'[req[d].arg] = mutex[req[d].arg]
    BY <1>3, <2>1
  <2> QED  BY <1>1, <1>3, <1>4, <2>1, <2>2, QuietKept DEF supVars
<1> QED  BY <1>4, <1>5, <1>6, <1>7, <1>8, <1>9, <1>10, Whole

\* A step of c that moves only its request, with c still in service.
LEMMA OnlyMoves ==
    ASSUME IInv, NEW c \in All, NEW r \in ReqType, Serve(c, r), UNCHANGED <<supVars, sysVars>>,
           req[c].pc \notin {"idle", "write"} \cup Admitting, r.pc \notin Admitting,
           r.kind = req[c].kind, r.arg = req[c].arg, r.blockers = req[c].blockers,
           r.kind = "restart" => r.failed \/ ~req[c].failed,
           Placed(c)', Restarts(c)', Stops(c)', Starts(c)',
           r.pc # "lock" => req[c].pc # "lock"
    PROVE  IInv'
<1>1. Types /\ Arrivals /\ Holds(c) /\ Blocked(c) /\ Placed(c)
  BY DEF IInv
<1>2. /\ req' \in [All -> ReqType] /\ req'[c] = r /\ \A d \in All \ {c} : req'[d] = req[d]
      /\ SupTypes' /\ Apart' /\ Minted' /\ FirstGeneration' /\ Recorded'
      /\ \A d \in All \ {c} : (Placed(d) /\ Holds(d) /\ Launches(d) /\ Restarts(d)
                                 /\ Stops(d) /\ Starts(d) /\ Blocked(d))'
  BY RequestMoves DEF sysVars, docVars
<1>3. Types'
  <2>1. DocTypes'
    BY <1>1 DEF Types, DocTypes, sysVars, docVars
  <2> QED  BY <1>1, <1>2, <2>1 DEF Types, sysVars
<1>4. Arrivals'
  BY <1>2, ArrivalsKept DEF sysVars, docVars
<1>5. Holds(c)' /\ Launches(c)'
  BY <1>1, <1>2 DEF Holds, Launches, sysVars, docVars
<1>6. Blocked(c)'
  BY <1>1, <1>2 DEF Blocked, supVars
<1>7. ASSUME NEW d \in All PROVE Quiet(d)'
  <2>1. c \notin quiet
    BY DEF IInv, Quiet
  <2> QED  BY <1>2, <2>1, QuietKept DEF supVars, sysVars, docVars
<1> QED  BY <1>2, <1>3, <1>4, <1>5, <1>6, <1>7, Whole

\* The targets taken from the registry leave out no process of the group.
LEMMA GroupTargetsStep ==
    ASSUME IInv, NEW c \in All, GroupTargets(c)
    PROVE  IInv'
<1>1. /\ Types /\ Placed(c) /\ Holds(c) /\ req[c] \in ReqType
      /\ req[c].pc = "list" /\ req[c].kind \in {"stop", "restart"} /\ req[c].arg \in Pipes
      /\ req[c].snap \in Layouts /\ mutex[req[c].arg] = c /\ req[c].idx = 1
  BY DEF IInv, Types, GroupTargets, At, Placed, Holds, Group, Edits, ModelKinds, Launching
<1> DEFINE t == [k \in DOMAIN req[c].snap |->
                   {i \in ActiveOwned(req[c].arg) : owner[i].entry = req[c].snap[k].id}]
<1>2. t \in Seq(SUBSET Instances)
  <2>1. DOMAIN req[c].snap = 1..Len(req[c].snap) /\ Len(req[c].snap) \in Nat
    BY <1>1, LayoutDomain
  <2>2. t \in [1..Len(req[c].snap) -> SUBSET Instances]
    BY <2>1 DEF ActiveOwned
  <2> HIDE DEF t
  <2> QED  BY <2>1, <2>2
<1>3. PICK r \in ReqType : /\ Serve(c, r) /\ r = [req[c] EXCEPT !.pc = "stop", !.targets = t]
  <2> HIDE DEF t
  <2>1. [req[c] EXCEPT !.pc = "stop", !.targets = t] \in ReqType
    BY <1>1, <1>2 DEF ReqType, PCs
  <2> QED  BY <2>1 DEF GroupTargets, t, Arg
<1>4. /\ r.kind = req[c].kind /\ r.arg = req[c].arg /\ r.snap = req[c].snap /\ r.idx = 1
      /\ r.pc = "stop" /\ r.targets = t /\ r.blockers = req[c].blockers
      /\ r.failed = req[c].failed
  <2> HIDE DEF t
  <2> QED  BY <1>1, <1>3 DEF ReqType
<1>5. req'[c] = r
  BY <1>1, <1>3, Served
<1>6. UNCHANGED supVars /\ owner' = owner /\ state' = state /\ restarted' = restarted
  BY DEF GroupTargets, supVars
<1>7. \A i \in Instances \ restarted : Owned(c, i) /\ state[i] \in InFlight =>
          i \in ActiveOwned(req[c].arg)
  <2> SUFFICES ASSUME NEW i \in Instances \ restarted, Owned(c, i), state[i] \in InFlight,
                      durable[i] \notin InFlight
               PROVE  FALSE
    BY DEF ActiveOwned, Owned
  <2>1. PICK d \in All : req[d].pc = "record" /\ req[d].cur = i
    BY DEF IInv, Recorded
  <2>2. Launches(d) /\ Holds(d)
    BY DEF IInv
  <2>3. owner[i].pipe = IF req[d].kind \in Group THEN req[d].arg ELSE No
    BY <2>1, <2>2 DEF Launches, Admitting, OwnerFor, Arg
  <2>4. req[d].kind \in Group /\ req[d].arg = req[c].arg
    BY <1>1, <2>3, PipelinesAssumption DEF Owned
  <2> QED  BY <1>1, <2>1, <2>2, <2>4 DEF Holds
<1>8. Stops(c)'
  <2>1. \A i \in Instances \ restarted : Owned(c, i) /\ state[i] \in InFlight =>
            \E k \in DOMAIN t : i \in t[k]
    BY <1>7 DEF Owned, Ids
  <2> HIDE DEF t
  <2> QED  BY <1>1, <1>4, <1>5, <1>6, <2>1 DEF Stops, Owned
<1> HIDE DEF t
<1>9. Placed(c)'
  BY <1>1, <1>4, <1>5 DEF Placed, Group, Edits, ModelKinds, Launching, Stopping, Restarting
<1>10. Restarts(c)' /\ Starts(c)'
  BY <1>4, <1>5 DEF Restarts, Starts, Restarting, Launching
<1> QED  BY <1>1, <1>3, <1>4, <1>8, <1>9, <1>10, OnlyMoves DEF GroupTargets, Admitting

\* A group whose stops are done answers, or starts its entries again.
LEMMA StopsDoneStep ==
    ASSUME IInv, NEW c \in All, StopsDone(c)
    PROVE  IInv'
<1>1. /\ Types /\ Placed(c) /\ Stops(c) /\ req[c] \in ReqType
      /\ req[c].pc = "stop" /\ req[c].idx = 1
  BY DEF IInv, Types, StopsDone, At, Placed, Launching
<1>2. PICK r \in ReqType :
         /\ Serve(c, r)
         /\ r.kind = req[c].kind /\ r.arg = req[c].arg /\ r.snap = req[c].snap /\ r.idx = 1
         /\ r.failed = req[c].failed /\ r.blockers = req[c].blockers
         /\ r.pc = IF r.kind = "restart" THEN "start" ELSE "reply"
  <2>1. /\ [req[c] EXCEPT !.pc = "start"] \in ReqType
        /\ [req[c] EXCEPT !.pc = "reply", !.failed = req[c].failed] \in ReqType
    BY ZenonT(40), <1>1 DEF ReqType, PCs
  <2> QED  BY ZenonT(40), <1>1, <2>1 DEF StopsDone, Goto, Answer, ReqType
<1>3. req'[c] = r
  BY <1>1, <1>2, Served
<1>4. UNCHANGED supVars /\ owner' = owner /\ state' = state /\ restarted' = restarted
  BY DEF StopsDone, supVars
<1>5. \A k \in DOMAIN req[c].targets : req[c].targets[k] = {}
  BY DEF StopsDone, Unfinished
<1>6. req[c].kind \in {"stop", "restart"} /\ ~req[c].failed =>
          \A i \in Instances \ restarted : Owned(c, i) => state[i] \notin InFlight
  BY <1>1, <1>5 DEF Stops, Stopping
<1>7. Stops(c)'
  BY <1>2, <1>3, <1>4, <1>6 DEF Stops, Owned, Stopping
<1>8. Starts(c)'
  BY <1>2, <1>3, <1>4, <1>6 DEF Starts, Coming, Owned, Ids
<1>9. Placed(c)'
  <2>1. \A s \in Layouts : 1 \in DOMAIN s
    BY LayoutDomain
  <2> QED  BY <1>1, <1>2, <1>3, <2>1 DEF Placed, Group, Edits, ModelKinds, Launching, Stopping,
              Restarting
<1>10. Restarts(c)'
  BY <1>2, <1>3 DEF Restarts, Restarting
<1> QED  BY <1>1, <1>2, <1>7, <1>8, <1>9, <1>10, OnlyMoves DEF StopsDone, Admitting

\* A model restart answers when its targets are done.
LEMMA RestartsDoneStep ==
    ASSUME IInv, NEW c \in All, RestartsDone(c)
    PROVE  IInv'
<1>1. /\ Types /\ Placed(c) /\ req[c] \in ReqType
      /\ req[c].pc = "radmit" /\ req[c].kind \in {"model-restart", "instance-restart"}
  BY DEF IInv, Types, RestartsDone, At, Placed
<1>2. PICK r \in ReqType :
         /\ Serve(c, r)
         /\ r.kind = req[c].kind /\ r.arg = req[c].arg /\ r.blockers = req[c].blockers
         /\ r.pc = "reply" /\ r.failed = FALSE
  <2>1. [req[c] EXCEPT !.pc = "reply", !.failed = FALSE] \in ReqType
    BY <1>1 DEF ReqType, PCs
  <2> QED  BY <1>1, <2>1 DEF RestartsDone, Answer, ReqType
<1>3. req'[c] = r
  BY <1>1, <1>2, Served
<1>4. Placed(c)' /\ Restarts(c)' /\ Stops(c)' /\ Starts(c)'
  BY <1>1, <1>2, <1>3 DEF Placed, Restarts, Stops, Starts, Group, Edits, ModelKinds, Launching,
     Stopping, Restarting
<1> QED  BY <1>1, <1>2, <1>4, OnlyMoves DEF RestartsDone, Admitting

-----------------------------------------------------------------------------
(* The model handlers                                                      *)

\* A model request takes its targets from the registry.
LEMMA ModelDecidesStep ==
    ASSUME IInv, NEW c \in All, ModelDecides(c)
    PROVE  IInv'
<1>1. /\ Types /\ Placed(c) /\ req[c] \in ReqType
      /\ req[c].pc = "list" /\ req[c].kind \in ModelKinds /\ req[c].arg \in Models
      /\ req[c].idx = 1
  BY DEF IInv, Types, ModelDecides, At, Placed, Group, ModelKinds, Launching
<1> DEFINE m == Arg(c)
           fl == {i \in Instances : owner[i].model = m /\ state[i] \in InFlight}
           yes == [req[c] EXCEPT !.pc = "reply", !.failed = TRUE]
           no == [req[c] EXCEPT !.pc = "reply", !.failed = FALSE]
           launch == [req[c] EXCEPT !.pc = "start", !.snap = Manual(m)]
           stop == [req[c] EXCEPT !.pc = "stop", !.targets = <<fl>>]
           restart == [req[c] EXCEPT !.pc = "radmit", !.targets = <<fl>>]
<1>2. \/ Serve(c, yes) \/ Serve(c, no)
      \/ Serve(c, launch) /\ req[c].kind \in {"model-start", "automodel"}
      \/ Serve(c, stop) /\ req[c].kind = "model-stop"
      \/ Serve(c, restart) /\ req[c].kind = "model-restart"
  <2>1. CASE req[c].kind = "model-start"
    BY <2>1 DEF ModelDecides, Answer
  <2>2. CASE req[c].kind = "automodel"
    BY <2>2 DEF ModelDecides, Answer
  <2>3. CASE req[c].kind = "model-stop"
    BY <2>3 DEF ModelDecides, Answer
  <2>4. CASE req[c].kind = "model-restart"
    BY <2>4 DEF ModelDecides, Answer
  <2> QED  BY <1>1, <2>1, <2>2, <2>3, <2>4 DEF ModelKinds
<1>3. Manual(m) \in Snaps /\ <<fl>> \in Seq(SUBSET Instances)
  <2>1. m \in Models /\ fl \in SUBSET Instances
    BY <1>1 DEF Arg
  <2> HIDE DEF m, fl
  <2>2. Manual(m) \in Snaps
    BY <2>1 DEF Snaps
  <2> DEFINE S == SUBSET Instances
  <2>3. <<fl>> \in Seq(S)
    <3>1. fl \in S
      BY <2>1
    <3> HIDE DEF S
    <3> QED  BY <3>1
  <2> QED  BY <2>2, <2>3
<1>4. Manual(m) = <<[id |-> No, model |-> m]>>
  BY DEF Manual
<1> HIDE DEF m, fl
<1>5. PICK r \in ReqType :
         /\ Serve(c, r)
         /\ r.kind = req[c].kind /\ r.arg = req[c].arg /\ r.idx = 1
         /\ r.blockers = req[c].blockers
         /\ \/ r.pc = "reply"
            \/ /\ r.pc = "start" /\ r.snap = Manual(m)
               /\ r.kind \in {"model-start", "automodel"}
            \/ r.pc = "stop" /\ r.kind = "model-stop"
            \/ r.pc = "radmit" /\ r.kind = "model-restart"
  <2>1. /\ yes \in ReqType /\ no \in ReqType /\ launch \in ReqType /\ stop \in ReqType
        /\ restart \in ReqType
    BY ZenonT(40), <1>1, <1>3 DEF ReqType, PCs
  <2>2. CASE Serve(c, yes)
    BY ZenonT(40), <1>1, <2>1, <2>2 DEF ReqType
  <2>3. CASE Serve(c, no)
    BY ZenonT(40), <1>1, <2>1, <2>3 DEF ReqType
  <2>4. CASE Serve(c, launch) /\ req[c].kind \in {"model-start", "automodel"}
    BY <1>1, <2>1, <2>4 DEF ReqType
  <2>5. CASE Serve(c, stop) /\ req[c].kind = "model-stop"
    BY <1>1, <2>1, <2>5 DEF ReqType
  <2>6. CASE Serve(c, restart) /\ req[c].kind = "model-restart"
    BY <1>1, <2>1, <2>6 DEF ReqType
  <2> QED  BY <1>2, <2>2, <2>3, <2>4, <2>5, <2>6
<1>6. req'[c] = r
  BY <1>1, <1>5, Served
<1>7. 1 \in DOMAIN Manual(m)
  BY <1>4
<1>8. Placed(c)'
  BY <1>1, <1>5, <1>6, <1>7 DEF Placed, Group, Edits, ModelKinds, Launching, Stopping, Restarting
<1>9. Restarts(c)' /\ Stops(c)' /\ Starts(c)'
  BY <1>1, <1>5, <1>6 DEF Restarts, Stops, Starts, Restarting, ModelKinds
<1> QED  BY <1>1, <1>5, <1>8, <1>9, OnlyMoves DEF ModelDecides, Admitting, ModelKinds

-----------------------------------------------------------------------------
(* Updates and deletions                                                   *)

\* The check of an edit sees that no process is in flight, in the records.
LEMMA EditCheckStep ==
    ASSUME IInv, NEW c \in All, EditCheck(c)
    PROVE  IInv'
<1> DEFINE p == Arg(c)
<1>1. /\ Types /\ Placed(c) /\ Blocked(c) /\ Quiet(c) /\ req[c] \in ReqType
      /\ req[c].pc = "check" /\ req[c].kind \in Edits /\ p \in Pipes /\ req[c].idx = 1
  BY DEF IInv, Types, EditCheck, At, Arg, Placed, Launching
<1>2. PICK r \in ReqType :
         /\ Serve(c, r)
         /\ r.kind = req[c].kind /\ r.arg = req[c].arg /\ r.idx = 1 /\ r.new = req[c].new
         /\ r.blockers = req[c].blockers
         /\ \/ r.pc = "reply" /\ UNCHANGED quiet
            \/ /\ r.pc = "write"
               /\ ~(Structural(p, req[c].new) /\ ActiveOwned(p) # {})
               /\ quiet' = IF mutex[p] = No /\ \A i \in Instances :
                                   owner[i].pipe = p => op[i] = "none"
                           THEN quiet \cup {c} ELSE quiet
  <2>1. /\ [req[c] EXCEPT !.pc = "write"] \in ReqType
        /\ [req[c] EXCEPT !.pc = "reply", !.failed = TRUE] \in ReqType
    BY ZenonT(40), <1>1 DEF ReqType, PCs
  <2>2. CASE Serve(c, [req[c] EXCEPT !.pc = "reply", !.failed = TRUE]) /\ UNCHANGED quiet
    BY <1>1, <2>1, <2>2, ZenonT(100) DEF ReqType
  <2>3. CASE /\ Serve(c, [req[c] EXCEPT !.pc = "write"])
             /\ ~(Structural(p, req[c].new) /\ ActiveOwned(p) # {})
             /\ quiet' = IF mutex[p] = No /\ \A i \in Instances :
                                 owner[i].pipe = p => op[i] = "none"
                         THEN quiet \cup {c} ELSE quiet
    BY <1>1, <2>1, <2>3 DEF ReqType
  <2> QED  BY <2>2, <2>3 DEF EditCheck, Goto, Answer
<1>3. UNCHANGED <<supVars, pipes, mutex, booted, made, draining, faults>>
  BY DEF EditCheck
<1>4. /\ req' \in [All -> ReqType] /\ req'[c] = r /\ \A d \in All \ {c} : req'[d] = req[d]
      /\ SupTypes' /\ Apart' /\ Minted' /\ FirstGeneration' /\ Recorded'
      /\ \A d \in All \ {c} : (Placed(d) /\ Holds(d) /\ Launches(d) /\ Restarts(d)
                                 /\ Stops(d) /\ Starts(d) /\ Blocked(d))'
  BY <1>1, <1>2, <1>3, RequestMoves DEF Admitting
<1>5. ASSUME NEW i \in Instances \ restarted, mutex[p] = No, owner[i].pipe = p,
             op[i] = "none", state[i] \in InFlight
      PROVE  i \in ActiveOwned(p)
  <2> SUFFICES ASSUME durable[i] \notin InFlight PROVE FALSE
    BY <1>5 DEF ActiveOwned
  <2>1. PICK d \in All : req[d].pc = "record" /\ req[d].cur = i
    BY <1>5 DEF IInv, Recorded
  <2>2. Launches(d) /\ Holds(d)
    BY DEF IInv
  <2>3. owner[i].pipe = IF req[d].kind \in Group THEN req[d].arg ELSE No
    BY <2>1, <2>2 DEF Launches, Admitting, OwnerFor, Arg
  <2>4. req[d].kind \in Group /\ req[d].arg = p
    BY <1>1, <1>5, <2>3, PipelinesAssumption
  <2> QED  BY <1>5, <2>1, <2>2, <2>4, PipelinesAssumption DEF Holds, All, Requests
<1>6. ASSUME c \in quiet'
      PROVE  c \in quiet \/ (r.pc = "write" /\ mutex[p] = No
                /\ \/ IdSeq(req[c].new) = IdSeq(pipes[p])
                   \/ \A i \in Instances \ restarted :
                         owner[i].pipe = p => state[i] \notin InFlight)
  BY <1>2, <1>5, <1>6 DEF Structural
<1>7. Quiet(c)'
  <2>1. c \notin quiet
    BY <1>1 DEF Quiet
  <2> QED  BY <1>1, <1>2, <1>3, <1>4, <1>6, <2>1 DEF Quiet, supVars, Arg
<1> HIDE DEF p
<1>8. Types'
  <2>1. quiet' \subseteq quiet \cup {c}
    BY <1>2
  <2>2. DocTypes'
    BY <1>1, <1>3, <2>1 DEF Types, DocTypes
  <2> QED  BY <1>1, <1>3, <1>4, <2>2 DEF Types
<1>9. Arrivals'
  BY <1>1, <1>3, <1>4, ArrivalsKept
<1>10. /\ Placed(c)' /\ Holds(c)' /\ Launches(c)' /\ Restarts(c)' /\ Stops(c)' /\ Starts(c)'
       /\ Blocked(c)'
  <2>1. Placed(c)'
    BY <1>1, <1>2, <1>4 DEF Placed, Group, Edits, ModelKinds, Launching, Stopping, Restarting
  <2>2. Holds(c)' /\ Launches(c)' /\ Restarts(c)' /\ Stops(c)' /\ Starts(c)'
    BY <1>1, <1>2, <1>4 DEF Holds, Launches, Restarts, Stops, Starts, Admitting, Restarting,
       Group, Edits
  <2>3. Blocked(c)'
    BY <1>1, <1>2, <1>3, <1>4 DEF Blocked, supVars, Edits
  <2> QED  BY <2>1, <2>2, <2>3
<1>11. ASSUME NEW d \in All PROVE Quiet(d)'
  <2>1. CASE d = c
    BY <1>7, <2>1
  <2>2. CASE d # c
    <3>1. d \in quiet' => d \in quiet
      BY <1>2, <2>2
    <3> QED  BY <1>3, <1>4, <2>2, <3>1, QuietKept DEF supVars
  <2> QED  BY <2>1, <2>2
<1> QED  BY <1>4, <1>8, <1>9, <1>10, <1>11, Whole

\* The write of an edit unsettles every other edit of the pipeline.
LEMMA EditWriteStep ==
    ASSUME IInv, NEW c \in All, EditWrite(c)
    PROVE  IInv'
<1> DEFINE p == Arg(c)
<1>1. /\ Types /\ Placed(c) /\ Blocked(c) /\ req[c] \in ReqType
      /\ req[c].pc = "write" /\ req[c].kind \in Edits /\ p \in Pipes
      /\ req[c].new \in Layouts \cup {<<>>}
  BY DEF IInv, Types, EditWrite, At, Arg, Placed, ReqType
<1>2. PICK r \in ReqType :
         /\ Serve(c, r)
         /\ r.kind = req[c].kind /\ r.arg = req[c].arg /\ r.blockers = req[c].blockers
         /\ r.pc = "reply"
         /\ \/ /\ pipes' = [pipes EXCEPT ![p] = req[c].new]
               /\ quiet' = {d \in quiet : Arg(d) # p}
            \/ quiet' = quiet \ {c} /\ UNCHANGED pipes
  <2>1. \A f \in BOOLEAN : [req[c] EXCEPT !.pc = "reply", !.failed = f] \in ReqType
    BY <1>1 DEF ReqType, PCs
  <2>2. CASE /\ Serve(c, [req[c] EXCEPT !.pc = "reply", !.failed = FALSE])
             /\ pipes' = [pipes EXCEPT ![p] = req[c].new]
             /\ quiet' = {d \in quiet : Arg(d) # p}
    BY <1>1, <2>1, <2>2 DEF ReqType
  <2>3. CASE /\ Serve(c, [req[c] EXCEPT !.pc = "reply", !.failed = TRUE])
             /\ quiet' = quiet \ {c} /\ UNCHANGED pipes
    BY <1>1, <2>1, <2>3 DEF ReqType
  <2> QED  BY <2>2, <2>3 DEF EditWrite, Answer, Overlaps
<1>3. UNCHANGED <<supVars, mutex, booted, made, draining>>
  BY DEF EditWrite
<1>4. /\ req' \in [All -> ReqType] /\ req'[c] = r /\ \A d \in All \ {c} : req'[d] = req[d]
      /\ SupTypes' /\ Apart' /\ Minted' /\ FirstGeneration' /\ Recorded'
      /\ \A d \in All \ {c} : (Placed(d) /\ Holds(d) /\ Launches(d) /\ Restarts(d)
                                 /\ Stops(d) /\ Starts(d) /\ Blocked(d))'
  BY <1>1, <1>2, <1>3, RequestMoves DEF Admitting
<1>5. faults' \in 0..MaxFaults
  BY <1>1, FaultCounts DEF EditWrite, FaultUnless
<1>6. c \notin quiet' /\ quiet' \subseteq quiet
  BY <1>2
<1>7. ASSUME NEW d \in All PROVE Quiet(d)'
  <2>1. d \in quiet' => d \in quiet /\ d # c
    BY <1>6
  <2>2. d \in quiet => req[d].arg \in Pipes
    BY DEF IInv, Quiet, Placed, Edits
  <2>3. pipes \in [Pipes -> Layouts \cup {<<>>}]
    BY <1>1 DEF Types, DocTypes
  <2>4. d \in quiet' => pipes'[req[d].arg] = pipes[req[d].arg]
    BY <1>2, <2>1, <2>2, <2>3 DEF Arg
  <2> QED  BY <2>4, <1>3, <1>4, <2>1, QuietKept DEF supVars
<1> HIDE DEF p
<1>8. Types'
  <2>1. pipes' \in [Pipes -> Layouts \cup {<<>>}]
    BY <1>1, <1>2 DEF Types, DocTypes
  <2>2. DocTypes'
    BY <1>1, <1>3, <1>6, <2>1 DEF Types, DocTypes
  <2> QED  BY <1>4, <1>5, <2>2 DEF Types
<1>9. Arrivals'
  BY <1>1, <1>3, <1>4, ArrivalsKept
<1>10. Placed(c)'
  BY <1>1, <1>2, <1>4 DEF Placed, Group, Edits, ModelKinds, Launching, Stopping, Restarting
<1>11. Holds(c)' /\ Launches(c)' /\ Restarts(c)' /\ Stops(c)' /\ Starts(c)'
  BY <1>1, <1>2, <1>4 DEF Holds, Launches, Restarts, Stops, Starts, Admitting, Restarting,
     Group, Edits
<1>12. Blocked(c)'
  BY <1>1, <1>2, <1>3, <1>4 DEF Blocked, supVars, Edits
<1> QED  BY <1>4, <1>7, <1>8, <1>9, <1>10, <1>11, <1>12, Whole

-----------------------------------------------------------------------------
(* Launches                                                                *)

\* The entries of a snapshot are numbered from 1.
LEMMA SnapDomain ==
    ASSUME NEW s \in Snaps
    PROVE  Len(s) \in Nat /\ DOMAIN s = 1..Len(s)
<1>1. CASE s \in Layouts
  BY <1>1, LayoutDomain
<1>2. CASE s = <<>>
  BY <1>2
<1>3. CASE \E m \in Models : s = Manual(m)
  BY <1>3 DEF Manual
<1>4. s \in Layouts \/ s = <<>> \/ \E m \in Models : s = Manual(m)
  BY DEF Snaps
<1> QED  BY <1>1, <1>2, <1>3, <1>4

\* What the end of an entry makes of the request.
LEMMA EntryMoves ==
    ASSUME Types, NEW c \in All, NEW out, NEW bl \in SUBSET Instances,
           req[c].idx \in DOMAIN req[c].snap, EntryDone(c, out, bl)
    PROVE  \E r \in ReqType :
              /\ Serve(c, r)
              /\ r.kind = req[c].kind /\ r.arg = req[c].arg /\ r.snap = req[c].snap
              /\ r.idx = req[c].idx + 1 /\ r.blockers = req[c].blockers \cup bl
              /\ req[c].failed => r.failed
              /\ r.pc = IF req[c].idx = Len(req[c].snap) THEN "reply" ELSE "start"
              /\ r.pc = "start" => r.idx \in DOMAIN r.snap
<1> DEFINE pc == IF req[c].idx = Len(req[c].snap) THEN "reply" ELSE "start"
           r == [req[c] EXCEPT !.idx = req[c].idx + 1, !.cur = No,
                   !.blockers = req[c].blockers \cup bl, !.failed = Refused(c, out), !.pc = pc]
<1>1. Serve(c, r)
  BY DEF EntryDone
<1>2. /\ req[c] \in ReqType /\ Refused(c, out) \in BOOLEAN /\ pc \in PCs
      /\ req[c].failed => Refused(c, out)
  BY DEF Types, Refused, PCs, ReqType
<1>3. /\ Len(req[c].snap) \in Nat /\ req[c].idx \in 1..Len(req[c].snap)
      /\ DOMAIN req[c].snap = 1..Len(req[c].snap)
  BY <1>2, SnapDomain DEF ReqType
<1>4. pc = "start" => req[c].idx + 1 \in DOMAIN req[c].snap
  BY <1>3
<1>5. pc = IF req[c].idx = Len(req[c].snap) THEN "reply" ELSE "start"
  OBVIOUS
<1> HIDE DEF pc
<1>6. r \in ReqType
  <2> DEFINE ix == req[c].idx + 1
             bs == req[c].blockers \cup bl
             fd == Refused(c, out)
  <2>1. ix \in Nat /\ bs \in SUBSET Instances /\ fd \in BOOLEAN
    BY <1>2, <1>3 DEF ReqType
  <2> HIDE DEF ix, bs, fd
  <2>2. [req[c] EXCEPT !.idx = ix, !.cur = No, !.blockers = bs, !.failed = fd,
                       !.pc = pc] \in ReqType
    BY <1>2, <2>1 DEF ReqType
  <2> QED  BY <2>2 DEF ix, bs, fd
<1>7. /\ r.kind = req[c].kind /\ r.arg = req[c].arg /\ r.snap = req[c].snap
      /\ r.idx = req[c].idx + 1 /\ r.blockers = req[c].blockers \cup bl
      /\ r.failed = Refused(c, out) /\ r.pc = pc
  BY <1>2 DEF ReqType
<1> HIDE DEF r
<1> QED  BY <1>1, <1>2, <1>4, <1>5, <1>6, <1>7

\* The entry at hand is done, its launch, if any, with it.
LEMMA LaunchEnds ==
    ASSUME IInv, NEW c \in All, NEW out, NEW bl \in SUBSET Instances, req[c].pc \in Launching,
           EntryDone(c, out, bl), SupTypes', Fault \/ NoFault,
           UNCHANGED <<owner, late, restarted, docVars>>,
           \A j \in Instances :
               IF req[c].pc \in Admitting /\ j = req[c].cur
               THEN /\ state'[j] \in {"running", "starting", "gone"} /\ op'[j] = "none"
                    /\ state'[j] \in InFlight => durable'[j] \in InFlight
               ELSE state'[j] = state[j] /\ op'[j] = op[j] /\ durable'[j] = durable[j],
           \A i \in bl : state[i] # "none",
           req[c].kind = "restart" /\ ~req[c].failed =>
               \A i \in bl \ restarted : owner[i].pipe # req[c].arg
    PROVE  IInv'
<1>1. /\ Types /\ Arrivals /\ Apart /\ Minted /\ FirstGeneration /\ Recorded
      /\ Placed(c) /\ Holds(c) /\ Launches(c) /\ Stops(c) /\ Starts(c) /\ Blocked(c)
      /\ req[c] \in ReqType
  BY DEF IInv, Types
<1>2. /\ req[c].kind \in {"start", "autostart", "restart", "launch", "model-start", "automodel"}
      /\ req[c].idx \in DOMAIN req[c].snap /\ req[c].idx \in Nat
      /\ req[c].kind \in Group => req[c].arg \in Pipes /\ req[c].snap \in Layouts
      /\ req[c].kind \in ModelKinds => req[c].arg \in Models
  BY <1>1 DEF Placed, Launching, ReqType
<1>3. PICK r \in ReqType :
         /\ Serve(c, r)
         /\ r.kind = req[c].kind /\ r.arg = req[c].arg /\ r.snap = req[c].snap
         /\ r.idx = req[c].idx + 1 /\ r.blockers = req[c].blockers \cup bl
         /\ req[c].failed => r.failed
         /\ r.pc \in {"start", "reply"}
         /\ r.pc = "start" => r.idx \in DOMAIN r.snap
  BY <1>1, <1>2, EntryMoves
<1>4. req' \in [All -> ReqType] /\ req'[c] = r /\ \A d \in All \ {c} : req'[d] = req[d]
  BY <1>1, <1>3, Served
<1>5. /\ \A i \in Instances : state[i] # "none" => state'[i] # "none"
      /\ \A i \in Instances : state'[i] \in InFlight => state[i] \in InFlight
      /\ restarted \subseteq Instances
  BY <1>1 DEF Launches, InFlight, Live, Types, SupTypes
<1>6. UNCHANGED <<pipes, mutex, booted, made, draining, quiet>>
  BY DEF docVars
<1>7. Types'
  <2>1. DocTypes'
    BY <1>1, <1>6 DEF Types, DocTypes
  <2> QED  BY <1>1, <1>4, <2>1, FaultCounts DEF Types
<1>8. Arrivals'
  BY <1>4, <1>6, ArrivalsKept DEF Launching
<1>9. Apart'
  BY <1>1, <1>3, <1>4 DEF Apart, Admitting
<1>10. Minted'
  <2>1. \A i \in Instances : state'[i] = "none" <=> state[i] = "none"
    BY <1>1 DEF Launches
  <2> QED  BY <1>1, <1>5, <2>1 DEF Minted
<1>11. FirstGeneration'
  BY <1>1 DEF FirstGeneration, Launches, Terminal
<1>12. Recorded'
  <2> SUFFICES ASSUME NEW i \in Instances \ restarted, state'[i] \in InFlight,
                      durable'[i] \notin InFlight
               PROVE  \E d \in All : req'[d].pc = "record" /\ req'[d].cur = i
    BY DEF Recorded
  <2>1. ~(req[c].pc \in Admitting /\ i = req[c].cur) /\ state'[i] = state[i]
        /\ durable'[i] = durable[i]
    OBVIOUS
  <2>2. PICK d \in All : req[d].pc = "record" /\ req[d].cur = i
    BY <1>1, <2>1 DEF Recorded
  <2> QED  BY <1>4, <2>1, <2>2 DEF Admitting
<1>13. ASSUME NEW d \in All \ {c}
       PROVE  (Placed(d) /\ Holds(d) /\ Launches(d) /\ Restarts(d) /\ Stops(d) /\ Starts(d)
                 /\ Blocked(d))'
  <2>1. Launches(d)
    BY DEF IInv
  <2>2. req[d].pc \in Admitting =>
            LET i == req[d].cur IN
            /\ state'[i] = state[i] /\ i \notin restarted'
            /\ durable[i] = "pending" => durable'[i] = "pending"
    BY <1>1, <2>1 DEF Launches, Apart
  <2> QED  BY <1>4, <1>5, <1>6, <2>2, OthersKept
<1>14. Placed(c)'
  BY <1>2, <1>3, <1>4 DEF Placed, Group, Edits, ModelKinds, Launching, Stopping, Restarting
<1>15. Holds(c)' /\ Launches(c)' /\ Restarts(c)' /\ Stops(c)'
  BY <1>1, <1>2, <1>3, <1>4, <1>6 DEF Holds, Launches, Restarts, Stops, Admitting, Restarting,
     Stopping, Launching
<1>16. Starts(c)'
  <2> SUFFICES ASSUME req[c].kind = "restart", r.pc = "start", ~req[c].failed,
                      NEW i \in Instances \ restarted, state'[i] \in InFlight,
                      owner[i].pipe = req[c].arg,
                      NEW k \in DOMAIN req[c].snap, k >= req[c].idx + 1,
                      owner[i].entry = req[c].snap[k].id
               PROVE  FALSE
    BY <1>3, <1>4 DEF Starts, Coming, Launching
  <2>1. k >= req[c].idx /\ k # req[c].idx
    BY <1>2, LayoutDomain DEF Group
  <2>2. req[c].pc \in Admitting /\ i = req[c].cur
    BY <1>1, <1>5, <2>1 DEF Starts, Coming
  <2>3. owner[i].entry = req[c].snap[req[c].idx].id
    BY <1>1, <2>2 DEF Launches, OwnerFor
  <2>4. req[c].snap \in Layouts
    BY <1>2 DEF Group
  <2>5. req[c].snap[k].id = req[c].snap[req[c].idx].id
    BY <2>3
  <2>6. k = req[c].idx
    BY <1>2, <2>4, <2>5, EntriesDiffer
  <2> QED  BY <2>1, <2>6
<1>17. Blocked(c)'
  BY <1>1, <1>3, <1>4, <1>5, ZenonT(40) DEF Blocked, ReqType
<1>18. ASSUME NEW d \in All PROVE Quiet(d)'
  <2>1. c \notin quiet
    BY DEF IInv, Quiet, Launching
  <2> QED  BY <1>4, <1>5, <1>6, <2>1, QuietKept
<1> QED  BY <1>7, <1>8, <1>9, <1>10, <1>11, <1>12, <1>13, <1>14, <1>15, <1>16, <1>17, <1>18, Whole

\* What refuses the start phase of a restart is not of its own pipeline.
LEMMA BlockersForeign ==
    ASSUME IInv, NEW c \in All, req[c].pc = "start"
    PROVE  LET bl == Conflicts(OwnerFor(c, req[c].snap[req[c].idx]), No)
           IN  /\ \A i \in bl : i \in Instances /\ state[i] # "none"
               /\ req[c].kind = "restart" /\ ~req[c].failed =>
                      \A i \in bl \ restarted : owner[i].pipe # req[c].arg
<1> DEFINE e == req[c].snap[req[c].idx]
           o == OwnerFor(c, e)
<1>1. Starts(c) /\ Placed(c) /\ FirstGeneration /\ Types
  BY DEF IInv
<1>2. \A i \in Conflicts(o, No) :
         /\ i \in Instances
         /\ state[i] \in InFlight \/ (state[i] \in Terminal /\ op[i] # "none")
         /\ ~Compatible(o, owner[i])
  BY DEF Conflicts
<1>3. \A i \in Conflicts(o, No) : i \in Instances /\ state[i] # "none"
  BY <1>2 DEF InFlight, Live, Terminal
<1>4. ASSUME req[c].kind = "restart", ~req[c].failed,
             NEW i \in Conflicts(o, No), i \notin restarted, owner[i].pipe = req[c].arg
      PROVE  FALSE
  <2>1. state[i] \in InFlight
    BY <1>1, <1>2, <1>4 DEF FirstGeneration, Terminal
  <2>2. req[c].arg \in Pipes /\ req[c].idx \in DOMAIN req[c].snap /\ req[c].idx \in Nat
    BY <1>1, <1>4 DEF Placed, Group, Launching, Types, ReqType
  <2>3. o.pipe = req[c].arg /\ o.pipe # No /\ o.entry = e.id
    BY <1>4, <2>2, PipelinesAssumption DEF OwnerFor, Group, Arg
  <2>4. owner[i].entry = e.id
    BY <1>2, <1>4, <2>3 DEF Compatible
  <2>5. Coming(c, i)
    BY <1>4, <2>2, <2>4 DEF Coming
  <2> QED  BY <1>1, <1>2, <1>4, <2>1, <2>5 DEF Starts, Launching, Admitting
<1> QED  BY <1>3, <1>4

\* A refused entry is done, and its blockers were in conflict with it.
LEMMA AdmitRefused ==
    ASSUME IInv, NEW c \in All, req[c].pc = "start", NEW out, NEW bl \in SUBSET Instances,
           EntryDone(c, out, bl), Fault \/ NoFault, UNCHANGED <<supVars, docVars>>,
           \A i \in bl : i \in Conflicts(OwnerFor(c, req[c].snap[req[c].idx]), No)
    PROVE  IInv'
<1>1. SupTypes'
  BY DEF IInv, Types, SupTypes, supVars
<1>2. req[c].pc \in Launching /\ req[c].pc \notin Admitting
  BY DEF Launching, Admitting
<1>3. \A j \in Instances : state'[j] = state[j] /\ op'[j] = op[j] /\ durable'[j] = durable[j]
  BY DEF supVars
<1> QED  BY <1>1, <1>2, <1>3, BlockersForeign, LaunchEnds DEF supVars

\* An instance is admitted that nobody else can know of.
LEMMA AdmitAccepted ==
    ASSUME IInv, NEW c \in All, req[c].pc = "start", NEW i \in Instances, state[i] = "none",
           state' = [state EXCEPT ![i] = "pending"],
           owner' = [owner EXCEPT ![i] = OwnerFor(c, req[c].snap[req[c].idx])],
           op' = [op EXCEPT ![i] = "launch"],
           Serve(c, [req[c] EXCEPT !.pc = "record", !.cur = i]),
           UNCHANGED <<mu, late, durable, restarted, docVars, faults>>
    PROVE  IInv'
<1> DEFINE e == req[c].snap[req[c].idx]
<1>1. /\ Types /\ Arrivals /\ Apart /\ Minted /\ FirstGeneration /\ Recorded
      /\ Placed(c) /\ Holds(c) /\ Stops(c) /\ Starts(c) /\ Blocked(c)
      /\ req[c] \in ReqType
  BY DEF IInv, Types
<1>2. /\ req[c].kind \in {"start", "autostart", "restart", "launch", "model-start", "automodel"}
      /\ req[c].idx \in DOMAIN req[c].snap
      /\ req[c].kind \in Group => req[c].arg \in Pipes /\ req[c].snap \in Layouts
      /\ req[c].kind \in ModelKinds => req[c].arg \in Models
      /\ req[c].snap \in Snaps
  BY <1>1 DEF Placed, Launching, ReqType
<1>3. PICK r \in ReqType :
         /\ Serve(c, r)
         /\ r.kind = req[c].kind /\ r.arg = req[c].arg /\ r.snap = req[c].snap
         /\ r.idx = req[c].idx /\ r.blockers = req[c].blockers /\ r.failed = req[c].failed
         /\ r.pc = "record" /\ r.cur = i
  <2>1. [req[c] EXCEPT !.pc = "record", !.cur = i] \in ReqType
    BY <1>1 DEF ReqType, PCs
  <2> QED  BY <1>1, <2>1 DEF ReqType
<1>4. req' \in [All -> ReqType] /\ req'[c] = r /\ \A d \in All \ {c} : req'[d] = req[d]
  BY <1>1, <1>3, Served
<1>5. e.model \in Models /\ e.id \in EntryIds
  BY <1>2, Entries
<1>6. /\ OwnerFor(c, e).pipe = IF req[c].kind \in Group THEN req[c].arg ELSE No
      /\ OwnerFor(c, e).entry = e.id
      /\ OwnerFor(c, e) \in OwnerType /\ OwnerFor(c, e) # NoOwner
  BY <1>2, <1>5, PipelinesAssumption DEF OwnerFor, OwnerType, NoOwner, Arg
<1>7. /\ owner'[i] = OwnerFor(c, e) /\ state'[i] = "pending" /\ op'[i] = "launch"
      /\ \A j \in Instances \ {i} : owner'[j] = owner[j] /\ state'[j] = state[j] /\ op'[j] = op[j]
      /\ durable' = durable /\ restarted' = restarted /\ late' = late
      /\ restarted \subseteq Instances
  BY <1>1 DEF Types, SupTypes
<1>8. i \notin restarted /\ i \notin late
  BY <1>1 DEF Minted, FirstGeneration, Terminal
<1>9. UNCHANGED <<pipes, mutex, booted, made, draining, quiet>>
  BY DEF docVars
<1> HIDE DEF e
<1>10. Types'
  <2>1. SupTypes'
    BY <1>1, <1>6 DEF Types, SupTypes, InFlight, e
  <2>2. DocTypes'
    BY <1>1, <1>9 DEF Types, DocTypes
  <2> QED  BY <1>1, <1>4, <2>1, <2>2 DEF Types
<1>11. Arrivals'
  BY <1>4, <1>9, ArrivalsKept
<1>12. Apart'
  <2>1. \A d \in All : req[d].pc \in Admitting => req[d].cur # i
    BY DEF IInv, Launches
  <2> QED  BY <1>1, <1>3, <1>4, <2>1 DEF Apart, Admitting
<1>13. Minted'
  BY <1>1, <1>6, <1>7 DEF Minted
<1>14. FirstGeneration'
  BY <1>1, <1>7, <1>8 DEF FirstGeneration
<1>15. Recorded'
  <2> SUFFICES ASSUME NEW j \in Instances \ restarted, state'[j] \in InFlight,
                      durable[j] \notin InFlight
               PROVE  \E d \in All : req'[d].pc = "record" /\ req'[d].cur = j
    BY <1>7 DEF Recorded
  <2>1. CASE j = i
    BY <1>3, <1>4, <2>1
  <2>2. CASE j # i
    <3>1. PICK d \in All : req[d].pc = "record" /\ req[d].cur = j
      BY <1>1, <1>7, <2>2 DEF Recorded
    <3> QED  BY <1>4, <3>1
  <2> QED  BY <2>1, <2>2
\* The others: a group request on the pipeline of i would hold its mutex.
<1>16. ASSUME NEW d \in All \ {c}, req[d].kind \in Group, req[d].pc # "lock"
       PROVE  owner'[i].pipe # req[d].arg
  <2>1. Holds(d) /\ Placed(d)
    BY DEF IInv
  <2>2. mutex[req[d].arg] = d /\ req[d].arg \in Pipes
    BY <1>16, <2>1 DEF Holds, Placed
  <2> QED  BY <1>1, <1>6, <1>7, <2>2, PipelinesAssumption DEF Holds, e
<1>17. ASSUME NEW d \in All \ {c}
       PROVE  (Placed(d) /\ Holds(d) /\ Launches(d) /\ Restarts(d) /\ Stops(d) /\ Starts(d)
                 /\ Blocked(d))'
  <2>1. /\ Placed(d) /\ Holds(d) /\ Launches(d) /\ Restarts(d) /\ Stops(d) /\ Starts(d)
        /\ Blocked(d) /\ req'[d] = req[d] /\ req[d].blockers \subseteq Instances
    BY <1>1, <1>4 DEF IInv, Types, ReqType
  <2>2. Placed(d)' /\ Holds(d)' /\ Restarts(d)'
    BY <1>7, <1>9, <2>1 DEF Placed, Holds, Restarts, Manual
  <2>3. Launches(d)'
    BY <1>7, <2>1 DEF Launches, OwnerFor, Arg
  <2>0. ASSUME req[d].kind \in Group, req[d].pc # "lock",
               NEW j \in Instances, owner'[j].pipe = req[d].arg
        PROVE  j # i /\ owner'[j] = owner[j] /\ state'[j] = state[j]
    BY <1>7, <1>16, <2>0
  <2>4. Stops(d)'
    <3>1. CASE req[d].kind \in {"stop", "restart"} /\ req[d].pc \in Stopping \cup {"reply"}
      <4>1. req[d].kind \in Group /\ req[d].pc # "lock"
        BY <3>1 DEF Group, Stopping
      <4>2. ASSUME NEW j \in Instances, Owned(d, j)'
            PROVE  Owned(d, j) /\ state'[j] = state[j]
        BY <2>0, <2>1, <4>1, <4>2 DEF Owned
      <4>3. restarted' = restarted /\ req'[d] = req[d] /\ Stops(d)
        BY <1>7, <2>1
      <4> QED  BY <4>2, <4>3 DEF Stops
    <3>2. CASE ~(req[d].kind \in {"stop", "restart"} /\ req[d].pc \in Stopping \cup {"reply"})
      BY <2>1, <3>2 DEF Stops
    <3> QED  BY <3>1, <3>2
  <2>5. Starts(d)'
    <3>1. CASE req[d].kind = "restart" /\ req[d].pc \in Launching
      <4>1. req[d].kind \in Group /\ req[d].pc # "lock"
        BY <3>1 DEF Group, Launching
      <4>2. ASSUME NEW j \in Instances, Coming(d, j)'
            PROVE  Coming(d, j) /\ state'[j] = state[j]
        BY <2>0, <2>1, <4>1, <4>2 DEF Coming
      <4>3. restarted' = restarted /\ req'[d] = req[d] /\ Starts(d)
        BY <1>7, <2>1
      <4> QED  BY <4>2, <4>3 DEF Starts
    <3>2. CASE ~(req[d].kind = "restart" /\ req[d].pc \in Launching)
      BY <2>1, <3>2 DEF Starts
    <3> QED  BY <3>1, <3>2
  <2>6. Blocked(d)'
    BY SMTT(30), <1>7, <2>1 DEF Blocked
  <2> QED  BY <2>2, <2>3, <2>4, <2>5, <2>6
<1>18. Placed(c)'
  BY <1>2, <1>3, <1>4 DEF Placed, Group, Edits, ModelKinds, Launching, Stopping, Restarting
<1>19. Holds(c)' /\ Restarts(c)' /\ Stops(c)'
  BY <1>1, <1>2, <1>3, <1>4, <1>9 DEF Holds, Restarts, Stops, Restarting, Stopping
<1>20. Launches(c)'
  BY <1>3, <1>4, <1>7, <1>8 DEF Launches, OwnerFor, Arg, e
<1>21. Starts(c)'
  BY <1>1, <1>3, <1>4, <1>7 DEF Starts, Coming, Launching, Admitting
<1>22. Blocked(c)'
  BY <1>1, <1>3, <1>4, <1>7 DEF Blocked, ReqType
<1>23. ASSUME NEW d \in All PROVE Quiet(d)'
  <2> SUFFICES ASSUME d \in quiet PROVE Quiet(d)'
    BY <1>9 DEF Quiet
  <2>1. Quiet(d) /\ d # c /\ Placed(d)
    BY DEF IInv, Quiet
  <2>2. req[d].arg \in Pipes /\ mutex[req[d].arg] = No
    BY <2>1 DEF Quiet, Placed, Edits
  <2>3. owner'[i].pipe # req[d].arg
    BY <1>1, <1>6, <1>7, <2>2, PipelinesAssumption DEF Holds, All, Requests, e
  <2> QED  BY <1>4, <1>7, <1>9, <2>1, <2>3 DEF Quiet
<1> QED  BY <1>10, <1>11, <1>12, <1>13, <1>14, <1>15, <1>17, <1>18, <1>19, <1>20, <1>21, <1>22,
            <1>23, Whole

\* startEntry refuses or admits the entry at hand.
LEMMA AdmitStep ==
    ASSUME IInv, NEW c \in All, Admit(c)
    PROVE  IInv'
<1> DEFINE o == OwnerFor(c, req[c].snap[req[c].idx])
<1>1. req[c].pc = "start" /\ UNCHANGED <<mu, late, durable, restarted, docVars>>
  BY DEF Admit, At
<1>2. CASE Fault /\ EntryDone(c, "unresolved", {}) /\ UNCHANGED <<state, owner, op>>
  <2>1. UNCHANGED supVars
    BY <1>1, <1>2 DEF supVars
  <2> QED  BY <1>1, <1>2, <2>1, AdmitRefused
<1>3. CASE /\ NoFault /\ \E r \in Refusals(o, No) : EntryDone(c, r, Conflicts(o, No))
           /\ UNCHANGED <<state, owner, op>>
  <2>1. UNCHANGED supVars
    BY <1>1, <1>3 DEF supVars
  <2>2. PICK r \in {"shutting-down", "already-running", "orphan-skipped"} :
           EntryDone(c, r, Conflicts(o, No))
    BY <1>3 DEF Refusals
  <2>3. PICK bl \in SUBSET Instances : bl = Conflicts(o, No)
    BY DEF Conflicts
  <2> QED  BY <1>1, <1>3, <2>1, <2>2, <2>3, AdmitRefused
<1>4. CASE /\ NoFault /\ Unminted # {}
           /\ LET i == CHOOSE j \in Unminted : TRUE IN
              /\ state' = [state EXCEPT ![i] = "pending"]
              /\ owner' = [owner EXCEPT ![i] = o]
              /\ op' = [op EXCEPT ![i] = "launch"]
              /\ Serve(c, [req[c] EXCEPT !.pc = "record", !.cur = i])
  <2>1. PICK i \in Instances :
           /\ state[i] = "none"
           /\ state' = [state EXCEPT ![i] = "pending"]
           /\ owner' = [owner EXCEPT ![i] = o]
           /\ op' = [op EXCEPT ![i] = "launch"]
           /\ Serve(c, [req[c] EXCEPT !.pc = "record", !.cur = i])
    BY <1>4 DEF Unminted
  <2> QED  BY <1>1, <1>4, <2>1, AdmitAccepted DEF NoFault
<1> QED  BY <1>2, <1>3, <1>4 DEF Admit

\* The admitted instance gets its slot and its record, or is forgotten.
LEMMA RecordStep ==
    ASSUME IInv, NEW c \in All, Record(c)
    PROVE  IInv'
<1>1. /\ Types /\ Arrivals /\ Apart /\ Minted /\ FirstGeneration /\ Recorded
      /\ Placed(c) /\ Holds(c) /\ Launches(c) /\ Stops(c) /\ Starts(c) /\ Blocked(c)
      /\ req[c] \in ReqType /\ req[c].pc = "record"
      /\ UNCHANGED <<owner, mu, late, restarted, docVars>>
  BY DEF IInv, Types, Record, At
<1>2. PICK i \in Instances \ restarted : i = req[c].cur /\ state[i] = "pending"
  BY <1>1 DEF Launches, Admitting
<1>3. CASE /\ NoFault /\ durable' = [durable EXCEPT ![i] = "pending"]
           /\ Goto(c, "spawn") /\ UNCHANGED <<state, op>>
  <2>1. PICK r \in ReqType :
           /\ Serve(c, r)
           /\ r.kind = req[c].kind /\ r.arg = req[c].arg /\ r.snap = req[c].snap
           /\ r.idx = req[c].idx /\ r.blockers = req[c].blockers /\ r.failed = req[c].failed
           /\ r.pc = "spawn" /\ r.cur = i
    <3>1. [req[c] EXCEPT !.pc = "spawn"] \in ReqType
      BY <1>1 DEF ReqType, PCs
    <3> QED  BY <1>1, <1>2, <1>3, <3>1 DEF Goto, ReqType
  <2>2. req' \in [All -> ReqType] /\ req'[c] = r /\ \A d \in All \ {c} : req'[d] = req[d]
    BY <1>1, <2>1, Served
  <2>3. UNCHANGED <<pipes, mutex, booted, made, draining, quiet>> /\ restarted \subseteq Instances
    BY <1>1 DEF docVars, Types, SupTypes
  <2>4. /\ durable'[i] = "pending" /\ \A j \in Instances \ {i} : durable'[j] = durable[j]
    BY <1>1, <1>3 DEF Types, SupTypes
  <2>5. Types'
    <3>1. SupTypes'
      BY <1>1, <1>3 DEF Types, SupTypes, InFlight
    <3>2. DocTypes'
      BY <1>1, <2>3 DEF Types, DocTypes
    <3> QED  BY <1>1, <1>3, <2>2, <3>1, <3>2 DEF Types, NoFault
  <2>6. Arrivals'
    BY <1>1, <2>2, <2>3, ArrivalsKept
  <2>7. Apart'
    BY <1>1, <1>2, <2>1, <2>2 DEF Apart, Admitting
  <2>8. Minted' /\ FirstGeneration'
    BY <1>1, <1>3 DEF Minted, FirstGeneration
  <2>9. Recorded'
    BY <1>1, <1>2, <1>3, <2>2, <2>4 DEF Recorded, InFlight
  <2>10. ASSUME NEW d \in All \ {c}
         PROVE  (Placed(d) /\ Holds(d) /\ Launches(d) /\ Restarts(d) /\ Stops(d) /\ Starts(d)
                   /\ Blocked(d))'
    <3>1. Launches(d)
      BY DEF IInv
    <3>2. req[d].pc \in Admitting =>
              LET j == req[d].cur IN
              /\ state'[j] = state[j] /\ j \notin restarted'
              /\ durable[j] = "pending" => durable'[j] = "pending"
      BY <1>1, <1>3, <2>4, <3>1 DEF Launches
    <3> QED  BY <1>1, <1>3, <2>2, <2>3, <3>2, OthersKept
  <2>11. Placed(c)' /\ Holds(c)' /\ Restarts(c)' /\ Stops(c)'
    <3>1. Placed(c)'
      BY <1>1, <2>1, <2>2 DEF Placed, Launching, Stopping, Restarting
    <3>2. Holds(c)' /\ Restarts(c)' /\ Stops(c)'
      BY <1>1, <2>1, <2>2, <2>3 DEF Holds, Restarts, Stops, Restarting, Stopping
    <3> QED  BY <3>1, <3>2
  <2>12. Launches(c)'
    BY <1>1, <1>2, <1>3, <2>1, <2>2, <2>4 DEF Launches, Admitting, OwnerFor, Arg
  <2>13. Starts(c)'
    BY <1>1, <1>2, <1>3, <2>1, <2>2 DEF Starts, Coming, Launching, Admitting
  <2>14. Blocked(c)'
    BY <1>1, <1>3, <2>1, <2>2 DEF Blocked
  <2>15. ASSUME NEW d \in All PROVE Quiet(d)'
    <3>1. c \notin quiet
      BY <1>1 DEF IInv, Quiet
    <3> QED  BY <1>1, <1>3, <2>2, <2>3, <3>1, QuietKept
  <2> QED  BY <2>5, <2>6, <2>7, <2>8, <2>9, <2>10, <2>11, <2>12, <2>13, <2>14, <2>15, Whole
<1>4. CASE /\ FaultUnless(draining) /\ EntryDone(c, Aborted, {}) /\ Forgotten(i)
           /\ UNCHANGED durable
  <2>1. SupTypes'
    BY <1>1, <1>4 DEF Types, SupTypes, Forgotten
  <2>2. \A j \in Instances :
            IF j = i THEN state'[j] = "gone" /\ op'[j] = "none"
            ELSE state'[j] = state[j] /\ op'[j] = op[j] /\ durable'[j] = durable[j]
    BY <1>1, <1>4 DEF Types, SupTypes, Forgotten
  <2>3. PICK out : EntryDone(c, out, {})
    BY <1>4
  <2>4. req[c].pc \in Launching /\ req[c].pc \in Admitting /\ "gone" \notin InFlight
    BY <1>1 DEF Launching, Admitting, InFlight, Live
  <2>5. Fault \/ NoFault
    BY <1>4 DEF FaultUnless
  <2> QED  BY <1>1, <1>2, <2>1, <2>2, <2>3, <2>4, <2>5, LaunchEnds
<1> QED  BY <1>2, <1>3, <1>4 DEF Record

\* The recorded instance gets its process, or is forgotten.
LEMMA SpawnStep ==
    ASSUME IInv, NEW c \in All, Spawn(c)
    PROVE  IInv'
<1>1. /\ Types /\ Launches(c) /\ req[c].pc = "spawn"
      /\ UNCHANGED <<owner, mu, late, restarted, docVars>>
  BY DEF IInv, Types, Spawn, At
<1>2. PICK i \in Instances \ restarted : i = req[c].cur /\ durable[i] = "pending"
  BY <1>1 DEF Launches, Admitting
<1>3. \/ /\ NoFault /\ state' = [state EXCEPT ![i] = "running"]
         /\ durable' = [durable EXCEPT ![i] = "running"]
         /\ op' = [op EXCEPT ![i] = "none"]
         /\ EntryDone(c, "started", {})
      \/ /\ FaultUnless(draining) /\ Forgotten(i)
         /\ durable' \in {durable, [durable EXCEPT ![i] = "failed"]}
         /\ EntryDone(c, Aborted, {})
      \/ /\ Fault /\ state' = [state EXCEPT ![i] = "starting"]
         /\ op' = [op EXCEPT ![i] = "none"]
         /\ EntryDone(c, "start-failed", {}) /\ UNCHANGED durable
  BY <1>2 DEF Spawn
<1>4. PICK out : EntryDone(c, out, {})
  BY <1>3
<1>5. Fault \/ NoFault
  BY <1>3 DEF FaultUnless
<1>6. /\ op' = [op EXCEPT ![i] = "none"]
      /\ \/ state' = [state EXCEPT ![i] = "running"] /\ durable' = [durable EXCEPT ![i] = "running"]
         \/ /\ state' = [state EXCEPT ![i] = "gone"]
            /\ durable' \in {durable, [durable EXCEPT ![i] = "failed"]}
         \/ state' = [state EXCEPT ![i] = "starting"] /\ durable' = durable
  BY <1>3 DEF Forgotten
<1>7. SupTypes'
  BY <1>1, <1>6 DEF Types, SupTypes, InFlight, Live, Terminal
<1>8. \A j \in Instances :
          IF j = i THEN /\ state'[j] \in {"running", "starting", "gone"} /\ op'[j] = "none"
                        /\ state'[j] \in InFlight => durable'[j] \in InFlight
          ELSE state'[j] = state[j] /\ op'[j] = op[j] /\ durable'[j] = durable[j]
  BY <1>1, <1>2, <1>6 DEF Types, SupTypes, InFlight, Live
<1>9. req[c].pc \in Launching /\ req[c].pc \in Admitting
  BY <1>1 DEF Launching, Admitting
<1> QED  BY <1>1, <1>2, <1>4, <1>5, <1>7, <1>8, <1>9, LaunchEnds

-----------------------------------------------------------------------------
(* Steps that start nothing: stops, exits, records and cleanups            *)

Settling ==
    /\ UNCHANGED <<owner, op, restarted>>
    /\ SupTypes'
    /\ \A i \in Instances :
           /\ state'[i] = "none" <=> state[i] = "none"
           /\ state'[i] \in InFlight => state[i] \in InFlight
    /\ \A i \in Instances \ restarted :
           /\ state[i] = "pending" =>
                  state'[i] = "pending" /\ (durable[i] = "pending" => durable'[i] = "pending")
           /\ i \in late' => state'[i] \in Terminal \cup {"gone"}
           /\ state'[i] \in InFlight /\ durable[i] \in InFlight => durable'[i] \in InFlight

\* The requests that do not move keep what is invariant of them, and so do the
\* instances.
LEMMA Settles ==
    ASSUME IInv, Settling, UNCHANGED <<pipes, mutex, quiet>>,
           \A d \in All : req[d].pc \in Admitting => req'[d] = req[d],
           \A d \in All : req'[d] # req[d] => req'[d].pc \notin Admitting /\ d \notin quiet
    PROVE  /\ SupTypes' /\ Apart' /\ Minted' /\ FirstGeneration' /\ Recorded'
           /\ \A d \in All : req'[d] = req[d] =>
                 (Placed(d) /\ Holds(d) /\ Launches(d) /\ Restarts(d) /\ Stops(d) /\ Starts(d)
                    /\ Blocked(d))'
           /\ \A d \in All : Quiet(d)'
<1>1. Types /\ Apart /\ Minted /\ FirstGeneration /\ Recorded /\ restarted \subseteq Instances
  BY DEF IInv, Types, SupTypes
<1>2. SupTypes' /\ Apart'
  BY <1>1 DEF Settling, Apart
<1>3. Minted'
  BY <1>1 DEF Settling, Minted
<1>4. FirstGeneration'
  BY <1>1 DEF Settling, FirstGeneration
<1>5. Recorded'
  BY <1>1 DEF Settling, Recorded, Admitting
<1>6. ASSUME NEW d \in All, req'[d] = req[d]
      PROVE  (Placed(d) /\ Holds(d) /\ Launches(d) /\ Restarts(d) /\ Stops(d) /\ Starts(d)
                /\ Blocked(d))'
  <2>1. Launches(d)
    BY DEF IInv
  <2>2. req[d].pc \in Admitting =>
            LET i == req[d].cur IN
            /\ state'[i] = state[i] /\ i \notin restarted'
            /\ durable[i] = "pending" => durable'[i] = "pending"
    BY <2>1 DEF Settling, Launches
  <2> QED  BY <1>1, <1>6, <2>2, OthersKept DEF Settling
<1>7. ASSUME NEW d \in All PROVE Quiet(d)'
  BY QuietKept DEF Settling
<1> QED  BY <1>2, <1>3, <1>4, <1>5, <1>6, <1>7

\* A stop goes on: what is in flight of its targets stays a target.
LEMMA StopMoves ==
    ASSUME IInv, NEW c \in All, NEW r \in ReqType, Serve(c, r), Settling, Fault \/ NoFault,
           UNCHANGED docVars,
           req[c].pc \in Stopping, r.pc \in Stopping \cup {"reply"},
           r.kind = req[c].kind, r.arg = req[c].arg, r.snap = req[c].snap, r.idx = req[c].idx,
           r.blockers = req[c].blockers, req[c].failed => r.failed,
           r.pc = "reply" => r.kind \notin Group,
           r.pc = "stopping" => r.cur \in Instances,
           ~r.failed => \A i \in Instances, k \in DOMAIN req[c].targets :
               i \in req[c].targets[k] /\ state'[i] \in InFlight =>
                   \E j \in DOMAIN r.targets : i \in r.targets[j]
    PROVE  IInv'
<1>1. Types /\ Placed(c) /\ Holds(c) /\ Stops(c) /\ Blocked(c) /\ req[c] \in ReqType
  BY DEF IInv, Types
<1>2. req' \in [All -> ReqType] /\ req'[c] = r /\ \A d \in All \ {c} : req'[d] = req[d]
  BY <1>1, Served
<1>3. UNCHANGED <<pipes, mutex, booted, made, draining, quiet>>
  BY DEF docVars
<1>4. c \notin quiet
  BY DEF IInv, Quiet, Stopping
<1>5. /\ SupTypes' /\ Apart' /\ Minted' /\ FirstGeneration' /\ Recorded'
      /\ \A d \in All \ {c} : (Placed(d) /\ Holds(d) /\ Launches(d) /\ Restarts(d)
                                 /\ Stops(d) /\ Starts(d) /\ Blocked(d))'
      /\ \A d \in All : Quiet(d)'
  BY <1>2, <1>3, <1>4, Settles DEF Stopping, Admitting
<1>6. Types'
  <2>1. DocTypes'
    BY <1>1, <1>3 DEF Types, DocTypes
  <2> QED  BY <1>1, <1>2, <1>5, <2>1, FaultCounts DEF Types
<1>7. Arrivals'
  BY <1>2, <1>3, ArrivalsKept DEF Stopping
<1>8. Placed(c)'
  BY <1>1, <1>2 DEF Placed, Group, Edits, ModelKinds, Launching, Stopping, Restarting
<1>9. Holds(c)' /\ Launches(c)' /\ Restarts(c)' /\ Starts(c)'
  BY <1>1, <1>2, <1>3 DEF Holds, Launches, Restarts, Starts, Admitting, Restarting, Stopping,
     Launching
<1>10. Stops(c)'
  <2>1. req[c].kind \in {"stop", "restart"} => req[c].kind \in Group
    BY DEF Group
  <2>2. \A i \in Instances : state'[i] \in InFlight => state[i] \in InFlight
    BY DEF Settling
  <2>3. owner' = owner /\ restarted' = restarted
    BY DEF Settling
  <2> QED  BY <1>1, <1>2, <2>1, <2>2, <2>3 DEF Stops, Owned
<1>11. Blocked(c)'
  <2>1. req[c].blockers \subseteq Instances
    BY <1>1 DEF ReqType
  <2>2. /\ \A i \in Instances : state[i] # "none" => state'[i] # "none"
        /\ owner' = owner /\ restarted' = restarted
    BY DEF Settling
  <2> QED  BY <1>1, <1>2, <2>1, <2>2 DEF Blocked
<1> QED  BY <1>2, <1>5, <1>6, <1>7, <1>8, <1>9, <1>10, <1>11, Whole

\* What the end of a target makes of the request.
LEMMA StoppedMoves ==
    ASSUME Types, NEW c \in All, NEW i \in Instances, NEW ok \in BOOLEAN, Stopped(c, i, ok)
    PROVE  \E r \in ReqType :
              /\ Serve(c, r)
              /\ r.kind = req[c].kind /\ r.arg = req[c].arg /\ r.snap = req[c].snap
              /\ r.idx = req[c].idx /\ r.blockers = req[c].blockers
              /\ r.failed <=> (req[c].failed \/ ~ok)
              /\ r.pc \in {"stop", "reply"} /\ (r.pc = "reply" => r.kind \notin Group)
              /\ DOMAIN r.targets = DOMAIN req[c].targets
              /\ \A k \in DOMAIN req[c].targets : r.targets[k] = req[c].targets[k] \ {i}
<1> DEFINE t == [k \in DOMAIN req[c].targets |-> req[c].targets[k] \ {i}]
           f == req[c].failed \/ ~ok
           pc == IF ~ok /\ req[c].kind \notin Group THEN "reply" ELSE "stop"
           r == [req[c] EXCEPT !.targets = t, !.cur = No, !.failed = f, !.pc = pc]
<1>1. Serve(c, r)
  BY DEF Stopped
<1>2. req[c] \in ReqType /\ req[c].targets \in Seq(SUBSET Instances)
  BY DEF Types, ReqType
<1>3. /\ t \in Seq(SUBSET Instances) /\ DOMAIN t = DOMAIN req[c].targets
      /\ \A k \in DOMAIN req[c].targets : t[k] = req[c].targets[k] \ {i}
  BY <1>2, TargetsLeft
<1>4. f \in BOOLEAN /\ pc \in PCs /\ (f <=> req[c].failed \/ ~ok)
  BY <1>2 DEF PCs, ReqType
<1>5. pc \in {"stop", "reply"} /\ (pc = "reply" => req[c].kind \notin Group)
  OBVIOUS
<1> HIDE DEF t, f, pc
<1>6. /\ r \in ReqType
      /\ r.kind = req[c].kind /\ r.arg = req[c].arg /\ r.snap = req[c].snap
      /\ r.idx = req[c].idx /\ r.blockers = req[c].blockers /\ r.failed = f /\ r.pc = pc
      /\ r.targets = t
  BY <1>2, <1>3, <1>4 DEF ReqType
<1> HIDE DEF r
<1> QED  BY <1>1, <1>3, <1>4, <1>5, <1>6

\* A stop of one target begins, or finds nothing to stop.
LEMMA StopTargetStep ==
    ASSUME IInv, NEW c \in All, StopTarget(c)
    PROVE  IInv'
<1>1. /\ Types /\ Minted /\ FirstGeneration /\ req[c] \in ReqType /\ req[c].pc = "stop"
      /\ UNCHANGED <<owner, op, late, restarted, docVars>>
  BY DEF IInv, Types, StopTarget, At
<1>2. PICK i \in Instances :
         /\ mu[i] = No
         /\ IF state[i] \notin Live
            THEN /\ Stopped(c, i, StopAnswer(i)) /\ NoFault
                 /\ UNCHANGED <<state, durable, mu>>
            ELSE /\ state' = [state EXCEPT ![i] = "stopping"]
                 /\ \/ /\ durable[i] # "none" /\ NoFault
                       /\ durable' = [durable EXCEPT ![i] = "stopping"]
                       /\ mu' = [mu EXCEPT ![i] = c]
                       /\ Serve(c, [req[c] EXCEPT !.pc = "stopping", !.cur = i])
                    \/ /\ FaultUnless(durable[i] = "none")
                       /\ Stopped(c, i, FALSE)
                       /\ UNCHANGED <<durable, mu>>
  <2>1. Unfinished(c) # {}
    BY DEF StopTarget
  <2>2. req[c].targets[Max(Unfinished(c))] \subseteq Instances
    BY <1>1, <2>1, TargetExists
  <2> QED  BY <2>2 DEF StopTarget
<1>3. CASE state[i] \notin Live
  <2>1. /\ Stopped(c, i, StopAnswer(i)) /\ NoFault /\ UNCHANGED <<state, durable, mu>>
    BY <1>2, <1>3
  <2>2. PICK ok \in BOOLEAN : Stopped(c, i, ok) /\ (ok => state[i] \in Terminal)
    <3>1. CASE state[i] \in Terminal
      <4>1. StopAnswer(i) = TRUE
        BY <3>1 DEF StopAnswer
      <4> QED  BY <2>1, <3>1, <4>1
    <3>2. CASE state[i] \notin Terminal
      <4>1. StopAnswer(i) = FALSE
        BY <3>2 DEF StopAnswer
      <4> QED  BY <2>1, <4>1
    <3> QED  BY <3>1, <3>2
  <2>3. Settling
    <3>1. SupTypes'
      BY <1>1, <2>1 DEF Types, SupTypes
    <3> QED  BY <1>1, <2>1, <3>1 DEF Settling, FirstGeneration
  <2>4. PICK r \in ReqType :
           /\ Serve(c, r)
           /\ r.kind = req[c].kind /\ r.arg = req[c].arg /\ r.snap = req[c].snap
           /\ r.idx = req[c].idx /\ r.blockers = req[c].blockers
           /\ r.failed <=> (req[c].failed \/ ~ok)
           /\ r.pc \in {"stop", "reply"} /\ (r.pc = "reply" => r.kind \notin Group)
           /\ DOMAIN r.targets = DOMAIN req[c].targets
           /\ \A k \in DOMAIN req[c].targets : r.targets[k] = req[c].targets[k] \ {i}
    BY <1>1, <2>2, StoppedMoves
  <2>5. ~r.failed => state'[i] \notin InFlight
    BY <2>1, <2>2, <2>4 DEF Terminal, InFlight, Live
  <2> QED  BY <1>1, <2>1, <2>3, <2>4, <2>5, StopMoves DEF Stopping
<1>4. CASE /\ state[i] \in Live
           /\ state' = [state EXCEPT ![i] = "stopping"]
           /\ durable[i] # "none" /\ NoFault
           /\ durable' = [durable EXCEPT ![i] = "stopping"]
           /\ mu' = [mu EXCEPT ![i] = c]
           /\ Serve(c, [req[c] EXCEPT !.pc = "stopping", !.cur = i])
  <2>1. Settling
    <3>1. SupTypes'
      BY <1>1, <1>4 DEF Types, SupTypes, InFlight, Live
    <3> QED  BY <1>1, <1>4, <3>1 DEF Settling, FirstGeneration, Types, SupTypes, InFlight, Live,
                Terminal
  <2>2. PICK r \in ReqType :
           /\ Serve(c, r)
           /\ r.kind = req[c].kind /\ r.arg = req[c].arg /\ r.snap = req[c].snap
           /\ r.idx = req[c].idx /\ r.blockers = req[c].blockers /\ r.failed = req[c].failed
           /\ r.pc = "stopping" /\ r.cur = i /\ r.targets = req[c].targets
    <3>1. [req[c] EXCEPT !.pc = "stopping", !.cur = i] \in ReqType
      BY <1>1 DEF ReqType, PCs
    <3> QED  BY <1>1, <1>4, <3>1 DEF ReqType
  <2> QED  BY <1>1, <1>4, <2>1, <2>2, StopMoves DEF Stopping
<1>5. CASE /\ state[i] \in Live
           /\ state' = [state EXCEPT ![i] = "stopping"]
           /\ FaultUnless(durable[i] = "none")
           /\ Stopped(c, i, FALSE)
           /\ UNCHANGED <<durable, mu>>
  <2>1. Settling
    <3>1. SupTypes'
      BY <1>1, <1>5 DEF Types, SupTypes, InFlight, Live
    <3> QED  BY <1>1, <1>5, <3>1 DEF Settling, FirstGeneration, Types, SupTypes, InFlight, Live,
                Terminal
  <2>2. PICK r \in ReqType :
           /\ Serve(c, r)
           /\ r.kind = req[c].kind /\ r.arg = req[c].arg /\ r.snap = req[c].snap
           /\ r.idx = req[c].idx /\ r.blockers = req[c].blockers
           /\ r.failed <=> (req[c].failed \/ ~FALSE)
           /\ r.pc \in {"stop", "reply"} /\ (r.pc = "reply" => r.kind \notin Group)
    BY <1>1, <1>5, StoppedMoves
  <2>3. Fault \/ NoFault
    BY <1>5 DEF FaultUnless
  <2> QED  BY <1>1, <2>1, <2>2, <2>3, StopMoves DEF Stopping
<1> QED  BY <1>2, <1>3, <1>4, <1>5

\* A stop of one target ends with the process gone, or fails the request.
LEMMA StopReturnsStep ==
    ASSUME IInv, NEW c \in All, StopReturns(c)
    PROVE  IInv'
<1>1. /\ Types /\ FirstGeneration /\ req[c] \in ReqType /\ req[c].pc = "stopping"
      /\ UNCHANGED <<state, owner, op, late, restarted, sysVars>>
  BY DEF IInv, Types, StopReturns, At
<1>2. PICK i \in Instances : i = req[c].cur
  BY <1>1 DEF IInv, Placed
<1>3. UNCHANGED docVars /\ (Fault \/ NoFault)
  BY <1>1 DEF sysVars, NoFault
<1>4. \/ /\ state[i] \in Terminal /\ durable' = [durable EXCEPT ![i] = state[i]]
         /\ Stopped(c, i, TRUE)
      \/ Stopped(c, i, FALSE) /\ UNCHANGED durable
  BY <1>2 DEF StopReturns
<1>5. Settling
  <2>1. mu' = [mu EXCEPT ![i] = No]
    BY <1>2 DEF StopReturns
  <2>2. SupTypes'
    BY <1>1, <1>4, <2>1 DEF Types, SupTypes
  <2>3. \A j \in Instances : durable'[j] = durable[j] \/ state[j] \in Terminal
    BY <1>1, <1>4 DEF Types, SupTypes
  <2> QED  BY <1>1, <2>2, <2>3 DEF Settling, FirstGeneration, Terminal, InFlight, Live
<1>6. PICK ok \in BOOLEAN : Stopped(c, i, ok) /\ (ok => state[i] \in Terminal)
  BY <1>4
<1>7. PICK r \in ReqType :
         /\ Serve(c, r)
         /\ r.kind = req[c].kind /\ r.arg = req[c].arg /\ r.snap = req[c].snap
         /\ r.idx = req[c].idx /\ r.blockers = req[c].blockers
         /\ r.failed <=> (req[c].failed \/ ~ok)
         /\ r.pc \in {"stop", "reply"} /\ (r.pc = "reply" => r.kind \notin Group)
         /\ DOMAIN r.targets = DOMAIN req[c].targets
         /\ \A k \in DOMAIN req[c].targets : r.targets[k] = req[c].targets[k] \ {i}
  BY <1>1, <1>6, StoppedMoves
<1>8. ~r.failed => state'[i] \notin InFlight
  BY <1>1, <1>6, <1>7 DEF Terminal, InFlight, Live
<1> QED  BY <1>1, <1>3, <1>5, <1>7, <1>8, StopMoves DEF Stopping

-----------------------------------------------------------------------------
(* Restarts one by one                                                     *)

\* A step of a restart touches only what is in the history of restarts.
LEMMA RestartMoves ==
    ASSUME IInv, NEW c \in All, NEW r \in ReqType, Serve(c, r),
           req[c].pc \in {"radmit", "rarbitrate"} \cup Restarting,
           r.pc \in {"radmit", "rarbitrate", "reply"} \cup Restarting,
           r.pc = "rarbitrate" => r.cur \in Instances,
           r.kind = req[c].kind, r.arg = req[c].arg, r.idx = req[c].idx,
           r.blockers = req[c].blockers,
           r.pc \in Restarting => r.cur \in restarted',
           SupTypes', UNCHANGED <<owner, late, pipes, mutex, booted, made, draining>>,
           quiet' \subseteq quiet, Fault \/ NoFault,
           restarted \subseteq restarted',
           \A i \in restarted' \ restarted : state[i] \notin {"none", "pending"},
           \A i \in Instances : state'[i] = "none" <=> state[i] = "none",
           \A i \in Instances \ restarted' :
               state'[i] = state[i] /\ op'[i] = op[i] /\ durable'[i] = durable[i]
    PROVE  IInv'
<1>1. /\ Types /\ Apart /\ Minted /\ FirstGeneration /\ Recorded
      /\ Placed(c) /\ Blocked(c) /\ req[c] \in ReqType
      /\ restarted' \subseteq Instances
  BY DEF IInv, Types, SupTypes
<1>2. req' \in [All -> ReqType] /\ req'[c] = r /\ \A d \in All \ {c} : req'[d] = req[d]
  BY <1>1, Served
<1>3. req[c].pc \notin Admitting /\ r.pc \notin Admitting /\ req[c].pc # "idle"
  BY DEF Admitting, Restarting
<1>4. req[c].kind \in {"model-restart", "instance-restart"}
  BY <1>1 DEF Placed
<1>5. Types'
  <2>1. DocTypes'
    BY <1>1 DEF Types, DocTypes
  <2> QED  BY <1>1, <1>2, <2>1, FaultCounts DEF Types
<1>6. Arrivals'
  BY <1>2, <1>3, ArrivalsKept
<1>7. Apart'
  BY <1>1, <1>2, <1>3 DEF Apart
<1>8. Minted'
  BY <1>1 DEF Minted
<1>9. FirstGeneration'
  BY <1>1 DEF FirstGeneration
<1>10. Recorded'
  BY <1>1, <1>2, <1>3 DEF Recorded, Admitting
<1>11. ASSUME NEW d \in All \ {c}
       PROVE  (Placed(d) /\ Holds(d) /\ Launches(d) /\ Restarts(d) /\ Stops(d) /\ Starts(d)
                 /\ Blocked(d))'
  <2>1. Launches(d)
    BY DEF IInv
  <2>2. req[d].pc \in Admitting =>
            LET i == req[d].cur IN
            /\ state'[i] = state[i] /\ i \notin restarted'
            /\ durable[i] = "pending" => durable'[i] = "pending"
    BY <2>1 DEF Launches
  <2> QED  BY <1>1, <1>2, <2>2, OthersKept
<1>12. Placed(c)'
  BY <1>1, <1>2, <1>4 DEF Placed, Group, Edits, ModelKinds, Launching, Stopping, Restarting
<1>13. Holds(c)' /\ Launches(c)' /\ Restarts(c)' /\ Stops(c)' /\ Starts(c)'
  BY <1>2, <1>3, <1>4 DEF Holds, Launches, Restarts, Stops, Starts, Group
<1>14. Blocked(c)'
  <2>1. req[c].blockers \subseteq Instances
    BY <1>1 DEF ReqType
  <2> QED  BY <1>1, <1>2, <1>4, <2>1 DEF Blocked
<1>15. ASSUME NEW d \in All PROVE Quiet(d)'
  <2>1. c \notin quiet
    BY DEF IInv, Quiet, Restarting
  <2> QED  BY <1>2, <2>1, QuietKept
<1> QED  BY <1>2, <1>5, <1>6, <1>7, <1>8, <1>9, <1>10, <1>11, <1>12, <1>13, <1>14, <1>15, Whole

\* What the end of a restart makes of the request.
LEMMA RestartEndMoves ==
    ASSUME Types, NEW c \in All, NEW i \in Instances, NEW ok \in BOOLEAN, RestartEnds(c, i, ok)
    PROVE  \E r \in ReqType :
              /\ Serve(c, r)
              /\ r.kind = req[c].kind /\ r.arg = req[c].arg /\ r.idx = req[c].idx
              /\ r.blockers = req[c].blockers /\ r.pc \in {"radmit", "reply"}
<1> DEFINE t == [k \in DOMAIN req[c].targets |-> req[c].targets[k] \ {i}]
           f == ~ok
           pc == IF ok THEN "radmit" ELSE "reply"
           r == [req[c] EXCEPT !.targets = t, !.cur = No, !.failed = f, !.pc = pc]
<1>1. Serve(c, r)
  BY DEF RestartEnds
<1>2. req[c] \in ReqType /\ req[c].targets \in Seq(SUBSET Instances)
  BY DEF Types, ReqType
<1>3. t \in Seq(SUBSET Instances)
  BY <1>2, TargetsLeft
<1>4. f \in BOOLEAN /\ pc \in PCs /\ pc \in {"radmit", "reply"}
  BY DEF PCs
<1> HIDE DEF t, f, pc
<1>5. /\ r \in ReqType
      /\ r.kind = req[c].kind /\ r.arg = req[c].arg /\ r.idx = req[c].idx
      /\ r.blockers = req[c].blockers /\ r.pc = pc
  BY <1>2, <1>3, <1>4 DEF ReqType
<1> HIDE DEF r
<1> QED  BY <1>1, <1>4, <1>5

\* What a change of place makes of the request.
LEMMA GotoMoves ==
    ASSUME Types, NEW c \in All, NEW pc \in PCs, Goto(c, pc)
    PROVE  \E r \in ReqType :
              /\ Serve(c, r)
              /\ r.kind = req[c].kind /\ r.arg = req[c].arg /\ r.idx = req[c].idx
              /\ r.snap = req[c].snap /\ r.targets = req[c].targets /\ r.failed = req[c].failed
              /\ r.blockers = req[c].blockers /\ r.cur = req[c].cur /\ r.pc = pc
<1>1. req[c] \in ReqType
  BY DEF Types
<1>2. [req[c] EXCEPT !.pc = pc] \in ReqType
  BY <1>1 DEF ReqType
<1> QED  BY <1>1, <1>2 DEF Goto, ReqType

\* The restart of an instance finds its configuration, or fails.
LEMMA RResolveStep ==
    ASSUME IInv, NEW c \in All, RResolve(c)
    PROVE  IInv'
<1>1. /\ Types /\ req[c] \in ReqType /\ req[c].pc = "radmit"
      /\ UNCHANGED <<supVars, docVars>>
  BY DEF IInv, Types, RResolve, At
<1>2. PICK i \in Instances :
         \/ NoFault /\ Serve(c, [req[c] EXCEPT !.pc = "rarbitrate", !.cur = i])
         \/ FaultUnless(~Resolves(i)) /\ RestartEnds(c, i, FALSE)
  <2>1. Unfinished(c) # {}
    BY DEF RResolve
  <2>2. req[c].targets[1] \subseteq Instances
    BY <1>1, <2>1, TargetExists
  <2> QED  BY <2>2 DEF RResolve
<1>3. PICK r \in ReqType :
         /\ Serve(c, r)
         /\ r.kind = req[c].kind /\ r.arg = req[c].arg /\ r.idx = req[c].idx
         /\ r.blockers = req[c].blockers /\ r.pc \in {"radmit", "rarbitrate", "reply"}
         /\ r.pc = "rarbitrate" => r.cur \in Instances
  <2>1. CASE Serve(c, [req[c] EXCEPT !.pc = "rarbitrate", !.cur = i])
    <3>1. [req[c] EXCEPT !.pc = "rarbitrate", !.cur = i] \in ReqType
      BY <1>1 DEF ReqType, PCs
    <3> QED  BY <1>1, <2>1, <3>1 DEF ReqType
  <2>2. CASE RestartEnds(c, i, FALSE)
    BY <1>1, <2>2, RestartEndMoves
  <2> QED  BY <1>2, <2>1, <2>2
<1>4. Fault \/ NoFault
  BY <1>2 DEF FaultUnless
<1>5. SupTypes'
  BY <1>1 DEF Types, SupTypes, supVars
<1> QED  BY <1>1, <1>3, <1>4, <1>5, RestartMoves DEF Restarting, supVars, docVars

\* It wins arbitration, or is refused.
LEMMA RAdmitStep ==
    ASSUME IInv, NEW c \in All, RAdmit(c)
    PROVE  IInv'
<1> DEFINE i == req[c].cur
<1>1. /\ Types /\ Placed(c) /\ req[c] \in ReqType /\ req[c].pc = "rarbitrate"
      /\ UNCHANGED <<state, owner, mu, late, durable, pipes, mutex, booted, made, draining>>
      /\ NoFault
  BY DEF IInv, Types, RAdmit, At, NoFault
<1>2. i \in Instances
  BY <1>1 DEF Placed
<1>3. CASE Admitted(i)
  <2>1. /\ op' = [op EXCEPT ![i] = "restart"] /\ restarted' = restarted \cup {i}
        /\ Goto(c, "rlock") /\ Overlaps(owner[i].pipe)
    BY <1>3 DEF RAdmit
  <2>2. state[i] \notin {"none", "pending"}
    BY <1>3 DEF Admitted, Restartable, Terminal
  <2>3. PICK r \in ReqType :
           /\ Serve(c, r)
           /\ r.kind = req[c].kind /\ r.arg = req[c].arg /\ r.idx = req[c].idx
           /\ r.blockers = req[c].blockers /\ r.pc = "rlock" /\ r.cur = i
    <3>1. "rlock" \in PCs
      BY DEF PCs
    <3> QED  BY <1>1, <2>1, <3>1, GotoMoves
  <2> HIDE DEF i
  <2>4. SupTypes'
    BY <1>1, <1>2, <2>1 DEF Types, SupTypes
  <2>5. quiet' \subseteq quiet
    BY <2>1 DEF Overlaps
  <2>6. \A j \in Instances \ restarted' : op'[j] = op[j]
    BY <1>1, <2>1 DEF Types, SupTypes
  <2> QED  BY <1>1, <1>2, <2>1, <2>2, <2>3, <2>4, <2>5, <2>6, RestartMoves DEF Restarting
<1>4. CASE ~Admitted(i)
  <2>1. RestartEnds(c, i, FALSE) /\ UNCHANGED <<op, restarted, quiet>>
    BY <1>4 DEF RAdmit
  <2>2. PICK r \in ReqType :
           /\ Serve(c, r)
           /\ r.kind = req[c].kind /\ r.arg = req[c].arg /\ r.idx = req[c].idx
           /\ r.blockers = req[c].blockers /\ r.pc \in {"radmit", "reply"}
    BY <1>1, <1>2, <2>1, RestartEndMoves
  <2>3. SupTypes'
    BY <1>1, <2>1 DEF Types, SupTypes
  <2> QED  BY <1>1, <2>1, <2>2, <2>3, RestartMoves DEF Restarting
<1> QED  BY <1>3, <1>4

\* The restart of an instance under way: it is in the history, and the step
\* ends the restart or takes it further.
LEMMA RestartStep ==
    ASSUME IInv, NEW c \in All, req[c].pc \in Restarting, NEW i, i = req[c].cur,
           \/ \E pc \in Restarting : Goto(c, pc)
           \/ \E ok \in BOOLEAN : RestartEnds(c, i, ok),
           SupTypes', Fault \/ NoFault, UNCHANGED <<owner, late, restarted, docVars>>,
           state[i] # "none" => state'[i] # "none",
           \A j \in Instances \ {i} :
               state'[j] = state[j] /\ op'[j] = op[j] /\ durable'[j] = durable[j]
    PROVE  IInv'
<1>1. Types /\ Restarts(c) /\ Minted /\ restarted \subseteq Instances
  BY DEF IInv, Types, SupTypes
<1>2. i \in restarted /\ i \in Instances /\ state[i] # "none"
  BY <1>1 DEF Restarts, Minted
<1>3. PICK r \in ReqType :
         /\ Serve(c, r)
         /\ r.kind = req[c].kind /\ r.arg = req[c].arg /\ r.idx = req[c].idx
         /\ r.blockers = req[c].blockers
         /\ r.pc \in {"radmit", "reply"} \cup Restarting
         /\ r.pc \in Restarting => r.cur = i
  <2>1. CASE \E pc \in Restarting : Goto(c, pc)
    <3>1. PICK pc \in Restarting : Goto(c, pc)
      BY <2>1
    <3>2. pc \in PCs
      BY DEF PCs, Restarting
    <3> QED  BY <1>1, <3>1, <3>2, GotoMoves
  <2>2. CASE \E ok \in BOOLEAN : RestartEnds(c, i, ok)
    <3>1. PICK ok \in BOOLEAN : RestartEnds(c, i, ok)
      BY <2>2
    <3>2. PICK r \in ReqType :
              /\ Serve(c, r)
              /\ r.kind = req[c].kind /\ r.arg = req[c].arg /\ r.idx = req[c].idx
              /\ r.blockers = req[c].blockers /\ r.pc \in {"radmit", "reply"}
      BY <1>1, <1>2, <3>1, RestartEndMoves
    <3> QED  BY <3>2 DEF Restarting
  <2> QED  BY <2>1, <2>2
<1>4. /\ \A j \in Instances : state'[j] = "none" <=> state[j] = "none"
      /\ \A j \in Instances \ restarted :
             state'[j] = state[j] /\ op'[j] = op[j] /\ durable'[j] = durable[j]
  BY <1>2
<1>5. UNCHANGED <<pipes, mutex, booted, made, draining, quiet>>
  BY DEF docVars
<1> QED  BY <1>2, <1>3, <1>4, <1>5, RestartMoves

\* The restart gets the lifecycleMu of its controller.
LEMMA RLockStep ==
    ASSUME IInv, NEW c \in All, RLock(c)
    PROVE  IInv'
<1>1. /\ Types /\ req[c].pc = "rlock" /\ req[c].pc \in Restarting
      /\ UNCHANGED <<state, owner, op, late, durable, restarted, sysVars>>
  BY DEF IInv, RLock, At, Restarting
<1>2. PICK i : i = req[c].cur
  OBVIOUS
<1>3. /\ Goto(c, "rstop") \/ Goto(c, "rawait")
      /\ mu' = [mu EXCEPT ![i] = c]
  BY <1>2 DEF RLock
<1>4. SupTypes'
  BY <1>1, <1>3 DEF Types, SupTypes
<1>5. \E pc \in Restarting : Goto(c, pc)
  <2>1. "rstop" \in Restarting /\ "rawait" \in Restarting
    BY DEF Restarting
  <2> QED  BY <1>3, <2>1
<1>6. UNCHANGED docVars /\ NoFault
  BY <1>1 DEF sysVars, NoFault
<1> QED  BY <1>1, <1>2, <1>4, <1>5, <1>6, RestartStep

\* The restart stops what runs, or gives up.
LEMMA RStopStep ==
    ASSUME IInv, NEW c \in All, RStop(c)
    PROVE  IInv'
<1>1. /\ Types /\ Restarts(c) /\ req[c].pc = "rstop" /\ req[c].pc \in Restarting
      /\ UNCHANGED <<owner, late, restarted, docVars>>
  BY DEF IInv, RStop, At, Restarting
<1>2. PICK i \in Instances : i = req[c].cur
  BY <1>1 DEF Restarts, Types, SupTypes
<1>3. \/ Goto(c, "rspawn") /\ NoFault /\ UNCHANGED <<state, durable, mu, op>>
      \/ /\ state' = [state EXCEPT ![i] = "stopping"]
         /\ NoFault /\ durable' = [durable EXCEPT ![i] = "stopping"]
         /\ Goto(c, "rawait") /\ UNCHANGED <<mu, op>>
      \/ /\ state' = [state EXCEPT ![i] = "stopping"]
         /\ FaultUnless(durable[i] = "none")
         /\ RestartEnds(c, i, FALSE) /\ Released(i) /\ UNCHANGED durable
  BY <1>2 DEF RStop
<1>4. (\E pc \in Restarting : Goto(c, pc)) \/ (\E ok \in BOOLEAN : RestartEnds(c, i, ok))
  <2>1. "rspawn" \in Restarting /\ "rawait" \in Restarting /\ FALSE \in BOOLEAN
    BY DEF Restarting
  <2> QED  BY <1>3, <2>1
<1>5. Fault \/ NoFault
  BY <1>3 DEF FaultUnless
<1>6. SupTypes'
  BY <1>1, <1>3 DEF Types, SupTypes, InFlight, Live, Released
<1>7. /\ state[i] # "none" => state'[i] # "none"
      /\ \A j \in Instances \ {i} :
             state'[j] = state[j] /\ op'[j] = op[j] /\ durable'[j] = durable[j]
  BY <1>1, <1>3 DEF Types, SupTypes, Released
<1> QED  BY <1>1, <1>2, <1>4, <1>5, <1>6, <1>7, RestartStep

\* The restart awaits the run it stopped.
LEMMA RAwaitStep ==
    ASSUME IInv, NEW c \in All, RAwait(c)
    PROVE  IInv'
<1>1. /\ Types /\ Restarts(c) /\ req[c].pc = "rawait" /\ req[c].pc \in Restarting
      /\ UNCHANGED <<state, owner, late, durable, restarted, sysVars>>
  BY DEF IInv, RAwait, At, Restarting
<1>2. PICK i \in Instances : i = req[c].cur
  BY <1>1 DEF Restarts, Types, SupTypes
<1>3. \/ Goto(c, "rspawn") /\ UNCHANGED <<mu, op>>
      \/ RestartEnds(c, i, FALSE) /\ Released(i)
  BY <1>2 DEF RAwait
<1>4. (\E pc \in Restarting : Goto(c, pc)) \/ (\E ok \in BOOLEAN : RestartEnds(c, i, ok))
  <2>1. "rspawn" \in Restarting /\ FALSE \in BOOLEAN
    BY DEF Restarting
  <2> QED  BY <1>3, <2>1
<1>5. SupTypes' /\ \A j \in Instances \ {i} : op'[j] = op[j]
  BY <1>1, <1>3 DEF Types, SupTypes, Released
<1>6. UNCHANGED docVars /\ NoFault
  BY <1>1 DEF sysVars, NoFault
<1> QED  BY <1>1, <1>2, <1>4, <1>5, <1>6, RestartStep

\* The restart spawns the next generation, or fails.
LEMMA RSpawnStep ==
    ASSUME IInv, NEW c \in All, RSpawn(c)
    PROVE  IInv'
<1>1. /\ Types /\ Restarts(c) /\ req[c].pc = "rspawn" /\ req[c].pc \in Restarting
      /\ UNCHANGED <<owner, late, restarted, docVars>>
  BY DEF IInv, RSpawn, At, Restarting
<1>2. PICK i \in Instances : i = req[c].cur
  BY <1>1 DEF Restarts, Types, SupTypes
<1>3. /\ Released(i)
      /\ \/ /\ NoFault /\ RestartEnds(c, i, TRUE)
            /\ state' = [state EXCEPT ![i] = "running"]
            /\ durable' = [durable EXCEPT ![i] = "running"]
         \/ /\ FaultUnless(draining \/ durable[i] = "none") /\ RestartEnds(c, i, FALSE)
            /\ state' = [state EXCEPT ![i] = "failed"]
            /\ durable' \in {durable, [durable EXCEPT
                   ![i] = IF durable[i] = "none" THEN durable[i] ELSE "failed"]}
         \/ /\ Fault /\ RestartEnds(c, i, FALSE)
            /\ state' = [state EXCEPT ![i] = "starting"] /\ UNCHANGED durable
  BY <1>2 DEF RSpawn
<1>4. \E ok \in BOOLEAN : RestartEnds(c, i, ok)
  BY <1>3
<1>5. Fault \/ NoFault
  BY <1>3 DEF FaultUnless
<1>6. SupTypes'
  <2>1. op' \in [Instances -> {"none", "launch", "restart"}] /\ mu' \in [Instances -> All \cup {No}]
    BY <1>1, <1>3 DEF Types, SupTypes, Released
  <2>2. state' \in [Instances -> InFlight \cup Terminal \cup {"none", "gone"}]
    BY <1>1, <1>3 DEF Types, SupTypes, InFlight, Live, Terminal
  <2>3. durable' \in [Instances -> InFlight \cup Terminal \cup {"none"}]
    BY <1>1, <1>3 DEF Types, SupTypes, InFlight, Live, Terminal
  <2> QED  BY <1>1, <2>1, <2>2, <2>3 DEF Types, SupTypes
<1>7. /\ state[i] # "none" => state'[i] # "none"
      /\ \A j \in Instances \ {i} :
             state'[j] = state[j] /\ op'[j] = op[j] /\ durable'[j] = durable[j]
  BY <1>1, <1>3 DEF Types, SupTypes, Released
<1> QED  BY <1>1, <1>2, <1>4, <1>5, <1>6, <1>7, RestartStep

-----------------------------------------------------------------------------
(* Cleanups, exits, records and the shutdown                               *)

\* A cleanup goes on, or is answered.
LEMMA CleanupMoves ==
    ASSUME IInv, NEW c \in All, NEW r \in ReqType, Serve(c, r), Settling, Fault \/ NoFault,
           UNCHANGED docVars, req[c].pc \in {"clean", "forget"}, r.pc \in {"forget", "reply"},
           r.kind = req[c].kind, r.arg = req[c].arg, r.idx = req[c].idx,
           r.blockers = req[c].blockers
    PROVE  IInv'
<1>1. Types /\ Placed(c) /\ Blocked(c) /\ req[c] \in ReqType
  BY DEF IInv, Types
<1>2. req' \in [All -> ReqType] /\ req'[c] = r /\ \A d \in All \ {c} : req'[d] = req[d]
  BY <1>1, Served
<1>3. UNCHANGED <<pipes, mutex, booted, made, draining, quiet>>
  BY DEF docVars
<1>4. c \notin quiet /\ req[c].kind = "cleanup"
  BY <1>1 DEF IInv, Quiet, Placed
<1>5. /\ SupTypes' /\ Apart' /\ Minted' /\ FirstGeneration' /\ Recorded'
      /\ \A d \in All \ {c} : (Placed(d) /\ Holds(d) /\ Launches(d) /\ Restarts(d)
                                 /\ Stops(d) /\ Starts(d) /\ Blocked(d))'
      /\ \A d \in All : Quiet(d)'
  BY <1>2, <1>3, <1>4, Settles DEF Admitting
<1>6. Types'
  <2>1. DocTypes'
    BY <1>1, <1>3 DEF Types, DocTypes
  <2> QED  BY <1>1, <1>2, <1>5, <2>1, FaultCounts DEF Types
<1>7. Arrivals'
  BY <1>2, <1>3, ArrivalsKept
<1>8. Placed(c)'
  BY <1>1, <1>2, <1>4 DEF Placed, Group, Edits, ModelKinds, Launching, Stopping, Restarting
<1>9. Holds(c)' /\ Launches(c)' /\ Restarts(c)' /\ Stops(c)' /\ Starts(c)'
  BY <1>2, <1>4 DEF Holds, Launches, Restarts, Stops, Starts, Admitting, Restarting, Group
<1>10. Blocked(c)'
  <2>1. req[c].blockers \subseteq Instances
    BY <1>1 DEF ReqType
  <2>2. \A i \in Instances : state[i] # "none" => state'[i] # "none"
    BY DEF Settling
  <2> QED  BY <1>1, <1>2, <1>4, <2>1, <2>2 DEF Blocked
<1> QED  BY <1>2, <1>5, <1>6, <1>7, <1>8, <1>9, <1>10, Whole

\* A cleanup drops terminal records.
LEMMA CleanStep ==
    ASSUME IInv, NEW c \in All, Clean(c)
    PROVE  IInv'
<1>1. /\ Types /\ FirstGeneration /\ req[c] \in ReqType /\ req[c].pc = "clean"
      /\ UNCHANGED <<state, owner, op, mu, late, restarted, docVars>>
  BY DEF IInv, Types, Clean, At
<1>2. PICK r \in ReqType :
         /\ Serve(c, r) /\ r.pc \in {"forget", "reply"}
         /\ r.kind = req[c].kind /\ r.arg = req[c].arg /\ r.idx = req[c].idx
         /\ r.blockers = req[c].blockers
  <2>1. /\ [req[c] EXCEPT !.pc = "forget"] \in ReqType
        /\ [req[c] EXCEPT !.pc = "reply", !.failed = TRUE] \in ReqType
    BY ZenonT(40), <1>1 DEF ReqType, PCs
  <2>2. CASE Serve(c, [req[c] EXCEPT !.pc = "forget"])
    BY <1>1, <2>1, <2>2 DEF ReqType
  <2>3. CASE Serve(c, [req[c] EXCEPT !.pc = "reply", !.failed = TRUE])
    BY ZenonT(40), <1>1, <2>1, <2>3 DEF ReqType
  <2> QED  BY <2>2, <2>3 DEF Clean, Goto, Answer
<1>3. /\ \A i \in Instances : durable'[i] = durable[i] \/ durable[i] \in Terminal
      /\ durable' \in [Instances -> InFlight \cup Terminal \cup {"none"}]
  BY <1>1 DEF Clean, Types, SupTypes
<1>4. Settling
  <2>1. SupTypes'
    BY <1>1, <1>3 DEF Types, SupTypes
  <2> QED  BY <1>1, <1>3, <2>1 DEF Settling, FirstGeneration, Terminal, InFlight, Live
<1>5. Fault \/ NoFault
  BY DEF Clean
<1> QED  BY <1>1, <1>2, <1>4, <1>5, CleanupMoves

\* A cleanup drops the controllers of the records it dropped.
LEMMA ForgetStep ==
    ASSUME IInv, NEW c \in All, Forget(c)
    PROVE  IInv'
<1>1. /\ Types /\ FirstGeneration /\ req[c] \in ReqType /\ req[c].pc = "forget"
      /\ UNCHANGED <<owner, op, mu, late, durable, restarted, sysVars>>
  BY DEF IInv, Types, Forget, At
<1>2. PICK r \in ReqType :
         /\ Serve(c, r) /\ r.pc \in {"forget", "reply"}
         /\ r.kind = req[c].kind /\ r.arg = req[c].arg /\ r.idx = req[c].idx
         /\ r.blockers = req[c].blockers
  <2>1. [req[c] EXCEPT !.pc = "reply", !.failed = FALSE] \in ReqType
    BY <1>1 DEF ReqType, PCs
  <2> QED  BY <1>1, <2>1 DEF Forget, Answer, ReqType
<1>3. /\ \A i \in Instances : \/ state'[i] = state[i]
                              \/ state[i] \in Terminal /\ state'[i] = "gone"
      /\ state' \in [Instances -> InFlight \cup Terminal \cup {"none", "gone"}]
  BY <1>1 DEF Forget, Types, SupTypes
<1>4. Settling
  <2>1. SupTypes'
    BY <1>1, <1>3 DEF Types, SupTypes
  <2> QED  BY <1>1, <1>3, <2>1 DEF Settling, FirstGeneration, Terminal, InFlight, Live
<1>5. UNCHANGED docVars /\ NoFault
  BY <1>1 DEF sysVars, NoFault
<1> QED  BY <1>1, <1>2, <1>4, <1>5, CleanupMoves

\* Steps of processes and of the shutdown: no request moves.
LEMMA NobodyMoves ==
    ASSUME IInv, Settling, Fault \/ NoFault,
           UNCHANGED <<req, pipes, mutex, booted, made, quiet>>
    PROVE  IInv'
<1>1. /\ SupTypes' /\ Apart' /\ Minted' /\ FirstGeneration' /\ Recorded'
      /\ \A d \in All : (Placed(d) /\ Holds(d) /\ Launches(d) /\ Restarts(d)
                           /\ Stops(d) /\ Starts(d) /\ Blocked(d) /\ Quiet(d))'
  BY Settles
<1>2. Types'
  <2>1. DocTypes'
    BY DEF IInv, Types, DocTypes
  <2> QED  BY <1>1, <2>1, FaultCounts DEF IInv, Types
<1>3. Arrivals'
  BY DEF IInv, Arrivals
<1> QED  BY <1>1, <1>2, <1>3 DEF IInv

\* A process exits unasked.
LEMMA ExitStep ==
    ASSUME IInv, NEW i \in Instances, Exit(i)
    PROVE  IInv'
<1>1. /\ Types /\ FirstGeneration /\ state[i] \in Live
      /\ state' = [state EXCEPT ![i] = "exited"] /\ late' = late \cup {i}
      /\ UNCHANGED <<owner, op, mu, durable, restarted, req, docVars>>
      /\ Fault \/ NoFault
  BY DEF IInv, Exit, FaultUnless
<1>2. Settling
  <2>1. SupTypes'
    BY <1>1 DEF Types, SupTypes, Terminal
  <2> QED  BY <1>1, <2>1 DEF Settling, FirstGeneration, Types, SupTypes, Terminal, InFlight, Live
<1> QED  BY <1>1, <1>2, NobodyMoves DEF docVars

\* wait() records an exit.
LEMMA WaitPersistsStep ==
    ASSUME IInv, NEW i \in Instances, WaitPersists(i)
    PROVE  IInv'
<1>1. /\ Types /\ FirstGeneration /\ i \in late /\ late' = late \ {i}
      /\ durable' = durable \/ durable' = [durable EXCEPT ![i] = "exited"]
      /\ UNCHANGED <<state, owner, op, mu, restarted, req, docVars>>
      /\ Fault \/ NoFault
  BY DEF IInv, WaitPersists, FaultUnless
<1>2. Settling
  <2>1. SupTypes'
    BY <1>1 DEF Types, SupTypes, Terminal
  <2>2. \A j \in Instances : j # i => durable'[j] = durable[j]
    BY <1>1 DEF Types, SupTypes
  <2> QED  BY <1>1, <2>1, <2>2 DEF Settling, FirstGeneration, Terminal, InFlight, Live
<1> QED  BY <1>1, <1>2, NobodyMoves DEF docVars

\* The shutdown begins.
LEMMA DrainStep ==
    ASSUME IInv, Drain
    PROVE  IInv'
<1>1. /\ Types /\ FirstGeneration /\ Fault
      /\ UNCHANGED <<supVars, req, pipes, mutex, booted, made, quiet>>
  BY DEF IInv, Drain
<1>2. Settling
  <2>1. SupTypes'
    BY <1>1 DEF Types, SupTypes, supVars
  <2> QED  BY <1>1, <2>1 DEF Settling, FirstGeneration, supVars
<1> QED  BY <1>1, <1>2, NobodyMoves

\* Nothing moves.
LEMMA StutterStep ==
    ASSUME IInv, UNCHANGED vars
    PROVE  IInv'
<1>1. /\ Types /\ FirstGeneration /\ NoFault
      /\ UNCHANGED <<supVars, req, pipes, mutex, booted, made, quiet>>
  BY DEF IInv, vars, supVars, NoFault
<1>2. Settling
  <2>1. SupTypes'
    BY <1>1 DEF Types, SupTypes, supVars
  <2> QED  BY <1>1, <2>1 DEF Settling, FirstGeneration, supVars
<1> QED  BY <1>1, <1>2, NobodyMoves

-----------------------------------------------------------------------------
(* The theorems                                                            *)

\* The invariant is inductive: one lemma per action.
LEMMA NextKeeps ==
    ASSUME IInv, [Next]_vars
    PROVE  IInv'
<1>1. CASE \E c \in All : Step(c)
  <2>1. PICK c \in All : Step(c)
    BY <1>1
  <2> QED  BY <2>1, ReplyStep, LockStep, GroupTargetsStep, AdmitStep, RecordStep, SpawnStep,
              StopTargetStep, StopReturnsStep, StopsDoneStep, ModelDecidesStep, RResolveStep, RAdmitStep,
              RestartsDoneStep, RLockStep, RStopStep, RAwaitStep, RSpawnStep, EditCheckStep,
              EditWriteStep, CleanStep, ForgetStep DEF Step
<1>2. CASE \E c \in Requests : Begin(c)
  BY <1>2, BeginStep
<1>3. CASE BootNext
  BY <1>3, BootNextStep
<1>4. CASE \E i \in Instances : Exit(i) \/ WaitPersists(i)
  BY <1>4, ExitStep, WaitPersistsStep
<1>5. CASE Drain
  BY <1>5, DrainStep
<1>6. CASE UNCHANGED vars
  BY <1>6, StutterStep
<1> QED  BY <1>1, <1>2, <1>3, <1>4, <1>5, <1>6 DEF Next

(* What the group requests rely on holds in every state of every run: the
   inductive invariant of the services over the Supervisor. *)
THEOREM GroupsInvariant == Spec => []IInv
<1>1. IInv /\ [Next]_vars => IInv'
  BY NextKeeps
<1> QED  BY <1>1, InitHolds, PTL DEF Spec

(* The variables keep their types, and an instance has an owner exactly from its
   admission on, so that an identifier is never minted twice. *)
THEOREM TypeCorrectness == Spec => []TypeOK
<1>1. IInv => TypeOK
  <2> SUFFICES ASSUME IInv PROVE TypeOK
    OBVIOUS
  <2>1. Types /\ Minted
    BY DEF IInv
  <2>2. \A p \in Pipes : pipes[p] = <<>> \/ pipes[p] \in Layouts
    BY <2>1 DEF Types, DocTypes
  <2>3. \A c \in All : /\ req[c].pc \in PCs
                       /\ req[c].idx \in Nat /\ req[c].blockers \subseteq Instances
                       /\ req[c].cur \in Instances \cup {No}
    BY <2>1 DEF Types, ReqType
  <2> QED  BY <2>1, <2>2, <2>3 DEF TypeOK, Types, SupTypes, DocTypes, Minted
<1> QED  BY <1>1, GroupsInvariant, PTL

(* A group Stop answered without an error left nothing in flight of the entries
   it listed, of what nobody restarted one by one (PipelineService.Stop). *)
THEOREM StopIsHonest == Spec => []StopMeansStopped
<1>1. IInv => StopMeansStopped
  <2> SUFFICES ASSUME IInv PROVE StopMeansStopped
    OBVIOUS
  <2>1. \A c \in All : Stops(c)
    BY DEF IInv
  <2> QED  BY <2>1 DEF StopMeansStopped, Stops, Owned, At, Arg
<1> QED  BY <1>1, GroupsInvariant, PTL

(* A group Restart answered without an error found none of its own old instances
   in the way of its start phase (PipelineService.Restart). *)
THEOREM RestartIsHonest == Spec => []RestartReplaces
<1>1. IInv => RestartReplaces
  <2> SUFFICES ASSUME IInv PROVE RestartReplaces
    OBVIOUS
  <2>1. \A c \in All : Blocked(c)
    BY DEF IInv
  <2> QED  BY <2>1 DEF RestartReplaces, Blocked, At, Arg
<1> QED  BY <1>1, GroupsInvariant, PTL

(* A structural edit that nothing overlapped strands no process: the repository's
   view at the check covers what runs until the write (UpdatePipeline,
   DeletePipeline). *)
THEOREM EditsStrandNothing == Spec => []EditStrandsNothing
<1>1. IInv => EditStrandsNothing
  <2> SUFFICES ASSUME IInv PROVE EditStrandsNothing
    OBVIOUS
  <2>1. \A c \in quiet : Quiet(c)
    BY DEF IInv, Types, DocTypes
  <2> QED  BY <2>1 DEF EditStrandsNothing, Quiet, Arg
<1> QED  BY <1>1, GroupsInvariant, PTL


=============================================================================
