-------------------------- MODULE CloudQueueProofs --------------------------
(***************************************************************************)
(* No race between commands binds a state to a response it was not         *)
(* classified for: for any number of commands, requests, responses and     *)
(* crashes.  While one command runs at a time, a request has one file, an  *)
(* approval its request, an exported request its packet, and the moves     *)
(* implement the life of a request.                                        *)
(*                                                                         *)
(* No property is inductive: a command writes what it read when it         *)
(* started.  IInv adds that what a command in flight is going to write is  *)
(* good (GoodFile), which no other command can take back; SInv adds, for   *)
(* one command at a time, that what it read is still so (UpToDate); PInv   *)
(* adds who keeps the packet of a request: one that can not be exported    *)
(* again (Keeps).                                                          *)
(***************************************************************************)
EXTENDS CloudQueueProps, TLAPS

Classified == {"validated_safe", "validated_failed", "approval_required"}

\* A request may have a file in state s that is bound to r.
GoodFile(s, r) ==
    /\ s \in Classified => r \in Responses /\ Verdict(r) = s
    /\ s = "imported" => r \in Responses
    /\ s = "approved" => r \in Escalated

FilesGood == \A q \in Requests, s \in States : HasFile(q, s) => GoodFile(s, files[q][s])

ApprovalsGood == \A q \in Requests : approvals[q] # "absent" => approvals[q] \in Escalated

WorkerInv(w) ==
    /\ wk[w].pc \notin {"idle", "sending"} => wk[w].q \in Requests
    /\ wk[w].pc \in {"unlink", "write"} => GoodFile(wk[w].to, wk[w].resp)
    /\ wk[w].pc = "response" => wk[w].to = "imported" /\ wk[w].resp \in Responses
    /\ wk[w].pc = "record" => wk[w].resp \in Escalated

IInv ==
    /\ TypeOK
    /\ FilesGood
    /\ ApprovalsGood
    /\ \A w \in Workers : WorkerInv(w)

-----------------------------------------------------------------------------
(* The transition map and the classification *)

LEMMA StatesAre ==
    States = {"new", "ready", "exported", "imported", "classified_safe", "approval_required",
              "validated_safe", "validated_failed", "approved", "rejected", "canceled", "failed"}
BY DEF States, TransitionMap

\* classify_response has three outcomes, and only one needs the operator.
LEMMA VerdictType ==
    ASSUME NEW r \in Responses
    PROVE  /\ Verdict(r) \in Classified
           /\ Verdict(r) = "approval_required" => r \in Escalated
BY DEF Verdict, Classified, Responses

LEMMA Distinct == "blank" \notin Responses /\ "absent" \notin Responses
BY ResponseAssumption

-----------------------------------------------------------------------------
(* Steps of a command *)

LEMMA IdleType == IdleWorker \in Worker
BY StatesAre DEF IdleWorker, Worker, Labels

\* A process that stops knows nothing.
LEMMA StopStep ==
    ASSUME wk \in [Workers -> Worker], NEW w \in Workers, Stop(w)
    PROVE  /\ wk' \in [Workers -> Worker]
           /\ \A v \in Workers \ {w} : wk'[v] = wk[v]
           /\ WorkerInv(w)'
BY IdleType DEF Stop, WorkerInv, IdleWorker

\* What a command is going to write stays good while the others work.
LEMMA OthersKeep ==
    ASSUME NEW w \in Workers, \A v \in Workers : WorkerInv(v),
           \A v \in Workers \ {w} : wk'[v] = wk[v],
           WorkerInv(w)'
    PROVE  \A v \in Workers : WorkerInv(v)'
BY DEF WorkerInv, GoodFile

\* Writing a good file, or removing one, keeps the files good.
LEMMA WriteFile ==
    ASSUME TypeOK, FilesGood, NEW q \in Requests, NEW s \in States, NEW r \in Contents,
           files' = [files EXCEPT ![q][s] = r],
           r # "absent" => GoodFile(s, r)
    PROVE  files' \in [Requests -> [States -> Contents]] /\ FilesGood'
<1>1. files' \in [Requests -> [States -> Contents]]
  BY DEF TypeOK
<1>2. ASSUME NEW p \in Requests, NEW t \in States
      PROVE  files'[p][t] = IF p = q /\ t = s THEN r ELSE files[p][t]
  BY DEF TypeOK
<1>3. FilesGood'
  BY <1>2 DEF FilesGood, HasFile, GoodFile
<1> QED
  BY <1>1, <1>3

\* Files that nobody touches.
LEMMA SameFiles ==
    ASSUME FilesGood, files' = files
    PROVE  FilesGood'
BY DEF FilesGood, HasFile, GoodFile

\* A command goes on to move a request: the process stays well typed.
LEMMA MoveFromType ==
    ASSUME wk \in [Workers -> Worker], NEW w \in Workers, NEW q \in Requests,
           NEW from \in States, NEW to \in States, NEW r \in Responses \cup {"blank"},
           NEW l \in Labels,
           wk' = [wk EXCEPT ![w].pc = l, ![w].q = q, ![w].from = from, ![w].to = to,
                            ![w].resp = r]
    PROVE  /\ wk' \in [Workers -> Worker]
           /\ \A v \in Workers \ {w} : wk'[v] = wk[v]
           /\ wk'[w] = [wk[w] EXCEPT !.pc = l, !.q = q, !.from = from, !.to = to, !.resp = r]
<1> DEFINE new == [wk[w] EXCEPT !.pc = l, !.q = q, !.from = from, !.to = to, !.resp = r]
<1>1. new \in Worker
  BY DEF Worker
<1>2. wk' = [wk EXCEPT ![w] = new]
  OBVIOUS
<1> HIDE DEF new
<1> QED
  BY <1>1, <1>2 DEF new

\* A command goes on with the same memory.
LEMMA LabelType ==
    ASSUME wk \in [Workers -> Worker], NEW w \in Workers, NEW l \in Labels,
           wk' = [wk EXCEPT ![w].pc = l]
    PROVE  /\ wk' \in [Workers -> Worker]
           /\ \A v \in Workers \ {w} : wk'[v] = wk[v]
           /\ wk'[w] = [wk[w] EXCEPT !.pc = l]
<1> DEFINE new == [wk[w] EXCEPT !.pc = l]
<1>1. new \in Worker
  BY DEF Worker
<1>2. wk' = [wk EXCEPT ![w] = new]
  OBVIOUS
<1> HIDE DEF new
<1> QED
  BY <1>1, <1>2 DEF new

-----------------------------------------------------------------------------
(* The actions *)

LEMMA CreateInv ==
    ASSUME IInv, NEW w \in Workers, NEW q \in Requests, CreateRequest(w, q)
    PROVE  IInv'
<1> DEFINE new == [wk[w] EXCEPT !.pc = "created", !.q = q]
<1>1. new \in Worker
  <2>1. wk[w] \in Worker
    BY DEF IInv, TypeOK
  <2> QED
    BY <2>1 DEF Worker, Labels
<1>2. wk' = [wk EXCEPT ![w] = new]
  BY DEF CreateRequest
<1> USE DEF CreateRequest
<1>3. /\ wk' \in [Workers -> Worker] /\ wk'[w] = new
      /\ \A v \in Workers \ {w} : wk'[v] = wk[v]
  <2>1. wk \in [Workers -> Worker]
    BY DEF IInv, TypeOK
  <2> HIDE DEF new, CreateRequest
  <2> QED
    BY <1>1, <1>2, <2>1
<1>4. WorkerInv(w)'
  BY <1>3 DEF IInv, WorkerInv, At
<1>5. files' \in [Requests -> [States -> Contents]] /\ FilesGood'
  <2>1. "ready" \in States /\ "blank" \in Contents /\ GoodFile("ready", "blank")
    BY StatesAre, Distinct DEF Contents, GoodFile, Classified
  <2> QED
    BY <2>1, WriteFile DEF IInv
<1>6. \A v \in Workers : WorkerInv(v)'
  BY <1>3, <1>4, OthersKeep DEF IInv
<1>7. /\ deps' \in [Requests -> SUBSET Requests] /\ ids' \subseteq Requests
      /\ batch' \in [Requests -> Batches \cup {"none"}]
  BY DEF IInv, TypeOK
<1> QED
  BY <1>3, <1>5, <1>6, <1>7 DEF IInv, TypeOK, ApprovalsGood

LEMMA SaveCreatedInv ==
    ASSUME IInv, NEW w \in Workers, SaveCreated(w)
    PROVE  IInv'
<1> USE DEF SaveCreated
<1>1. wk[w].q \in Requests
  BY DEF IInv, WorkerInv, At
<1>2. "ready" \in States /\ "blank" \in Contents /\ GoodFile("ready", "blank")
  BY StatesAre, Distinct DEF Contents, GoodFile, Classified
<1>3. files' \in [Requests -> [States -> Contents]] /\ FilesGood'
  BY <1>1, <1>2, WriteFile DEF IInv
<1>4. wk' \in [Workers -> Worker] /\ \A v \in Workers : WorkerInv(v)'
  BY StopStep, OthersKeep DEF IInv, TypeOK
<1> QED
  BY <1>3, <1>4 DEF IInv, TypeOK, ApprovalsGood, static

\* A command that has a batch id goes on with the packet under that id.
LEMMA BatchType ==
    ASSUME TypeOK, NEW w \in Workers, wk[w].q \in Requests,
           NEW p \in Packet, packets' = [packets EXCEPT ![BatchOf(w)] = p]
    PROVE  packets' \in [Batches -> Packet]
BY DEF TypeOK

LEMMA ExportStartInv ==
    ASSUME IInv, NEW w \in Workers, ExportStart(w)
    PROVE  IInv'
<1>1. PICK todo \in SUBSET Requests, q \in Requests :
         q \in todo /\ wk' = [wk EXCEPT ![w].pc = "opening", ![w].q = q, ![w].todo = todo]
  BY DEF ExportStart
<1> DEFINE new == [wk[w] EXCEPT !.pc = "opening", !.q = q, !.todo = todo]
<1>2. new \in Worker
  <2>1. wk[w] \in Worker
    BY DEF IInv, TypeOK
  <2> QED
    BY <2>1 DEF Worker, Labels
<1>3. wk' = [wk EXCEPT ![w] = new]
  BY <1>1
<1>4. /\ wk' \in [Workers -> Worker] /\ wk'[w] = new
      /\ \A v \in Workers \ {w} : wk'[v] = wk[v]
  <2> HIDE DEF new
  <2> QED
    BY <1>2, <1>3 DEF IInv, TypeOK
<1>5. WorkerInv(w)'
  BY <1>4 DEF WorkerInv
<1>6. \A v \in Workers : WorkerInv(v)'
  BY <1>4, <1>5, OthersKeep DEF IInv
<1> QED
  BY <1>4, <1>6, SameFiles DEF IInv, TypeOK, ApprovalsGood, ExportStart, static

LEMMA PacketInv ==
    ASSUME IInv, NEW w \in Workers, OpenPacket(w) \/ WritePacket(w) \/ PacketFails(w)
    PROVE  IInv'
<1>1. wk[w] \in Worker /\ wk[w].q \in Requests /\ wk \in [Workers -> Worker]
  BY DEF IInv, TypeOK, WorkerInv, OpenPacket, WritePacket, PacketFails, At
<1>2. packets' \in [Batches -> Packet]
  <2>1. PICK p \in Packet : packets' = [packets EXCEPT ![BatchOf(w)] = p]
    BY DEF OpenPacket, WritePacket, PacketFails, ClosePacket, Packet
  <2> QED
    BY <1>1, <2>1, BatchType DEF IInv
<1>3. wk' \in [Workers -> Worker] /\ \A v \in Workers : WorkerInv(v)'
  <2>1. ASSUME NEW l \in {"packing", "sending"}, wk' = [wk EXCEPT ![w].pc = l]
        PROVE  wk' \in [Workers -> Worker] /\ \A v \in Workers : WorkerInv(v)'
    <3>1. l \in Labels
      BY DEF Labels
    <3>2. /\ wk' \in [Workers -> Worker]
          /\ \A v \in Workers \ {w} : wk'[v] = wk[v]
          /\ wk'[w] = [wk[w] EXCEPT !.pc = l]
      BY <1>1, <2>1, <3>1, LabelType
    <3>3. WorkerInv(w)'
      BY <1>1, <3>2 DEF WorkerInv, Worker
    <3> QED
      BY <3>2, <3>3, OthersKeep DEF IInv
  <2>2. CASE PacketFails(w)
    BY <1>1, <2>2, StopStep, OthersKeep DEF IInv, PacketFails
  <2> QED
    BY <2>1, <2>2 DEF OpenPacket, WritePacket
<1> QED
  BY <1>2, <1>3, SameFiles
     DEF IInv, TypeOK, ApprovalsGood, OpenPacket, WritePacket, PacketFails, static

LEMMA SendInv ==
    ASSUME IInv, NEW w \in Workers, SendNext(w) \/ SendDone(w)
    PROVE  IInv'
<1>1. CASE SendNext(w)
  <2>1. PICK q \in wk[w].todo :
           wk' = [wk EXCEPT ![w].pc = "unlink", ![w].q = q, ![w].from = "ready",
                            ![w].to = "exported", ![w].todo = @ \ {q}]
    BY <1>1 DEF SendNext, Send
  <2> DEFINE new == [wk[w] EXCEPT !.pc = "unlink", !.q = q, !.from = "ready",
                                  !.to = "exported", !.todo = wk[w].todo \ {q}]
  <2>2. new \in Worker /\ q \in Requests
    <3>1. wk[w] \in Worker
      BY DEF IInv, TypeOK
    <3> QED
      BY <3>1, StatesAre DEF Worker, Labels
  <2>3. wk' = [wk EXCEPT ![w] = new]
    BY <2>1
  <2>4. /\ wk' \in [Workers -> Worker] /\ wk'[w] = new
        /\ \A v \in Workers \ {w} : wk'[v] = wk[v]
    <3> HIDE DEF new
    <3> QED
      BY <2>2, <2>3 DEF IInv, TypeOK
  <2>5. WorkerInv(w)'
    <3>1. wk[w] \in Worker
      BY DEF IInv, TypeOK
    <3>2. wk'[w].pc = "unlink" /\ wk'[w].q = q /\ wk'[w].to = "exported"
      BY <2>4, <3>1 DEF Worker
    <3> QED
      BY <2>2, <3>2 DEF WorkerInv, GoodFile, Classified
  <2>6. \A v \in Workers : WorkerInv(v)'
    BY <2>4, <2>5, OthersKeep DEF IInv
  <2> QED
    BY <1>1, <2>4, <2>6, SameFiles DEF IInv, TypeOK, ApprovalsGood, SendNext, static
<1>2. CASE SendDone(w)
  <2>1. wk' \in [Workers -> Worker] /\ \A v \in Workers : WorkerInv(v)'
    BY <1>2, StopStep, OthersKeep DEF IInv, TypeOK, SendDone
  <2> QED
    BY <1>2, <2>1, SameFiles DEF IInv, TypeOK, ApprovalsGood, SendDone, static
<1> QED
  BY <1>1, <1>2

LEMMA ImportStartInv ==
    ASSUME IInv, NEW w \in Workers, NEW q \in Requests, ImportStart(w, q)
    PROVE  IInv'
<1>1. PICK s \in States, r \in Responses :
         HasFile(q, s) /\ MoveFrom(w, q, s, "imported", r, "response")
  BY DEF ImportStart
<1>2. /\ "imported" \in States /\ "response" \in Labels
      /\ r \in Responses \cup {"blank"} /\ wk \in [Workers -> Worker]
  BY StatesAre DEF Labels, IInv, TypeOK
<1>3. /\ wk' \in [Workers -> Worker]
      /\ \A v \in Workers \ {w} : wk'[v] = wk[v]
      /\ wk'[w] = [wk[w] EXCEPT !.pc = "response", !.q = q, !.from = s, !.to = "imported",
                                !.resp = r]
  BY <1>1, <1>2, MoveFromType DEF MoveFrom
<1>5. WorkerInv(w)'
  <2>1. wk[w] \in Worker
    BY DEF IInv, TypeOK
  <2> QED
    BY <1>3, <2>1 DEF WorkerInv, Worker
<1>6. \A v \in Workers : WorkerInv(v)'
  BY <1>3, <1>5, OthersKeep DEF IInv, ImportStart
<1> QED
  BY <1>3, <1>6, SameFiles DEF IInv, TypeOK, ApprovalsGood, ImportStart, static

LEMMA SaveResponseInv ==
    ASSUME IInv, NEW w \in Workers, SaveResponse(w)
    PROVE  IInv'
<1>1. wk[w] \in Worker /\ WorkerInv(w) /\ wk[w].pc = "response"
  BY DEF IInv, TypeOK, SaveResponse, At
<1>2. imports' \in [Requests -> Responses \cup {"absent"}]
  BY <1>1 DEF IInv, TypeOK, SaveResponse, WorkerInv
<1>3. wk' \in [Workers -> Worker] /\ \A v \in Workers : WorkerInv(v)'
  <2>1. CASE "imported" \in TransitionMap[wk[w].from]
    <3>1. wk' = [wk EXCEPT ![w].pc = "unlink"] /\ "unlink" \in Labels
      BY <2>1 DEF SaveResponse, Labels
    <3>2. /\ wk' \in [Workers -> Worker]
          /\ \A v \in Workers \ {w} : wk'[v] = wk[v]
          /\ wk'[w] = [wk[w] EXCEPT !.pc = "unlink"]
      BY <3>1, LabelType DEF IInv, TypeOK
    <3>3. GoodFile(wk[w].to, wk[w].resp)
      BY <1>1 DEF WorkerInv, GoodFile, Classified
    <3>4. WorkerInv(w)'
      BY <1>1, <3>2, <3>3 DEF WorkerInv, GoodFile, Worker
    <3> QED
      BY <3>2, <3>4, OthersKeep DEF IInv, SaveResponse
  <2>2. CASE "imported" \notin TransitionMap[wk[w].from]
    BY <2>2, StopStep, OthersKeep DEF IInv, TypeOK, SaveResponse
  <2> QED
    BY <2>1, <2>2
<1> QED
  BY <1>2, <1>3, SameFiles DEF IInv, TypeOK, ApprovalsGood, SaveResponse, static

\* approve, reject, cancel and fail: a command that moves a file whose content
\* is good for the state it goes to.
LEMMA MoveInv ==
    ASSUME IInv, NEW w \in Workers, NEW q \in Requests, NEW s \in States, NEW to \in States,
           HasFile(q, s), GoodFile(to, files[q][s]), At(w, "idle"),
           MoveFrom(w, q, s, to, files[q][s], "unlink"),
           UNCHANGED <<files, static, packets, imports, approvals, crashes>>
    PROVE  IInv'
<1>1. /\ files[q][s] \in Responses \cup {"blank"} /\ "unlink" \in Labels
      /\ wk \in [Workers -> Worker]
  BY DEF IInv, TypeOK, Contents, HasFile, Labels
<1>2. /\ wk' \in [Workers -> Worker]
      /\ \A v \in Workers \ {w} : wk'[v] = wk[v]
      /\ wk'[w] = [wk[w] EXCEPT !.pc = "unlink", !.q = q, !.from = s, !.to = to,
                                !.resp = files[q][s]]
  BY <1>1, MoveFromType DEF MoveFrom
<1>3. WorkerInv(w)'
  <2>1. wk[w] \in Worker
    BY DEF IInv, TypeOK
  <2> QED
    BY <1>2, <2>1 DEF WorkerInv, Worker, GoodFile
<1>4. \A v \in Workers : WorkerInv(v)'
  BY <1>2, <1>3, OthersKeep DEF IInv
<1> QED
  BY <1>2, <1>4, SameFiles DEF IInv, TypeOK, ApprovalsGood, static

LEMMA DecisionInv ==
    ASSUME IInv, NEW w \in Workers, NEW q \in Requests, Approve(w, q) \/ Decide(w, q)
    PROVE  IInv'
<1>1. CASE Approve(w, q)
  <2> DEFINE s == "approval_required"
  <2>1. HasFile(q, s) /\ s \in States /\ "approved" \in States
    BY <1>1, StatesAre DEF Approve, Located
  <2>2. GoodFile(s, files[q][s])
    BY <2>1 DEF IInv, FilesGood
  <2>3. files[q][s] \in Escalated
    BY <2>2, VerdictType DEF GoodFile, Classified
  <2>4. GoodFile("approved", files[q][s])
    BY <2>3 DEF GoodFile, Classified
  <2> QED
    BY <1>1, <2>1, <2>4, MoveInv DEF Approve
<1>2. CASE Decide(w, q)
  <2>1. PICK s \in States, to \in {"rejected", "canceled", "failed"} :
           Located(q, s) /\ MoveFrom(w, q, s, to, files[q][s], "unlink")
    BY <1>2 DEF Decide
  <2>2. HasFile(q, s) /\ to \in States
    BY <2>1, StatesAre DEF Located
  <2>3. GoodFile(s, files[q][s])
    BY <2>2 DEF IInv, FilesGood
  <2>4. GoodFile(to, files[q][s])
    BY <2>3 DEF GoodFile, Classified
  <2> QED
    BY <1>2, <2>1, <2>2, <2>4, MoveInv DEF Decide
<1> QED
  BY <1>1, <1>2

LEMMA UnlinkInv ==
    ASSUME IInv, NEW w \in Workers, Unlink(w) \/ UnlinkMissing(w)
    PROVE  IInv'
<1>1. /\ wk[w].pc = "unlink" /\ wk[w] \in Worker /\ WorkerInv(w)
      /\ wk \in [Workers -> Worker] /\ "write" \in Labels
  BY DEF IInv, TypeOK, Unlink, UnlinkMissing, At, Labels
<1>2. CASE wk' = [wk EXCEPT ![w].pc = "write"]
  <2>1. /\ wk' \in [Workers -> Worker]
        /\ \A v \in Workers \ {w} : wk'[v] = wk[v]
        /\ wk'[w] = [wk[w] EXCEPT !.pc = "write"]
    BY <1>1, <1>2, LabelType
  <2>2. WorkerInv(w)'
    BY <1>1, <2>1 DEF WorkerInv, GoodFile, Worker
  <2>3. \A v \in Workers : WorkerInv(v)'
    BY <1>1, <2>1, <2>2, OthersKeep DEF IInv
  <2>4. files' \in [Requests -> [States -> Contents]] /\ FilesGood'
    <3>1. CASE Unlink(w)
      <4>1. "absent" \in Contents /\ wk[w].q \in Requests /\ wk[w].from \in States
        BY <1>1 DEF Contents, WorkerInv, Worker
      <4> QED
        BY <3>1, <4>1, <1>1, WriteFile DEF IInv, Unlink
    <3>2. CASE UnlinkMissing(w)
      BY <3>2, SameFiles DEF IInv, TypeOK, UnlinkMissing
    <3> QED
      BY <3>1, <3>2
  <2> QED
    BY <2>1, <2>3, <2>4 DEF IInv, TypeOK, ApprovalsGood, Unlink, UnlinkMissing, static
<1>3. CASE UnlinkMissing(w) /\ Stop(w)
  <2>1. wk' \in [Workers -> Worker] /\ \A v \in Workers : WorkerInv(v)'
    BY <1>1, <1>3, StopStep, OthersKeep DEF IInv
  <2> QED
    BY <1>3, <2>1, SameFiles DEF IInv, TypeOK, ApprovalsGood, UnlinkMissing, static
<1> QED
  BY <1>2, <1>3 DEF Unlink, UnlinkMissing, Stop

LEMMA WriteMovedInv ==
    ASSUME IInv, NEW w \in Workers, WriteMoved(w)
    PROVE  IInv'
<1> DEFINE q == wk[w].q
           to == wk[w].to
           r == wk[w].resp
<1>1. /\ wk[w].pc = "write" /\ wk[w] \in Worker /\ WorkerInv(w)
      /\ wk \in [Workers -> Worker]
  BY DEF IInv, TypeOK, WriteMoved, At
<1>2. q \in Requests /\ to \in States /\ r \in Contents /\ r \in Responses \cup {"blank"}
      /\ GoodFile(to, r)
  BY <1>1 DEF WorkerInv, Worker, Contents
<1>3. files' \in [Requests -> [States -> Contents]] /\ FilesGood'
  BY <1>1, <1>2, WriteFile DEF IInv, WriteMoved
<1>4. wk' \in [Workers -> Worker] /\ \A v \in Workers : WorkerInv(v)'
  <2>1. CASE to = "imported"
    <3>1. r \in Responses /\ Verdict(r) \in Classified
      BY <1>2, <2>1, VerdictType DEF GoodFile
    <3>2. Verdict(r) \in States /\ "imported" \in States /\ "unlink" \in Labels
      BY <3>1, StatesAre DEF Classified, Labels
    <3>3. GoodFile(Verdict(r), r)
      BY <3>1 DEF GoodFile, Classified
    <3>4. wk' = [wk EXCEPT ![w].pc = "unlink", ![w].q = q, ![w].from = "imported",
                           ![w].to = Verdict(r), ![w].resp = r]
      BY <2>1 DEF WriteMoved, MoveFrom
    <3>5. /\ wk' \in [Workers -> Worker]
          /\ \A v \in Workers \ {w} : wk'[v] = wk[v]
          /\ wk'[w] = [wk[w] EXCEPT !.pc = "unlink", !.q = q, !.from = "imported",
                                    !.to = Verdict(r), !.resp = r]
      <4> DEFINE v == Verdict(r)
      <4>1. v \in States
        BY <3>2
      <4>2. wk' = [wk EXCEPT ![w].pc = "unlink", ![w].q = q, ![w].from = "imported",
                             ![w].to = v, ![w].resp = r]
        BY <3>4
      <4> HIDE DEF v, q, r
      <4>3. /\ wk' \in [Workers -> Worker]
            /\ \A u \in Workers \ {w} : wk'[u] = wk[u]
            /\ wk'[w] = [wk[w] EXCEPT !.pc = "unlink", !.q = q, !.from = "imported",
                                      !.to = v, !.resp = r]
        BY <1>1, <1>2, <3>2, <4>1, <4>2, MoveFromType
      <4> QED
        BY <4>3 DEF v, q, r
    <3>6. WorkerInv(w)'
      BY <1>1, <1>2, <3>3, <3>5 DEF WorkerInv, GoodFile, Worker
    <3> QED
      BY <1>1, <3>5, <3>6, OthersKeep DEF IInv
  <2>2. ASSUME NEW l \in {"record", "sending"}, wk' = [wk EXCEPT ![w].pc = l],
               l = "record" => to = "approved"
        PROVE  wk' \in [Workers -> Worker] /\ \A v \in Workers : WorkerInv(v)'
    <3>1. l \in Labels
      BY DEF Labels
    <3>2. /\ wk' \in [Workers -> Worker]
          /\ \A v \in Workers \ {w} : wk'[v] = wk[v]
          /\ wk'[w] = [wk[w] EXCEPT !.pc = l]
      BY <1>1, <2>2, <3>1, LabelType
    <3>3. l = "record" => r \in Escalated
      BY <1>2, <2>2 DEF GoodFile
    <3>4. WorkerInv(w)'
      BY <1>1, <1>2, <3>2, <3>3 DEF WorkerInv, Worker
    <3> QED
      BY <1>1, <3>2, <3>4, OthersKeep DEF IInv
  <2>3. CASE to = "approved"
    BY <2>2, <2>3 DEF WriteMoved
  <2>4. CASE to = "exported"
    BY <2>2, <2>4 DEF WriteMoved
  <2>5. CASE to \notin {"imported", "approved", "exported"}
    <3>1. Stop(w)
      BY <2>5 DEF WriteMoved
    <3> QED
      BY <1>1, <3>1, StopStep, OthersKeep DEF IInv
  <2> QED
    BY <2>1, <2>3, <2>4, <2>5
<1> QED
  BY <1>3, <1>4 DEF IInv, TypeOK, ApprovalsGood, WriteMoved, static

LEMMA RecordApprovalInv ==
    ASSUME IInv, NEW w \in Workers, RecordApproval(w)
    PROVE  IInv'
<1>1. wk[w].q \in Requests /\ wk[w].resp \in Escalated
  BY DEF IInv, RecordApproval, At, WorkerInv
<1>2. approvals' \in [Requests -> Responses \cup {"blank", "absent"}] /\ ApprovalsGood'
  BY <1>1 DEF IInv, TypeOK, RecordApproval, ApprovalsGood, Responses
<1>3. wk' \in [Workers -> Worker] /\ \A v \in Workers : WorkerInv(v)'
  BY StopStep, OthersKeep DEF IInv, TypeOK, RecordApproval
<1> QED
  BY <1>2, <1>3, SameFiles DEF IInv, TypeOK, RecordApproval, static

-----------------------------------------------------------------------------
(* The theorems *)

LEMMA InitInv == Init => IInv
<1> SUFFICES ASSUME Init PROVE IInv
  OBVIOUS
<1>1. TypeOK
  BY IdleType, ResponseAssumption DEF Init, TypeOK, Contents, Packet
<1>2. FilesGood /\ ApprovalsGood
  BY DEF Init, FilesGood, HasFile, ApprovalsGood
<1>3. \A w \in Workers : WorkerInv(w)
  BY DEF Init, WorkerInv, IdleWorker
<1> QED
  BY <1>1, <1>2, <1>3 DEF IInv

LEMMA NextInv == IInv /\ [Next]_vars => IInv'
<1> SUFFICES ASSUME IInv, [Next]_vars PROVE IInv'
  OBVIOUS
<1>1. ASSUME NEW w \in Workers, Crash(w) PROVE IInv'
  <2>1. wk' \in [Workers -> Worker] /\ \A v \in Workers : WorkerInv(v)'
    BY <1>1, StopStep, OthersKeep DEF IInv, TypeOK, Crash
  <2>2. crashes' \in 0..MaxCrashes
    BY <1>1, ResponseAssumption DEF IInv, TypeOK, Crash
  <2> QED
    BY <1>1, <2>1, <2>2, SameFiles DEF IInv, TypeOK, ApprovalsGood, Crash, static
<1>2. CASE UNCHANGED vars
  <2>1. FilesGood' /\ ApprovalsGood'
    BY <1>2, SameFiles DEF vars, IInv, ApprovalsGood
  <2>2. TypeOK' /\ \A w \in Workers : WorkerInv(w)'
    BY <1>2 DEF vars, IInv, TypeOK, WorkerInv, GoodFile
  <2> QED
    BY <2>1, <2>2 DEF IInv
<1> QED
  BY <1>1, <1>2, CreateInv, SaveCreatedInv, ExportStartInv, PacketInv, SendInv, ImportStartInv, SaveResponseInv,
     DecisionInv, UnlinkInv, WriteMovedInv, RecordApprovalInv DEF Next

LEMMA Invariance == Spec => []IInv
BY InitInv, NextInv, PTL DEF Spec

\* The files and the processes keep their types, however many commands run at
\* the same time (state_machine.py, models.py).
THEOREM TypeCorrect == Spec => []TypeOK
<1>1. IInv => TypeOK
  BY DEF IInv
<1> QED
  BY <1>1, Invariance, PTL

\* No interleaving and no crash puts a response into a classified or approved
\* state, or into an approval record, that its own classification did not earn
\* (import_single_response, approve_cloud_queue_request).
THEOREM Bound == Spec => []ClassificationBinds
<1>1. IInv => ClassificationBinds
  BY StatesAre DEF IInv, FilesGood, ApprovalsGood, GoodFile, ClassificationBinds, Classified
<1> QED
  BY <1>1, Invariance, PTL

-----------------------------------------------------------------------------
(* One command at a time: the sequential invariant *)

\* No two commands run at the same time.
OneAtATime == \A v, w \in Workers : v = w

Missing(q) == \A s \in States : ~HasFile(q, s)

\* What the only command knows still holds when it acts on it.
UpToDate(w) ==
    /\ wk[w].pc = "created" => wk[w].q \in ids /\ HasFile(wk[w].q, "ready")
    /\ wk[w].pc \in {"response", "unlink"} => HasFile(wk[w].q, wk[w].from)
    /\ wk[w].pc \in {"unlink", "write"} => wk[w].to \in TransitionMap[wk[w].from]
    /\ wk[w].pc = "write" =>
          Missing(wk[w].q) /\ wk[w].q \in ids /\ wk[w].from # "new"
    /\ wk[w].pc = "record" => files[wk[w].q]["approved"] = wk[w].resp
    /\ wk[w].pc = "idle" => wk[w].todo = {}
    /\ \A p \in wk[w].todo :
          /\ HasFile(p, "ready")
          /\ wk[w].pc \in {"response", "unlink", "write"} => p # wk[w].q

SInv ==
    /\ IInv
    /\ OneAtATime
    /\ \A q \in Requests : q \notin ids => Missing(q)
    /\ \A q \in Requests : ~HasFile(q, "new")
    /\ OneFilePerRequest
    /\ ApprovalMatchesRequest
    /\ \A w \in Workers : UpToDate(w)

\* A step that touches neither the files nor the records of the queue.
LEMMA QuietStep ==
    ASSUME SInv, IInv', UNCHANGED <<files, ids, approvals>>, \A w \in Workers : UpToDate(w)'
    PROVE  SInv'
BY DEF SInv, OneAtATime, Missing, HasFile, OneFilePerRequest, ApprovalMatchesRequest

\* A command that stops knows nothing that could be out of date.
LEMMA StopUpToDate ==
    ASSUME SInv, NEW w \in Workers, Stop(w)
    PROVE  \A v \in Workers : UpToDate(v)'
<1>1. wk'[w] = IdleWorker
  BY DEF SInv, IInv, TypeOK, Stop
<1>2. UpToDate(w)'
  BY <1>1 DEF UpToDate, IdleWorker
<1> QED
  BY <1>2 DEF SInv, OneAtATime

LEMMA CreateUpToDate ==
    ASSUME SInv, IInv', NEW w \in Workers, NEW q \in Requests, CreateRequest(w, q)
    PROVE  SInv'
<1>1. "ready" \in States /\ "new" \in States /\ "approved" \in States /\ TypeOK
      /\ "blank" \in Contents
      /\ wk[w].pc = "idle" /\ wk[w] \in Worker /\ wk[w].todo = {} /\ Missing(q)
  BY StatesAre DEF SInv, IInv, TypeOK, CreateRequest, At, UpToDate, Contents
<1>2. \A p \in Requests, t \in States :
         files'[p][t] = IF p = q /\ t = "ready" THEN "blank" ELSE files[p][t]
  <2>1. files' = [files EXCEPT ![q]["ready"] = "blank"]
    BY DEF CreateRequest
  <2> QED
    BY <1>1, <2>1 DEF TypeOK
<1>3. wk'[w] = [wk[w] EXCEPT !.pc = "created", !.q = q]
  BY DEF SInv, IInv, TypeOK, CreateRequest
<1>4. /\ wk'[w].pc = "created" /\ wk'[w].q = q /\ wk'[w].todo = {}
  BY <1>1, <1>3 DEF Worker
<1>5. UpToDate(w)'
  <2>1. q \in ids' /\ HasFile(q, "ready")'
    BY <1>1, <1>2, Distinct DEF HasFile, CreateRequest
  <2> QED
    BY <1>4, <2>1 DEF UpToDate
<1>6. OneFilePerRequest'
  BY <1>1, <1>2 DEF SInv, OneFilePerRequest, HasFile, Missing
<1>7. ApprovalMatchesRequest'
  BY <1>1, <1>2 DEF SInv, ApprovalMatchesRequest, CreateRequest
<1>8. \A p \in Requests : (p \notin ids' => Missing(p)') /\ ~HasFile(p, "new")'
  BY <1>1, <1>2 DEF SInv, Missing, HasFile, CreateRequest
<1> QED
  BY <1>5, <1>6, <1>7, <1>8 DEF SInv, OneAtATime

LEMMA SaveCreatedUpToDate ==
    ASSUME SInv, IInv', NEW w \in Workers, SaveCreated(w)
    PROVE  SInv'
<1> DEFINE q == wk[w].q
<1>1. "ready" \in States /\ "new" \in States /\ "approved" \in States /\ TypeOK
      /\ "blank" \in Contents
      /\ q \in Requests /\ q \in ids /\ HasFile(q, "ready")
  BY StatesAre DEF SInv, IInv, SaveCreated, At, UpToDate, WorkerInv, Contents
<1>2. \A p \in Requests, t \in States :
         files'[p][t] = IF p = q /\ t = "ready" THEN "blank" ELSE files[p][t]
  BY <1>1 DEF TypeOK, SaveCreated
<1>3. \A v \in Workers : UpToDate(v)'
  BY StopUpToDate DEF SaveCreated
<1>4. OneFilePerRequest'
  BY <1>1, <1>2 DEF SInv, OneFilePerRequest, HasFile
<1>5. ApprovalMatchesRequest'
  BY <1>1, <1>2 DEF SInv, ApprovalMatchesRequest, SaveCreated
<1>6. \A p \in Requests : (p \notin ids' => Missing(p)') /\ ~HasFile(p, "new")'
  BY <1>1, <1>2 DEF SInv, Missing, HasFile, SaveCreated, static
<1> QED
  BY <1>3, <1>4, <1>5, <1>6 DEF SInv, OneAtATime

LEMMA ExportStartUpToDate ==
    ASSUME SInv, IInv', NEW w \in Workers, ExportStart(w)
    PROVE  SInv'
<1>1. wk[w] \in Worker /\ UNCHANGED <<files, ids, approvals>>
  BY DEF SInv, IInv, TypeOK, ExportStart, static
<1>2. PICK todo \in SUBSET Requests, q \in Requests :
         /\ q \in todo
         /\ todo = {p \in Requests : Exportable(p)}
            \/ \E p \in {r \in Requests : Exportable(r)} : todo = {p}
         /\ wk' = [wk EXCEPT ![w].pc = "opening", ![w].q = q, ![w].todo = todo]
  BY DEF ExportStart
<1>3. wk'[w] = [wk[w] EXCEPT !.pc = "opening", !.q = q, !.todo = todo]
  BY <1>2 DEF SInv, IInv, TypeOK
<1>4. wk'[w].pc = "opening" /\ wk'[w].q = q /\ wk'[w].todo = todo
  BY <1>1, <1>3 DEF Worker
<1>5. \A p \in todo : HasFile(p, "ready")'
  BY <1>1, <1>2 DEF Exportable, HasFile
<1> QED
  BY <1>1, <1>4, <1>5, QuietStep DEF UpToDate, SInv, OneAtATime

LEMMA PacketUpToDate ==
    ASSUME SInv, IInv', NEW w \in Workers, OpenPacket(w) \/ WritePacket(w) \/ PacketFails(w)
    PROVE  SInv'
<1>1. wk[w] \in Worker /\ UpToDate(w) /\ UNCHANGED <<files, ids, approvals>>
  BY DEF SInv, IInv, TypeOK, OpenPacket, WritePacket, PacketFails, static
<1>2. wk[w].pc \in {"opening", "packing"}
  BY DEF OpenPacket, WritePacket, PacketFails, At
<1>3. ASSUME NEW l \in {"packing", "sending"}, wk' = [wk EXCEPT ![w].pc = l]
      PROVE  SInv'
  <2>1. wk'[w] = [wk[w] EXCEPT !.pc = l]
    BY <1>3 DEF SInv, IInv, TypeOK
  <2>2. wk'[w].pc = l /\ wk'[w].q = wk[w].q /\ wk'[w].todo = wk[w].todo
    BY <1>1, <2>1 DEF Worker
  <2>3. UpToDate(w)'
    BY <1>1, <1>2, <2>2 DEF UpToDate, HasFile
  <2> QED
    BY <1>1, <2>3, QuietStep DEF SInv, OneAtATime
<1>4. CASE PacketFails(w)
  BY <1>1, <1>4, StopUpToDate, QuietStep DEF PacketFails
<1> QED
  BY <1>3, <1>4 DEF OpenPacket, WritePacket

LEMMA SendUpToDate ==
    ASSUME SInv, IInv', NEW w \in Workers, SendNext(w) \/ SendDone(w)
    PROVE  SInv'
<1>1. wk[w] \in Worker /\ UpToDate(w) /\ UNCHANGED <<files, ids, approvals>>
  BY DEF SInv, IInv, TypeOK, SendNext, SendDone, static
<1>2. CASE SendNext(w)
  <2>1. PICK q \in wk[w].todo :
           wk' = [wk EXCEPT ![w].pc = "unlink", ![w].q = q, ![w].from = "ready",
                            ![w].to = "exported", ![w].todo = @ \ {q}]
    BY <1>2 DEF SendNext, Send
  <2>2. wk'[w] = [wk[w] EXCEPT !.pc = "unlink", !.q = q, !.from = "ready",
                               !.to = "exported", !.todo = wk[w].todo \ {q}]
    BY <2>1 DEF SInv, IInv, TypeOK
  <2>3. /\ wk'[w].pc = "unlink" /\ wk'[w].q = q /\ wk'[w].from = "ready"
        /\ wk'[w].to = "exported" /\ wk'[w].todo = wk[w].todo \ {q}
    BY <1>1, <2>2 DEF Worker
  <2>4. "exported" \in TransitionMap["ready"]
    BY DEF TransitionMap
  <2> QED
    BY <1>1, <2>3, <2>4, QuietStep DEF UpToDate, SInv, OneAtATime, HasFile
<1>3. CASE SendDone(w)
  BY <1>1, <1>3, StopUpToDate, QuietStep DEF SendDone
<1> QED
  BY <1>2, <1>3

\* A command that starts on a file it has found.
LEMMA MoveFromUpToDate ==
    ASSUME SInv, IInv', NEW w \in Workers, NEW q \in Requests, NEW s \in States,
           NEW to, NEW r, NEW l \in {"response", "unlink"}, At(w, "idle"), HasFile(q, s),
           l = "unlink" => to \in TransitionMap[s],
           MoveFrom(w, q, s, to, r, l), UNCHANGED <<files, ids, approvals>>
    PROVE  SInv'
<1>1. wk[w] \in Worker /\ wk[w].todo = {}
  BY DEF SInv, IInv, TypeOK, UpToDate, At
<1>2. wk'[w] = [wk[w] EXCEPT !.pc = l, !.q = q, !.from = s, !.to = to, !.resp = r]
  BY DEF MoveFrom, SInv, IInv, TypeOK
<1>3. /\ wk'[w].pc = l /\ wk'[w].q = q /\ wk'[w].from = s /\ wk'[w].to = to
      /\ wk'[w].todo = {}
  BY <1>1, <1>2 DEF Worker
<1>4. UpToDate(w)'
  BY <1>3 DEF UpToDate, HasFile
<1> QED
  BY <1>4, QuietStep DEF SInv, OneAtATime

LEMMA StartUpToDate ==
    ASSUME SInv, IInv', NEW w \in Workers, NEW q \in Requests,
           ImportStart(w, q) \/ Approve(w, q) \/ Decide(w, q)
    PROVE  SInv'
<1>1. CASE ImportStart(w, q)
  <2>1. PICK s \in States, r \in Responses :
           HasFile(q, s) /\ MoveFrom(w, q, s, "imported", r, "response")
    BY <1>1 DEF ImportStart
  <2> QED
    BY <1>1, <2>1, MoveFromUpToDate DEF ImportStart, static
<1>2. CASE Approve(w, q)
  <2>1. "approved" \in TransitionMap["approval_required"] /\ "approval_required" \in States
    BY StatesAre DEF TransitionMap
  <2> QED
    BY <1>2, <2>1, MoveFromUpToDate DEF Approve, Located, static
<1>3. CASE Decide(w, q)
  <2>1. PICK s \in States, to \in {"rejected", "canceled", "failed"} :
           Located(q, s) /\ to \in TransitionMap[s] /\ MoveFrom(w, q, s, to, files[q][s], "unlink")
    BY <1>3 DEF Decide
  <2> QED
    BY <1>3, <2>1, MoveFromUpToDate DEF Decide, Located, static
<1> QED
  BY <1>1, <1>2, <1>3

LEMMA SaveResponseUpToDate ==
    ASSUME SInv, IInv', NEW w \in Workers, SaveResponse(w)
    PROVE  SInv'
<1>1. wk[w] \in Worker /\ UpToDate(w) /\ wk[w].pc = "response" /\ WorkerInv(w)
      /\ UNCHANGED <<files, ids, approvals>>
  BY DEF SInv, IInv, TypeOK, SaveResponse, static, At
<1>2. CASE "imported" \in TransitionMap[wk[w].from]
  <2>1. wk'[w] = [wk[w] EXCEPT !.pc = "unlink"]
    BY <1>2 DEF SaveResponse, SInv, IInv, TypeOK
  <2>2. /\ wk'[w].pc = "unlink" /\ wk'[w].q = wk[w].q /\ wk'[w].from = wk[w].from
        /\ wk'[w].to = "imported" /\ wk'[w].todo = wk[w].todo
    BY <1>1, <2>1 DEF Worker, WorkerInv
  <2>3. UpToDate(w)'
    BY <1>1, <1>2, <2>2 DEF UpToDate, HasFile
  <2> QED
    BY <1>1, <2>3, QuietStep DEF SInv, OneAtATime
<1>3. CASE "imported" \notin TransitionMap[wk[w].from]
  BY <1>1, <1>3, StopUpToDate, QuietStep DEF SaveResponse
<1> QED
  BY <1>2, <1>3

\* The request was found, and nothing has moved it since.
LEMMA NeverMissing ==
    ASSUME SInv, NEW w \in Workers
    PROVE  ~UnlinkMissing(w)
BY DEF SInv, UpToDate, UnlinkMissing, At

LEMMA UnlinkUpToDate ==
    ASSUME SInv, IInv', NEW w \in Workers, Unlink(w)
    PROVE  SInv'
<1> DEFINE q == wk[w].q
           from == wk[w].from
<1>1. /\ wk[w] \in Worker /\ UpToDate(w) /\ wk[w].pc = "unlink" /\ TypeOK
      /\ q \in Requests /\ from \in States /\ "absent" \in Contents
      /\ "ready" \in States /\ "new" \in States /\ "approved" \in States
  BY StatesAre DEF SInv, IInv, TypeOK, Unlink, At, WorkerInv, Worker, Contents
<1>2. HasFile(q, from) /\ wk[w].to \in TransitionMap[from] /\ from # "new"
  BY <1>1 DEF UpToDate, SInv
<1>3. \A p \in Requests, t \in States :
         files'[p][t] = IF p = q /\ t = from THEN "absent" ELSE files[p][t]
  BY <1>1 DEF Unlink, TypeOK
<1>4. wk'[w] = [wk[w] EXCEPT !.pc = "write"]
  BY DEF SInv, IInv, TypeOK, Unlink
<1>5. /\ wk'[w].pc = "write" /\ wk'[w].q = q /\ wk'[w].from = from
      /\ wk'[w].to = wk[w].to /\ wk'[w].todo = wk[w].todo
  BY <1>1, <1>4 DEF Worker
<1>6. Missing(q)' /\ q \in ids
  <2>1. q \in ids
    BY <1>1, <1>2 DEF SInv, Missing
  <2>2. \A t \in States : t # from => ~HasFile(q, t)
    BY <1>1, <1>2 DEF SInv, OneFilePerRequest
  <2> QED
    BY <1>1, <1>3, <1>5, <2>1, <2>2 DEF Missing, HasFile
<1>7. \A p \in wk[w].todo : p # q /\ p \in Requests /\ HasFile(p, "ready")
  BY <1>1 DEF UpToDate, Worker
<1>8. UpToDate(w)'
  <2>1. \A p \in wk'[w].todo : p # wk'[w].q /\ HasFile(p, "ready")'
    BY <1>1, <1>3, <1>5, <1>7 DEF HasFile
  <2> QED
    BY <1>2, <1>5, <1>6, <2>1 DEF UpToDate, Missing, HasFile, Unlink, static
<1>9. OneFilePerRequest'
  BY <1>1, <1>3 DEF SInv, OneFilePerRequest, HasFile
<1>10. ApprovalMatchesRequest'
  <2>1. approvals[q] # "absent" => HasFile(q, "approved")
    BY <1>1, Distinct DEF SInv, IInv, ApprovalMatchesRequest, ApprovalsGood, HasFile, Responses
  <2>2. approvals[q] = "absent"
    <3>1. TransitionMap["approved"] = {}
      BY DEF TransitionMap
    <3> QED
      BY <1>1, <1>2, <2>1, <3>1 DEF SInv, OneFilePerRequest
  <2> QED
    BY <1>1, <1>3, <2>2 DEF SInv, ApprovalMatchesRequest, Unlink
<1>11. \A p \in Requests : (p \notin ids' => Missing(p)') /\ ~HasFile(p, "new")'
  BY <1>1, <1>3 DEF SInv, Missing, HasFile, Unlink, static
<1> QED
  BY <1>8, <1>9, <1>10, <1>11 DEF SInv, OneAtATime

LEMMA WriteMovedUpToDate ==
    ASSUME SInv, IInv', NEW w \in Workers, WriteMoved(w)
    PROVE  SInv'
<1> DEFINE q == wk[w].q
           to == wk[w].to
           r == wk[w].resp
<1>1. /\ wk[w] \in Worker /\ UpToDate(w) /\ wk[w].pc = "write" /\ TypeOK
      /\ q \in Requests /\ to \in States /\ r \in Responses \cup {"blank"} /\ r # "absent"
      /\ "ready" \in States /\ "new" \in States /\ "approved" \in States /\ "imported" \in States
  BY StatesAre, Distinct DEF SInv, IInv, TypeOK, WriteMoved, At, WorkerInv, Worker
<1>2. Missing(q) /\ q \in ids /\ to # "new"
  BY <1>1, StatesAre DEF UpToDate, TransitionMap, Worker
<1>3. \A p \in Requests, t \in States :
         files'[p][t] = IF p = q /\ t = to THEN r ELSE files[p][t]
  BY <1>1 DEF TypeOK, WriteMoved
<1>4. \A p \in wk[w].todo : p # q /\ p \in Requests /\ HasFile(p, "ready")
  BY <1>1 DEF UpToDate, Worker
<1>5. \A p \in wk[w].todo : HasFile(p, "ready")'
  BY <1>1, <1>3, <1>4 DEF HasFile
<1>6. files'[q][to] = r
  BY <1>1, <1>3
<1>7. \A v \in Workers : UpToDate(v)'
  <2>1. CASE to = "imported"
    <3>1. wk'[w] = [wk[w] EXCEPT !.pc = "unlink", !.q = q, !.from = "imported",
                                 !.to = Verdict(r), !.resp = r]
      BY <2>1 DEF WriteMoved, MoveFrom, SInv, IInv, TypeOK
    <3>2. /\ wk'[w].pc = "unlink" /\ wk'[w].q = q /\ wk'[w].from = "imported"
          /\ wk'[w].to = Verdict(r) /\ wk'[w].todo = wk[w].todo
      BY <1>1, <3>1 DEF Worker
    <3>3. Verdict(r) \in TransitionMap["imported"]
      BY DEF Verdict, TransitionMap
    <3>4. UpToDate(w)'
      BY <1>1, <1>4, <1>5, <1>6, <2>1, <3>2, <3>3 DEF UpToDate, HasFile
    <3> QED
      BY <3>4 DEF SInv, OneAtATime
  <2>2. ASSUME NEW l \in {"record", "sending"}, wk' = [wk EXCEPT ![w].pc = l],
               l = "record" => to = "approved"
        PROVE  \A v \in Workers : UpToDate(v)'
    <3>1. wk'[w] = [wk[w] EXCEPT !.pc = l]
      BY <2>2 DEF SInv, IInv, TypeOK
    <3>2. /\ wk'[w].pc = l /\ wk'[w].q = q /\ wk'[w].resp = r /\ wk'[w].todo = wk[w].todo
      BY <1>1, <3>1 DEF Worker
    <3>3. UpToDate(w)'
      BY <1>5, <1>6, <2>2, <3>2 DEF UpToDate
    <3> QED
      BY <3>3 DEF SInv, OneAtATime
  <2>3. CASE to = "approved"
    BY <2>2, <2>3 DEF WriteMoved
  <2>4. CASE to = "exported"
    BY <2>2, <2>4 DEF WriteMoved
  <2>5. CASE to \notin {"imported", "approved", "exported"}
    BY <2>5, StopUpToDate DEF WriteMoved
  <2> QED
    BY <2>1, <2>3, <2>4, <2>5
<1>8. OneFilePerRequest'
  BY <1>1, <1>2, <1>3 DEF SInv, OneFilePerRequest, HasFile, Missing
<1>9. ApprovalMatchesRequest'
  <2>1. files[q]["approved"] = "absent"
    BY <1>1, <1>2 DEF Missing, HasFile
  <2>2. approvals[q] = "absent"
    BY <1>1, <2>1, Distinct DEF SInv, IInv, ApprovalMatchesRequest, ApprovalsGood, Responses
  <2> QED
    BY <1>1, <1>3, <2>2 DEF SInv, ApprovalMatchesRequest, WriteMoved
<1>10. \A p \in Requests : (p \notin ids' => Missing(p)') /\ ~HasFile(p, "new")'
  BY <1>1, <1>2, <1>3 DEF SInv, Missing, HasFile, WriteMoved, static
<1> QED
  BY <1>7, <1>8, <1>9, <1>10 DEF SInv, OneAtATime

LEMMA RecordUpToDate ==
    ASSUME SInv, IInv', NEW w \in Workers, RecordApproval(w)
    PROVE  SInv'
<1>1. wk[w].pc = "record" /\ wk[w].q \in Requests /\ UpToDate(w) /\ TypeOK
      /\ files[wk[w].q]["approved"] = wk[w].resp
  BY DEF SInv, IInv, RecordApproval, At, WorkerInv, UpToDate
<1>2. \A q \in Requests : approvals'[q] = IF q = wk[w].q THEN wk[w].resp ELSE approvals[q]
  BY <1>1 DEF TypeOK, RecordApproval
<1>3. ApprovalMatchesRequest'
  BY <1>1, <1>2 DEF SInv, ApprovalMatchesRequest, RecordApproval
<1>4. \A v \in Workers : UpToDate(v)'
  BY StopUpToDate DEF RecordApproval
<1> QED
  BY <1>3, <1>4 DEF SInv, OneAtATime, Missing, HasFile, OneFilePerRequest, RecordApproval, static

LEMMA CrashUpToDate ==
    ASSUME SInv, IInv', NEW w \in Workers, Crash(w)
    PROVE  SInv'
BY StopUpToDate, QuietStep DEF Crash, static

LEMMA SequentialInit == OneAtATime /\ Init => SInv
<1> SUFFICES ASSUME OneAtATime, Init PROVE SInv
  OBVIOUS
<1>1. \A q \in Requests, s \in States : ~HasFile(q, s)
  BY DEF Init, HasFile
<1>2. "new" \in States
  BY StatesAre
<1>3. \A w \in Workers : UpToDate(w)
  BY DEF Init, UpToDate, IdleWorker
<1> QED
  BY <1>1, <1>2, <1>3, InitInv
     DEF SInv, Missing, OneFilePerRequest, ApprovalMatchesRequest, Init

LEMMA SequentialNext == SInv /\ [Next]_vars => SInv'
<1> SUFFICES ASSUME SInv, [Next]_vars PROVE SInv'
  OBVIOUS
<1>1. IInv'
  BY NextInv DEF SInv
<1>2. CASE UNCHANGED vars
  <2>1. \A w \in Workers : UpToDate(w)'
    BY <1>2 DEF vars, SInv, UpToDate, Missing, HasFile
  <2> QED
    BY <1>1, <1>2, <2>1, QuietStep DEF vars
<1> QED
  BY <1>1, <1>2, CreateUpToDate, SaveCreatedUpToDate, ExportStartUpToDate, PacketUpToDate,
     SendUpToDate, StartUpToDate,
     SaveResponseUpToDate, NeverMissing, UnlinkUpToDate, WriteMovedUpToDate, RecordUpToDate,
     CrashUpToDate DEF Next

LEMMA SequentialInvariance == ASSUME OneAtATime PROVE Spec => []SInv
<1>1. Init => SInv
  BY SequentialInit
<1> QED
  BY <1>1, SequentialNext, PTL DEF Spec

\* Commands that run one at a time never leave two files of a request, wherever they die:
\* a move removes the old file before it writes the new one, and every other write is to
\* a file that is there or of a request that has none (move_request, locate_request).
THEOREM OneFile == ASSUME OneAtATime PROVE Spec => []OneFilePerRequest
<1>1. SInv => OneFilePerRequest
  BY DEF SInv
<1> QED
  BY <1>1, SequentialInvariance, PTL

\* Commands that run one at a time never leave an approval record without the approved
\* request it is about, bound to the response it locks: the record is written after the
\* move, and an approved request never moves again (record_approval, TransitionMap).
THEOREM ApprovalLocked == ASSUME OneAtATime PROVE Spec => []ApprovalMatchesRequest
<1>1. SInv => ApprovalMatchesRequest
  BY DEF SInv
<1> QED
  BY <1>1, SequentialInvariance, PTL

-----------------------------------------------------------------------------
(* One command at a time: packets *)

\* The states a request can be in before it is exported.
Unsent == {"ready", "rejected", "canceled", "failed"}
Sent(s, r) == s \notin Unsent \/ r # "blank"

\* No packet can be opened under the batch id of p any more.
Spent(p) == p \in ids /\ ~HasFile(p, "ready")
Members(p) == packets[batch[p]].members
Kept(q) == \E p \in Requests : Spent(p) /\ q \in Members(p)

FilesKept == \A q \in Requests, s \in States : HasFile(q, s) /\ Sent(s, files[q][s]) => Kept(q)

\* What a command knows of the packet of the requests it moves.
Keeps(w) ==
    LET q == wk[w].q
        todo == wk[w].todo
    IN
    /\ wk[w].pc \in {"opening", "packing"} => q \in todo
    /\ wk[w].pc = "packing" => packets[batch[q]].by = w
    /\ wk[w].pc = "sending" =>
          \E p \in Requests :
             /\ p \in ids /\ todo \subseteq Members(p)
             /\ Spent(p) \/ (p = q /\ p \in todo)
    /\ wk[w].pc = "unlink" /\ wk[w].to = "exported" =>
          \E p \in Requests :
             p \in ids /\ todo \cup {q} \subseteq Members(p) /\ (Spent(p) \/ p = q)
    /\ wk[w].pc = "write" /\ wk[w].to = "exported" =>
          \E p \in Requests : Spent(p) /\ todo \cup {q} \subseteq Members(p)
    /\ wk[w].pc \in {"unlink", "write"} /\ wk[w].to # "exported" /\ Sent(wk[w].to, wk[w].resp) =>
          Kept(q)

PInv ==
    /\ SInv
    /\ \A p \in ids : batch[p] \in Batches
    /\ DistinctBatches => FilesKept /\ \A w \in Workers : Keeps(w)

\* Nothing comes back to "ready".
LEMMA NeverReady == \A s \in States \ {"new"} : "ready" \notin TransitionMap[s]
BY StatesAre DEF TransitionMap

\* Only a request that was sent can be imported.
LEMMA ImportableWasSent ==
    \A s \in States : "imported" \in TransitionMap[s] => s \notin Unsent
BY StatesAre DEF TransitionMap, Unsent

\* Ids are not given back, and a request keeps its batch id.
LEMMA IdsStay ==
    ASSUME PInv, [Next]_vars
    PROVE  /\ \A p \in ids : p \in ids' /\ batch'[p] = batch[p]
           /\ \A p \in ids' : batch'[p] \in Batches
           /\ DistinctBatches' => DistinctBatches
<1>1. \A p \in ids' : batch'[p] \in Batches /\ (p \in ids => batch'[p] = batch[p])
  <2>1. ASSUME NEW w \in Workers, NEW q \in Requests, CreateRequest(w, q)
        PROVE  \A p \in ids' : batch'[p] \in Batches /\ (p \in ids => batch'[p] = batch[p])
    BY <2>1 DEF CreateRequest, PInv, SInv, IInv, TypeOK
  <2>2. CASE UNCHANGED <<ids, batch>>
    BY <2>2 DEF PInv
  <2> QED
    BY <2>1, <2>2 DEF Next, vars, static, SaveCreated, ExportStart, OpenPacket, WritePacket,
       PacketFails, SendNext, SendDone, ImportStart, SaveResponse, Approve, Decide, Unlink,
       UnlinkMissing, WriteMoved, RecordApproval, Crash
<1>2. ids \subseteq ids'
  BY DEF Next, vars, static, CreateRequest, SaveCreated, ExportStart, OpenPacket, WritePacket,
     PacketFails, SendNext, SendDone, ImportStart, SaveResponse, Approve, Decide, Unlink,
     UnlinkMissing, WriteMoved, RecordApproval, Crash
<1> QED
  BY <1>1, <1>2 DEF DistinctBatches

\* The packet of a spent request is not opened.
LEMMA PacketStays ==
    ASSUME PInv, DistinctBatches, [Next]_vars, NEW p \in Requests, Spent(p)
    PROVE  packets'[batch[p]] = packets[batch[p]]
<1>1. ASSUME NEW w \in Workers, OpenPacket(w) \/ WritePacket(w) \/ PacketFails(w)
      PROVE  packets'[batch[p]] = packets[batch[p]]
  <2> DEFINE q == wk[w].q
  <2>1. q \in wk[w].todo /\ q \in Requests
    BY <1>1 DEF PInv, Keeps, SInv, IInv, WorkerInv, OpenPacket, WritePacket, PacketFails, At
  <2>2. HasFile(q, "ready") /\ "ready" \in States
    BY <2>1, StatesAre DEF PInv, SInv, UpToDate
  <2>3. q \in ids
    BY <2>1, <2>2 DEF PInv, SInv, Missing
  <2>4. batch[q] # batch[p]
    BY <2>2, <2>3 DEF DistinctBatches, Spent
  <2>5. \E x : packets' = [packets EXCEPT ![batch[q]] = x]
    BY <1>1 DEF OpenPacket, WritePacket, PacketFails, ClosePacket, BatchOf
  <2> QED
    BY <2>4, <2>5 DEF PInv, SInv, IInv, TypeOK, Spent
<1>2. CASE UNCHANGED packets
  BY <1>2
<1> QED
  BY <1>1, <1>2 DEF Next, vars, CreateRequest, SaveCreated, ExportStart, SendNext, SendDone,
     ImportStart, SaveResponse, Approve, Decide, Unlink, UnlinkMissing, WriteMoved,
     RecordApproval, Crash

\* A spent request stays spent.
LEMMA SpentStays ==
    ASSUME PInv, SInv', [Next]_vars, NEW p \in Requests, Spent(p)
    PROVE  Spent(p)'
<1>1. p \in ids'
  BY IdsStay DEF Spent
<1>2. "ready" \in States /\ TypeOK
  BY StatesAre DEF PInv, SInv, IInv
<1>3. ASSUME NEW w \in Workers, NEW q \in Requests, CreateRequest(w, q)
      PROVE  ~HasFile(p, "ready")'
  BY <1>2, <1>3 DEF CreateRequest, HasFile, Spent, TypeOK
<1>4. ASSUME NEW w \in Workers, SaveCreated(w)
      PROVE  ~HasFile(p, "ready")'
  <2>1. wk[w].q \in Requests /\ HasFile(wk[w].q, "ready")
    BY <1>4 DEF SaveCreated, At, PInv, SInv, IInv, WorkerInv, UpToDate
  <2> QED
    BY <1>2, <1>4, <2>1 DEF SaveCreated, HasFile, Spent, TypeOK
<1>5. ASSUME NEW w \in Workers, Unlink(w)
      PROVE  ~HasFile(p, "ready")'
  <2>1. wk[w].q \in Requests /\ wk[w].from \in States
    BY <1>5 DEF Unlink, At, PInv, SInv, IInv, TypeOK, WorkerInv, Worker
  <2> QED
    BY <1>2, <1>5, <2>1 DEF Unlink, HasFile, Spent, TypeOK
<1>6. ASSUME NEW w \in Workers, WriteMoved(w)
      PROVE  ~HasFile(p, "ready")'
  <2>1. /\ wk[w].q \in Requests /\ wk[w].from \in States \ {"new"}
        /\ wk[w].to \in TransitionMap[wk[w].from] /\ wk[w].to \in States
    BY <1>6 DEF WriteMoved, At, PInv, SInv, IInv, TypeOK, WorkerInv, Worker, UpToDate
  <2>2. wk[w].to # "ready"
    BY <2>1, NeverReady
  <2> QED
    BY <1>2, <1>6, <2>1, <2>2 DEF WriteMoved, HasFile, Spent, TypeOK
<1>7. ASSUME UNCHANGED files PROVE ~HasFile(p, "ready")'
  BY <1>7 DEF HasFile, Spent
<1>8. ~HasFile(p, "ready")'
  BY <1>3, <1>4, <1>5, <1>6, <1>7 DEF Next, vars, ExportStart, OpenPacket, WritePacket,
     PacketFails, SendNext, SendDone, ImportStart, SaveResponse, Approve, Decide,
     UnlinkMissing, RecordApproval, Crash
<1> QED
  BY <1>1, <1>8 DEF Spent

\* What a spent request keeps, it keeps.
LEMMA KeptStays ==
    ASSUME PInv, SInv', DistinctBatches, [Next]_vars
    PROVE  /\ \A p \in Requests : Spent(p) => Spent(p)' /\ Members(p)' = Members(p)
           /\ \A q \in Requests : Kept(q) => Kept(q)'
<1>1. \A p \in Requests : Spent(p) => Spent(p)' /\ Members(p)' = Members(p)
  <2> SUFFICES ASSUME NEW p \in Requests, Spent(p) PROVE Spent(p)' /\ Members(p)' = Members(p)
    OBVIOUS
  <2>1. batch'[p] = batch[p]
    BY IdsStay DEF Spent
  <2>2. packets'[batch[p]] = packets[batch[p]]
    BY PacketStays
  <2>3. Members(p)' = Members(p)
    BY <2>1, <2>2 DEF Members
  <2> QED
    BY <2>3, SpentStays
<1> QED
  BY <1>1 DEF Kept


\* A step that writes a file of a request that was sent only if its packet is kept, and
\* leaves the command with what it knows of the packet, keeps the packets.
LEMMA PacketStep ==
    ASSUME PInv, SInv', [Next]_vars, NEW w \in Workers,
           DistinctBatches => Keeps(w)',
           \A q \in Requests, s \in States :
              DistinctBatches /\ HasFile(q, s)' /\ Sent(s, files'[q][s]) =>
                 files'[q][s] = files[q][s] \/ Kept(q)
    PROVE  PInv'
<1>1. (\A p \in ids : batch[p] \in Batches)'
  BY IdsStay
<1> SUFFICES ASSUME DistinctBatches' PROVE (FilesKept /\ \A v \in Workers : Keeps(v))'
  BY <1>1 DEF PInv
<1>2. DistinctBatches
  BY IdsStay
<1>3. \A v \in Workers : Keeps(v)'
  BY <1>2 DEF SInv, PInv, OneAtATime
<1>4. ASSUME NEW p \in Requests, NEW s \in States, HasFile(p, s)', Sent(s, files'[p][s])
      PROVE  Kept(p)'
  <2>1. CASE files'[p][s] = files[p][s]
    <3>1. HasFile(p, s) /\ Sent(s, files[p][s]) /\ FilesKept
      BY <1>2, <1>4, <2>1 DEF HasFile, PInv
    <3> QED
      BY <1>2, <3>1, KeptStays DEF FilesKept
  <2> QED
    BY <1>2, <1>4, <2>1, KeptStays
<1>5. FilesKept'
  BY <1>4 DEF FilesKept
<1> QED
  BY <1>3, <1>5

\* The command stops, or goes on to something that has nothing to do with a packet.
LEMMA StopKeeps ==
    ASSUME PInv, NEW w \in Workers, Stop(w)
    PROVE  Keeps(w)'
<1>1. wk'[w] = IdleWorker
  BY DEF PInv, SInv, IInv, TypeOK, Stop
<1> QED
  BY <1>1 DEF Keeps, IdleWorker

LEMMA CreatePacket ==
    ASSUME PInv, SInv', NEW w \in Workers, NEW q \in Requests, CreateRequest(w, q)
    PROVE  PInv'
<1>1. [Next]_vars
  BY DEF Next
<1>2. wk'[w].pc = "created"
  <2>1. wk[w] \in Worker /\ wk'[w] = [wk[w] EXCEPT !.pc = "created", !.q = q]
    BY DEF PInv, SInv, IInv, TypeOK, CreateRequest
  <2> QED
    BY <2>1 DEF Worker
<1>3. Keeps(w)'
  BY <1>2 DEF Keeps
<1>4. ~Sent("ready", "blank") /\ "ready" \in States /\ TypeOK
  BY StatesAre DEF Sent, Unsent, PInv, SInv, IInv
<1>5. \A p \in Requests, s \in States :
         files'[p][s] = IF p = q /\ s = "ready" THEN "blank" ELSE files[p][s]
  BY <1>4 DEF TypeOK, CreateRequest
<1> QED
  BY <1>1, <1>3, <1>4, <1>5, PacketStep

LEMMA SaveCreatedPacket ==
    ASSUME PInv, SInv', NEW w \in Workers, SaveCreated(w)
    PROVE  PInv'
<1>1. [Next]_vars /\ Keeps(w)'
  BY StopKeeps DEF Next, SaveCreated
<1>2. ~Sent("ready", "blank") /\ "ready" \in States /\ TypeOK /\ wk[w].q \in Requests
  BY StatesAre DEF Sent, Unsent, PInv, SInv, IInv, WorkerInv, SaveCreated, At
<1>3. \A p \in Requests, s \in States :
         files'[p][s] = IF p = wk[w].q /\ s = "ready" THEN "blank" ELSE files[p][s]
  BY <1>2 DEF TypeOK, SaveCreated
<1> QED
  BY <1>1, <1>2, <1>3, PacketStep

LEMMA ExportPacket ==
    ASSUME PInv, SInv', NEW w \in Workers,
           ExportStart(w) \/ OpenPacket(w) \/ WritePacket(w) \/ PacketFails(w)
    PROVE  PInv'
<1>1. [Next]_vars /\ UNCHANGED files /\ TypeOK /\ wk[w] \in Worker
  BY DEF Next, ExportStart, OpenPacket, WritePacket, PacketFails, PInv, SInv, IInv, TypeOK
<1> DEFINE q == wk[w].q
           todo == wk[w].todo
<1>2. ASSUME DistinctBatches, OpenPacket(w) \/ WritePacket(w)
      PROVE  /\ q \in todo /\ q \in Requests /\ q \in ids /\ batch[q] \in Batches
             /\ wk[w].pc = "packing" => packets[batch[q]].by = w
  <2>1. wk[w].pc \in {"opening", "packing"} /\ Keeps(w) /\ UpToDate(w)
    BY <1>2 DEF OpenPacket, WritePacket, At, PInv, SInv
  <2>2. q \in todo /\ (wk[w].pc = "packing" => packets[batch[q]].by = w)
    BY <2>1 DEF Keeps
  <2>3. q \in Requests /\ HasFile(q, "ready") /\ "ready" \in States
    BY <1>1, <2>1, <2>2, StatesAre DEF Worker, UpToDate
  <2>4. q \in ids
    BY <2>3 DEF PInv, SInv, Missing
  <2> QED
    BY <2>2, <2>3, <2>4 DEF PInv
<1>3. DistinctBatches => Keeps(w)'
  <2>1. CASE ExportStart(w)
    <3>1. PICK T \in SUBSET Requests, p \in Requests :
             p \in T /\ wk' = [wk EXCEPT ![w].pc = "opening", ![w].q = p, ![w].todo = T]
      BY <2>1 DEF ExportStart
    <3>2. wk'[w] = [wk[w] EXCEPT !.pc = "opening", !.q = p, !.todo = T]
      BY <1>1, <3>1 DEF TypeOK
    <3>3. wk'[w].pc = "opening" /\ wk'[w].q = p /\ wk'[w].todo = T
      BY <1>1, <3>2 DEF Worker
    <3> QED
      BY <3>1, <3>3 DEF Keeps
  <2>2. CASE DistinctBatches /\ OpenPacket(w)
    <3>1. wk'[w] = [wk[w] EXCEPT !.pc = "packing"]
      BY <1>1, <2>2 DEF OpenPacket, TypeOK
    <3>2. wk'[w].pc = "packing" /\ wk'[w].q = q /\ wk'[w].todo = todo
      BY <1>1, <3>1 DEF Worker
    <3>3. packets' = [packets EXCEPT ![batch[q]] = [members |-> {}, by |-> w]]
      BY <2>2 DEF OpenPacket, BatchOf, PInv, SInv, OneAtATime
    <3>4. packets'[batch[q]].by = w
      BY <1>1, <1>2, <2>2, <3>3 DEF TypeOK
    <3>5. batch' = batch
      BY <2>2 DEF OpenPacket, static
    <3> QED
      BY <1>2, <2>2, <3>2, <3>4, <3>5 DEF Keeps
  <2>3. CASE DistinctBatches /\ WritePacket(w)
    <3>1. wk'[w] = [wk[w] EXCEPT !.pc = "sending"]
      BY <1>1, <2>3 DEF WritePacket, TypeOK
    <3>2. wk'[w].pc = "sending" /\ wk'[w].q = q /\ wk'[w].todo = todo
      BY <1>1, <3>1 DEF Worker
    <3>3. packets' = [packets EXCEPT ![batch[q]] = [members |-> todo, by |-> "none"]]
      BY <1>2, <2>3 DEF WritePacket, ClosePacket, BatchOf, At
    <3>4. packets'[batch[q]].members = todo /\ batch' = batch /\ ids' = ids
      BY <1>1, <1>2, <2>3, <3>3 DEF TypeOK, WritePacket, static
    <3> QED
      BY <1>2, <2>3, <3>2, <3>4 DEF Keeps, Members
  <2>4. CASE PacketFails(w)
    BY <2>4, StopKeeps DEF PacketFails
  <2> QED
    BY <2>1, <2>2, <2>3, <2>4
<1> QED
  BY <1>1, <1>3, PacketStep

LEMMA SendPacket ==
    ASSUME PInv, SInv', NEW w \in Workers, SendNext(w) \/ SendDone(w)
    PROVE  PInv'
<1>1. [Next]_vars /\ UNCHANGED <<files, ids, batch, packets>> /\ TypeOK /\ wk[w] \in Worker
  BY DEF Next, SendNext, SendDone, static, PInv, SInv, IInv, TypeOK
<1>2. DistinctBatches => Keeps(w)'
  <2>1. CASE DistinctBatches /\ SendNext(w)
    <3>1. PICK q \in wk[w].todo :
             /\ wk[w].q \in wk[w].todo => q = wk[w].q
             /\ wk' = [wk EXCEPT ![w].pc = "unlink", ![w].q = q, ![w].from = "ready",
                                 ![w].to = "exported", ![w].todo = @ \ {q}]
      BY <2>1 DEF SendNext, Send
    <3>2. wk'[w] = [wk[w] EXCEPT !.pc = "unlink", !.q = q, !.from = "ready",
                                 !.to = "exported", !.todo = wk[w].todo \ {q}]
      BY <1>1, <3>1 DEF TypeOK
    <3>3. /\ wk'[w].pc = "unlink" /\ wk'[w].q = q /\ wk'[w].to = "exported"
          /\ wk'[w].todo = wk[w].todo \ {q}
      BY <1>1, <3>2 DEF Worker
    <3>4. PICK p \in Requests : /\ p \in ids /\ wk[w].todo \subseteq Members(p)
                                /\ Spent(p) \/ (p = wk[w].q /\ p \in wk[w].todo)
      BY <2>1 DEF PInv, Keeps, SendNext, At
    <3>5. Members(p)' = Members(p) /\ (Spent(p) => Spent(p)') /\ p \in ids'
      BY <1>1, <3>4 DEF Members, Spent, HasFile
    <3>6. wk'[w].todo \cup {wk'[w].q} \subseteq Members(p)' /\ (Spent(p)' \/ p = wk'[w].q)
      BY <3>1, <3>3, <3>4, <3>5
    <3> QED
      BY <3>3, <3>5, <3>6 DEF Keeps
  <2>2. CASE SendDone(w)
    BY <2>2, StopKeeps DEF SendDone
  <2> QED
    BY <2>1, <2>2
<1> QED
  BY <1>1, <1>2, PacketStep

\* A command that starts to move a file, and the states it can move it to.
LEMMA StartPacket ==
    ASSUME PInv, SInv', NEW w \in Workers, NEW q \in Requests,
           ImportStart(w, q) \/ Approve(w, q) \/ Decide(w, q)
    PROVE  PInv'
<1>1. [Next]_vars /\ UNCHANGED files /\ TypeOK /\ wk[w] \in Worker
  BY DEF Next, ImportStart, Approve, Decide, PInv, SInv, IInv, TypeOK
<1>2. ASSUME NEW s, NEW to, NEW r, NEW l \in {"response", "unlink"}, MoveFrom(w, q, s, to, r, l),
             l = "unlink" /\ Sent(to, r) => to # "exported" /\ Kept(q)',
             l = "unlink" => to # "exported"
      PROVE  Keeps(w)'
  <2>1. wk'[w] = [wk[w] EXCEPT !.pc = l, !.q = q, !.from = s, !.to = to, !.resp = r]
    BY <1>1, <1>2 DEF MoveFrom, TypeOK
  <2>2. wk'[w].pc = l /\ wk'[w].q = q /\ wk'[w].to = to /\ wk'[w].resp = r
    BY <1>1, <2>1 DEF Worker
  <2> QED
    BY <1>2, <2>2 DEF Keeps
<1>3. DistinctBatches => Keeps(w)'
  <2> SUFFICES ASSUME DistinctBatches PROVE Keeps(w)'
    OBVIOUS
  <2>1. \A s \in States : HasFile(q, s) /\ Sent(s, files[q][s]) => Kept(q)'
    BY <1>1, KeptStays DEF PInv, FilesKept
  <2>2. CASE ImportStart(w, q)
    BY <1>2, <2>2 DEF ImportStart
  <2>3. CASE Approve(w, q)
    <3> DEFINE s == "approval_required"
    <3>1. /\ HasFile(q, s) /\ s \in States /\ s \notin Unsent
          /\ MoveFrom(w, q, s, "approved", files[q][s], "unlink")
      BY <2>3, StatesAre DEF Approve, Located, Unsent
    <3>2. Kept(q)'
      BY <2>1, <3>1 DEF Sent
    <3> QED
      BY <1>2, <3>1, <3>2
  <2>4. CASE Decide(w, q)
    <3>1. PICK s \in States, to \in {"rejected", "canceled", "failed"} :
             HasFile(q, s) /\ MoveFrom(w, q, s, to, files[q][s], "unlink")
      BY <2>4 DEF Decide, Located
    <3>2. Sent(to, files[q][s]) => Kept(q)'
      BY <2>1, <3>1 DEF Sent, Unsent
    <3> QED
      BY <1>2, <3>1, <3>2
  <2> QED
    BY <2>2, <2>3, <2>4
<1> QED
  BY <1>1, <1>3, PacketStep

LEMMA SaveResponsePacket ==
    ASSUME PInv, SInv', NEW w \in Workers, SaveResponse(w)
    PROVE  PInv'
<1>1. [Next]_vars /\ UNCHANGED files /\ TypeOK /\ wk[w] \in Worker /\ wk[w].pc = "response"
  BY DEF Next, SaveResponse, PInv, SInv, IInv, TypeOK, At
<1>2. CASE DistinctBatches /\ "imported" \in TransitionMap[wk[w].from]
  <2>1. /\ wk[w].q \in Requests /\ wk[w].to = "imported" /\ wk[w].from \in States
        /\ HasFile(wk[w].q, wk[w].from)
    BY <1>1 DEF PInv, SInv, IInv, WorkerInv, UpToDate, Worker
  <2> PICK q \in Requests : q = wk[w].q
    BY <2>1
  <2>2. Kept(q)
    BY <1>2, <2>1, ImportableWasSent DEF PInv, FilesKept, Sent
  <2>3. Kept(q)'
    BY <1>1, <1>2, <2>2, KeptStays
  <2>4. wk'[w] = [wk[w] EXCEPT !.pc = "unlink"]
    BY <1>1, <1>2 DEF SaveResponse, TypeOK
  <2>5. wk'[w].pc = "unlink" /\ wk'[w].q = q /\ wk'[w].to = "imported"
    BY <1>1, <2>1, <2>4 DEF Worker
  <2>6. Keeps(w)'
    BY <2>3, <2>5 DEF Keeps
  <2> QED
    BY <1>1, <2>6, PacketStep
<1>3. CASE ~DistinctBatches
  BY <1>1, <1>3, PacketStep
<1>4. CASE "imported" \notin TransitionMap[wk[w].from]
  BY <1>1, <1>4, StopKeeps, PacketStep DEF SaveResponse
<1> QED
  BY <1>2, <1>3, <1>4

\* The first request of a packet is spent as soon as its file is removed.
LEMMA UnlinkPacket ==
    ASSUME PInv, SInv', NEW w \in Workers, Unlink(w)
    PROVE  PInv'
<1> PICK q \in Requests, todo \in SUBSET Requests, to \in States :
       q = wk[w].q /\ todo = wk[w].todo /\ to = wk[w].to
  BY DEF PInv, SInv, IInv, TypeOK, Unlink, At, WorkerInv, Worker
<1>1. /\ [Next]_vars /\ TypeOK /\ wk[w] \in Worker /\ wk[w].pc = "unlink" /\ q \in Requests
      /\ wk[w].from \in States /\ UNCHANGED <<ids, batch, packets>>
  BY DEF Next, Unlink, PInv, SInv, IInv, TypeOK, WorkerInv, Worker, At, static
<1>2. wk'[w] = [wk[w] EXCEPT !.pc = "write"]
  BY <1>1 DEF Unlink, TypeOK
<1>3. /\ wk'[w].pc = "write" /\ wk'[w].q = q /\ wk'[w].to = to /\ wk'[w].resp = wk[w].resp
      /\ wk'[w].todo = todo
  BY <1>1, <1>2 DEF Worker
<1>4. Spent(q)'
  <2>1. UpToDate(w)' /\ "ready" \in States
    BY StatesAre DEF SInv
  <2> QED
    BY <1>1, <1>3, <2>1 DEF UpToDate, Spent, Missing
<1>5. DistinctBatches => Keeps(w)'
  <2> SUFFICES ASSUME DistinctBatches PROVE Keeps(w)'
    OBVIOUS
  <2>1. CASE to = "exported"
    <3>1. PICK p \in Requests : /\ p \in ids /\ todo \cup {q} \subseteq Members(p)
                                /\ Spent(p) \/ p = q
      BY <1>1, <2>1 DEF PInv, Keeps
    <3>2. Spent(p)'
      BY <1>1, <1>4, <3>1, KeptStays
    <3>3. Members(p)' = Members(p)
      BY <1>1 DEF Members
    <3> QED
      BY <1>3, <2>1, <3>1, <3>2, <3>3 DEF Keeps
  <2>2. CASE to # "exported"
    <3>1. Sent(to, wk[w].resp) => Kept(q)
      BY <1>1, <2>2 DEF PInv, Keeps
    <3>2. Sent(to, wk[w].resp) => Kept(q)'
      BY <1>1, <3>1, KeptStays
    <3> QED
      BY <1>3, <2>2, <3>2 DEF Keeps
  <2> QED
    BY <2>1, <2>2
<1>6. \A p \in Requests, s \in States : files'[p][s] \in {files[p][s], "absent"}
  BY <1>1 DEF Unlink, TypeOK
<1> QED
  BY <1>1, <1>5, <1>6, PacketStep DEF HasFile

LEMMA WriteMovedPacket ==
    ASSUME PInv, SInv', NEW w \in Workers, WriteMoved(w)
    PROVE  PInv'
<1> PICK q \in Requests, todo \in SUBSET Requests, to \in States, r \in Contents :
       q = wk[w].q /\ todo = wk[w].todo /\ to = wk[w].to /\ r = wk[w].resp
  BY DEF PInv, SInv, IInv, TypeOK, WriteMoved, At, WorkerInv, Worker, Contents
<1>1. /\ [Next]_vars /\ TypeOK /\ wk[w] \in Worker /\ wk[w].pc = "write" /\ q \in Requests
      /\ to \in States /\ UNCHANGED <<ids, batch, packets>>
  BY DEF Next, WriteMoved, PInv, SInv, IInv, TypeOK, WorkerInv, Worker, At, static
<1>2. ASSUME DistinctBatches, to = "exported"
      PROVE  \E p \in Requests : Spent(p) /\ todo \cup {q} \subseteq Members(p)
  BY <1>1, <1>2 DEF PInv, Keeps
<1>3. DistinctBatches /\ Sent(to, r) => Kept(q)
  <2>1. CASE to = "exported"
    BY <1>2, <2>1 DEF Kept
  <2>2. CASE to # "exported"
    BY <1>1, <2>2 DEF PInv, Keeps
  <2> QED
    BY <2>1, <2>2
<1>4. \A p \in Requests, s \in States :
         files'[p][s] = IF p = q /\ s = to THEN r ELSE files[p][s]
  BY <1>1 DEF WriteMoved, TypeOK
<1>5. DistinctBatches => Keeps(w)'
  <2> SUFFICES ASSUME DistinctBatches PROVE Keeps(w)'
    OBVIOUS
  <2>1. CASE to = "imported"
    <3>1. wk'[w] = [wk[w] EXCEPT !.pc = "unlink", !.q = q, !.from = "imported",
                                 !.to = Verdict(r), !.resp = r]
      BY <1>1, <2>1 DEF WriteMoved, MoveFrom, TypeOK
    <3>2. wk'[w].pc = "unlink" /\ wk'[w].q = q /\ wk'[w].to = Verdict(r)
      BY <1>1, <3>1 DEF Worker
    <3>3. Verdict(r) # "exported"
      BY DEF Verdict
    <3>4. Kept(q)'
      BY <1>1, <1>3, <2>1, KeptStays DEF Sent, Unsent
    <3> QED
      BY <3>2, <3>3, <3>4 DEF Keeps
  <2>2. CASE to = "approved"
    <3>1. wk'[w] = [wk[w] EXCEPT !.pc = "record"]
      BY <1>1, <2>2 DEF WriteMoved, TypeOK
    <3> QED
      BY <1>1, <3>1 DEF Worker, Keeps
  <2>3. CASE to = "exported"
    <3>1. wk'[w] = [wk[w] EXCEPT !.pc = "sending"]
      BY <1>1, <2>3 DEF WriteMoved, TypeOK
    <3>2. wk'[w].pc = "sending" /\ wk'[w].q = q /\ wk'[w].todo = todo
      BY <1>1, <3>1 DEF Worker
    <3>3. PICK p \in Requests : Spent(p) /\ todo \cup {q} \subseteq Members(p)
      BY <1>2, <2>3
    <3>4. Spent(p)' /\ todo \subseteq Members(p)' /\ p \in ids'
      BY <1>1, <3>3, KeptStays DEF Spent
    <3>5. \E n \in Requests : /\ n \in ids' /\ wk'[w].todo \subseteq Members(n)'
                              /\ Spent(n)' \/ (n = wk'[w].q /\ n \in wk'[w].todo)
      BY <3>2, <3>4
    <3>6. wk'[w].pc \notin {"opening", "packing", "unlink", "write"}
      BY <3>2
    <3> HIDE DEF Spent, Members
    <3> QED
      BY <3>5, <3>6 DEF Keeps
  <2>4. CASE to \notin {"imported", "approved", "exported"}
    BY <2>4, StopKeeps DEF WriteMoved
  <2> QED
    BY <2>1, <2>2, <2>3, <2>4
<1> QED
  BY <1>1, <1>3, <1>4, <1>5, PacketStep

LEMMA StopPacket ==
    ASSUME PInv, SInv', NEW w \in Workers, RecordApproval(w) \/ Crash(w)
    PROVE  PInv'
<1>1. [Next]_vars /\ UNCHANGED files /\ Keeps(w)'
  BY StopKeeps DEF Next, RecordApproval, Crash
<1> QED
  BY <1>1, PacketStep

LEMMA PacketsInit == OneAtATime /\ Init => PInv
<1> SUFFICES ASSUME OneAtATime, Init PROVE PInv
  OBVIOUS
<1>1. SInv
  BY SequentialInit
<1>2. FilesKept /\ \A w \in Workers : Keeps(w)
  BY DEF Init, FilesKept, HasFile, Keeps, IdleWorker
<1> QED
  BY <1>1, <1>2 DEF PInv, Init

LEMMA PacketsNext == PInv /\ [Next]_vars => PInv'
<1> SUFFICES ASSUME PInv, [Next]_vars PROVE PInv'
  OBVIOUS
<1>1. SInv'
  BY SequentialNext DEF PInv
<1>2. CASE UNCHANGED vars
  BY <1>1, <1>2 DEF vars, PInv, DistinctBatches, FilesKept, Keeps, Kept, Spent, Members, HasFile
<1>3. CASE Next
  BY <1>1, <1>3, CreatePacket, SaveCreatedPacket, ExportPacket, SendPacket, StartPacket,
     SaveResponsePacket, NeverMissing, UnlinkPacket, WriteMovedPacket, StopPacket
     DEF Next, PInv
<1> QED
  BY <1>2, <1>3

\* Commands that run one at a time, over requests with batch ids of their own, never leave
\* a request exported or answered that no packet holds, wherever they die, though every
\* export replaces the packet of its batch id: the request whose batch id a packet has is
\* moved first, and is never exported again (export_requests, export_cloud_queue_request).
THEOREM Packed == ASSUME OneAtATime PROVE Spec => []ExportedIsPacked
<1>1. PInv => ExportedIsPacked
  <2> SUFFICES ASSUME PInv, DistinctBatches, NEW q \in Requests, NEW s \in States,
                      HasFile(q, s), s = "exported" \/ files[q][s] # "blank"
               PROVE  \E b \in Batches : q \in packets[b].members
    BY DEF ExportedIsPacked
  <2>1. PICK p \in Requests : Spent(p) /\ q \in Members(p)
    BY DEF PInv, FilesKept, Sent, Unsent, Kept
  <2> QED
    BY <2>1 DEF PInv, Spent, Members
<1>2. Init => PInv
  BY PacketsInit
<1> QED
  BY <1>1, <1>2, PacketsNext, PTL DEF Spec

-----------------------------------------------------------------------------
(* One command at a time: the moves implement the life of a request *)

\* The file of q is in s, or is being moved out of it.
Sits(q, s) == HasFile(q, s) \/ Moving(q, s)

\* The phase of a request whose file sits in s.
Of(s) ==
    CASE s = "ready" -> "ready"
      [] s = "exported" -> "sent"
      [] s \in Answered -> "answered"
      [] s \in Decided -> "decided"
      [] OTHER -> "lost"

phase == [q \in Requests |-> Phase(q)]

\* A request has one place, and so one phase.
PhaseSound ==
    \A q \in Requests :
        /\ q \notin ids => Phase(q) = "none"
        /\ \A s \in States : q \in ids /\ Sits(q, s) => Phase(q) = Of(s)
        /\ q \in ids /\ (\A s \in States : ~Sits(q, s)) => Phase(q) = "lost"

LEMMA PhaseIs == SInv => PhaseSound
<1> SUFFICES ASSUME SInv, NEW q \in Requests
             PROVE  /\ q \notin ids => Phase(q) = "none"
                    /\ \A s \in States : q \in ids /\ Sits(q, s) => Phase(q) = Of(s)
                    /\ q \in ids /\ (\A s \in States : ~Sits(q, s)) => Phase(q) = "lost"
  BY DEF PhaseSound
<1>1. {"ready", "exported"} \cup Answered \cup Decided \subseteq States
  BY StatesAre DEF Answered, Decided
<1>2. ASSUME NEW s \in States, NEW t \in States, Sits(q, s), Sits(q, t)
      PROVE  s = t
  BY <1>2 DEF SInv, OneFilePerRequest, OneAtATime, UpToDate, Sits, Moving, At, Missing
<1>3. ASSUME q \in ids
      PROVE  Phase(q) = IF \E s \in {"ready"} : Sits(q, s) THEN "ready"
                        ELSE IF \E s \in {"exported"} : Sits(q, s) THEN "sent"
                        ELSE IF \E s \in Answered : Sits(q, s) THEN "answered"
                        ELSE IF \E s \in Decided : Sits(q, s) THEN "decided"
                        ELSE "lost"
  BY <1>3 DEF Phase, Sits
<1>4. ASSUME q \in ids, NEW s \in States, Sits(q, s)
      PROVE  Phase(q) = Of(s)
  <2>1. \A t \in States : Sits(q, t) <=> t = s
    BY <1>2, <1>4
  <2> QED
    BY <1>1, <1>3, <1>4, <2>1 DEF Of, Answered, Decided
<1>5. ASSUME q \in ids, \A s \in States : ~Sits(q, s)
      PROVE  Phase(q) = "lost"
  BY <1>1, <1>3, <1>5
<1> QED
  BY <1>4, <1>5 DEF Phase

LEMMA PhaseNext == SInv' => PhaseSound'
BY PhaseIs, PTL

\* A request whose place does not change keeps its phase.
LEMMA SamePhase ==
    ASSUME NEW q \in Requests, q \in ids' <=> q \in ids,
           \A s \in States : Sits(q, s)' <=> Sits(q, s)
    PROVE  Phase(q)' = Phase(q)
<1>1. {"ready", "exported"} \cup Answered \cup Decided \subseteq States
  BY StatesAre DEF Answered, Decided
<1> QED
  BY <1>1 DEF Phase, Sits

\* A step of one request.
LEMMA OnePhase ==
    ASSUME NEW q \in Requests, \A p \in Requests \ {q} : Phase(p)' = Phase(p)
    PROVE  phase' = [phase EXCEPT ![q] = Phase(q)'] /\ phase[q] = Phase(q)
BY DEF phase

LEMMA QuietPhase ==
    ASSUME UNCHANGED ids, \A q \in Requests, s \in States : Sits(q, s)' <=> Sits(q, s)
    PROVE  phase' = phase
BY SamePhase DEF phase

\* No command is between its two file operations, before the step and after it.
LEMMA NotMoving ==
    ASSUME OneAtATime, NEW w \in Workers, ~At(w, "write"), ~At(w, "write")',
           UNCHANGED <<files, ids>>
    PROVE  phase' = phase
<1>1. \A q \in Requests, s \in States : Sits(q, s)' <=> Sits(q, s)
  BY DEF OneAtATime, Sits, Moving, HasFile, At
<1> QED
  BY <1>1, QuietPhase

LEMMA CreatePhase ==
    ASSUME SInv, SInv', NEW w \in Workers, NEW q \in Requests, CreateRequest(w, q)
    PROVE  Lifecycle!Package(q)
<1>1. "ready" \in States /\ TypeOK /\ wk[w].pc = "idle" /\ wk[w] \in Worker /\ q \in ids'
      /\ "blank" # "absent"
  BY StatesAre DEF SInv, IInv, TypeOK, CreateRequest, At
<1>2. wk'[w] = [wk[w] EXCEPT !.pc = "created", !.q = q]
  BY DEF SInv, IInv, TypeOK, CreateRequest
<1>3. wk'[w].pc = "created"
  BY <1>1, <1>2 DEF Worker
<1>4. files' = [files EXCEPT ![q]["ready"] = "blank"]
  BY DEF CreateRequest
<1>5. \A p \in Requests \ {q}, s \in States : Sits(p, s)' <=> Sits(p, s)
  BY <1>1, <1>3, <1>4 DEF SInv, OneAtATime, Sits, Moving, HasFile, At, TypeOK
<1>6. \A p \in Requests \ {q} : Phase(p)' = Phase(p)
  BY <1>5, SamePhase DEF CreateRequest
<1>7. Sits(q, "ready")'
  BY <1>1, <1>4 DEF TypeOK, Sits, HasFile
<1>8. Phase(q) = "none" /\ Phase(q)' = "ready"
  <2>1. q \notin ids /\ Of("ready") = "ready"
    BY DEF CreateRequest, Of, Answered, Decided
  <2>2. Phase(q) = "none"
    BY <2>1, PhaseIs DEF PhaseSound
  <2>3. Phase(q)' = Of("ready")
    BY <1>1, <1>7, PhaseNext DEF PhaseSound
  <2> QED
    BY <2>1, <2>2, <2>3
<1> QED
  BY <1>6, <1>8, OnePhase DEF Lifecycle!Package, Lifecycle!Move, phase

LEMMA SaveCreatedPhase ==
    ASSUME SInv, SInv', NEW w \in Workers, SaveCreated(w)
    PROVE  phase' = phase
<1> DEFINE q == wk[w].q
<1>1. "ready" \in States /\ TypeOK /\ wk[w].pc = "created" /\ q \in Requests
      /\ HasFile(q, "ready") /\ "blank" # "absent"
  BY StatesAre DEF SInv, IInv, TypeOK, SaveCreated, At, WorkerInv, UpToDate
<1>2. wk'[w].pc = "idle"
  BY DEF SInv, IInv, TypeOK, SaveCreated, Stop, IdleWorker
<1>3. files' = [files EXCEPT ![q]["ready"] = "blank"]
  BY DEF SaveCreated
<1>4. \A p \in Requests, s \in States : Sits(p, s)' <=> Sits(p, s)
  BY <1>1, <1>2, <1>3 DEF SInv, OneAtATime, Sits, Moving, HasFile, At, TypeOK
<1> QED
  BY <1>4, QuietPhase DEF SaveCreated, static

\* The old file is removed: the request is still in its phase.
LEMMA UnlinkPhase ==
    ASSUME SInv, SInv', NEW w \in Workers, Unlink(w)
    PROVE  phase' = phase
<1> DEFINE q == wk[w].q
           from == wk[w].from
<1>1. /\ wk[w] \in Worker /\ wk[w].pc = "unlink" /\ TypeOK /\ q \in Requests /\ from \in States
      /\ HasFile(q, from)
  BY DEF SInv, IInv, TypeOK, Unlink, At, WorkerInv, Worker
<1>2. wk'[w] = [wk[w] EXCEPT !.pc = "write"]
  BY DEF SInv, IInv, TypeOK, Unlink
<1>3. wk'[w].pc = "write" /\ wk'[w].q = q /\ wk'[w].from = from
  BY <1>1, <1>2 DEF Worker
<1>4. \A p \in Requests, t \in States :
         files'[p][t] = IF p = q /\ t = from THEN "absent" ELSE files[p][t]
  BY <1>1 DEF Unlink, TypeOK
<1>5. ASSUME NEW p \in Requests, NEW t \in States
      PROVE  /\ Moving(p, t)' <=> p = q /\ t = from
             /\ ~Moving(p, t)
             /\ HasFile(p, t)' <=> HasFile(p, t) /\ ~(p = q /\ t = from)
  BY <1>1, <1>3, <1>4 DEF SInv, OneAtATime, Moving, HasFile, At
<1>6. \A p \in Requests, s \in States : Sits(p, s)' <=> Sits(p, s)
  BY <1>1, <1>5 DEF Sits
<1> QED
  BY <1>6, QuietPhase DEF Unlink, static

\* The transition map follows the life of a request.
LEMMA MapFollowsLife ==
    ASSUME NEW from \in States, NEW to \in States, from # "new", to \in TransitionMap[from]
    PROVE  \/ Of(from) = Of(to)
           \/ Of(from) = "ready" /\ Of(to) = "sent"
           \/ Of(from) = "sent" /\ Of(to) = "answered"
           \/ Of(from) \in {"ready", "sent", "answered"} /\ Of(to) = "decided"
BY StatesAre DEF TransitionMap, Of, Answered, Decided

\* What can still be moved is not decided.
LEMMA MovableUndecided ==
    ASSUME NEW from \in States, from # "new", TransitionMap[from] # {}
    PROVE  Of(from) \in {"ready", "sent", "answered"}
BY StatesAre DEF TransitionMap, Of, Answered, Decided

\* The new file is written: the request is in its next phase.
LEMMA WriteMovedPhase ==
    ASSUME SInv, SInv', NEW w \in Workers, WriteMoved(w)
    PROVE  [Lifecycle!Next]_phase
<1>1. PICK q \in Requests, from \in States, to \in States :
         q = wk[w].q /\ from = wk[w].from /\ to = wk[w].to
  BY DEF SInv, IInv, TypeOK, WriteMoved, At, WorkerInv, Worker
<1> DEFINE r == wk[w].resp
<1>2. /\ wk[w] \in Worker /\ wk[w].pc = "write" /\ TypeOK /\ r # "absent" /\ UpToDate(w)
  BY Distinct DEF SInv, IInv, TypeOK, WriteMoved, At, Worker
<1>3. q \in ids /\ from # "new" /\ to \in TransitionMap[from] /\ Missing(q)
  BY <1>1, <1>2 DEF UpToDate
<1>4. UNCHANGED ids
  BY DEF WriteMoved, static
<1>5. wk'[w].pc # "write"
  <2>1. CASE to = "imported"
    <3>1. wk'[w] = [wk[w] EXCEPT !.pc = "unlink", !.q = q, !.from = "imported",
                                 !.to = Verdict(r), !.resp = r]
      BY <1>1, <2>1 DEF WriteMoved, MoveFrom, SInv, IInv, TypeOK
    <3> QED
      BY <1>2, <3>1 DEF Worker
  <2>2. CASE to = "approved"
    <3>1. wk'[w] = [wk[w] EXCEPT !.pc = "record"]
      BY <1>1, <2>2 DEF WriteMoved, SInv, IInv, TypeOK
    <3> QED
      BY <1>2, <3>1 DEF Worker
  <2>3. CASE to = "exported"
    <3>1. wk'[w] = [wk[w] EXCEPT !.pc = "sending"]
      BY <1>1, <2>3 DEF WriteMoved, SInv, IInv, TypeOK
    <3> QED
      BY <1>2, <3>1 DEF Worker
  <2>4. CASE to \notin {"imported", "approved", "exported"}
    BY <1>1, <2>4 DEF WriteMoved, Stop, IdleWorker, SInv, IInv, TypeOK
  <2> QED
    BY <2>1, <2>2, <2>3, <2>4
<1>6. \A p \in Requests, t \in States :
         files'[p][t] = IF p = q /\ t = to THEN r ELSE files[p][t]
  BY <1>1, <1>2 DEF TypeOK, WriteMoved
<1>7. \A p \in Requests \ {q}, s \in States : Sits(p, s)' <=> Sits(p, s)
  BY <1>1, <1>2, <1>5, <1>6 DEF SInv, OneAtATime, Sits, Moving, HasFile, At
<1>8. Sits(q, from) /\ Sits(q, to)'
  BY <1>1, <1>2, <1>6 DEF Sits, Moving, At, HasFile
<1>9. Phase(q) = Of(from) /\ Phase(q)' = Of(to)
  BY <1>3, <1>4, <1>8, PhaseIs, PhaseNext DEF PhaseSound
<1>10. phase' = [phase EXCEPT ![q] = Of(to)] /\ phase[q] = Of(from)
  BY <1>4, <1>7, <1>9, SamePhase, OnePhase
<1>11. CASE Of(from) = Of(to)
  BY <1>10, <1>11 DEF phase
<1>12. CASE Of(from) # Of(to)
  <2>1. \/ Of(from) = "ready" /\ Of(to) = "sent"
        \/ Of(from) = "sent" /\ Of(to) = "answered"
        \/ Of(from) \in {"ready", "sent", "answered"} /\ Of(to) = "decided"
    BY <1>3, <1>12, MapFollowsLife
  <2>2. Lifecycle!Send(q) \/ Lifecycle!Answer(q) \/ Lifecycle!Decide(q)
    BY <1>10, <2>1 DEF Lifecycle!Send, Lifecycle!Answer, Lifecycle!Decide, Lifecycle!Move, phase
  <2> QED
    BY <2>2 DEF Lifecycle!Next
<1> QED
  BY <1>11, <1>12

\* A command that dies between its two file operations loses the request it was moving.
LEMMA CrashPhase ==
    ASSUME SInv, SInv', NEW w \in Workers, Crash(w)
    PROVE  [Lifecycle!Next]_phase
<1>1. wk'[w].pc = "idle" /\ UNCHANGED <<files, ids>>
  BY DEF SInv, IInv, TypeOK, Crash, Stop, IdleWorker, static
<1>2. CASE ~At(w, "write")
  BY <1>1, <1>2, NotMoving DEF At, SInv
<1>3. CASE At(w, "write")
  <2>1. PICK q \in Requests, from \in States : q = wk[w].q /\ from = wk[w].from
    BY <1>3 DEF SInv, IInv, TypeOK, At, WorkerInv, Worker
  <2>2. q \in ids /\ from # "new" /\ TransitionMap[from] # {} /\ Missing(q)
    BY <1>3, <2>1 DEF SInv, At, UpToDate
  <2>3. \A s \in States : ~Sits(q, s)'
    BY <1>1, <2>2 DEF SInv, OneAtATime, Sits, Moving, Missing, HasFile, At
  <2>4. Sits(q, from)
    BY <1>3, <2>1 DEF Sits, Moving
  <2>5. Phase(q) = Of(from) /\ Phase(q)' = "lost"
    BY <1>1, <2>2, <2>3, <2>4, PhaseIs, PhaseNext DEF PhaseSound
  <2>6. \A p \in Requests \ {q}, s \in States : Sits(p, s)' <=> Sits(p, s)
    BY <1>1, <2>1 DEF SInv, OneAtATime, Sits, Moving, HasFile, At
  <2>7. phase' = [phase EXCEPT ![q] = "lost"] /\ phase[q] = Of(from)
    BY <1>1, <2>5, <2>6, SamePhase, OnePhase
  <2>8. Lifecycle!Lose(q)
    BY <2>2, <2>7, MovableUndecided DEF Lifecycle!Lose, Lifecycle!Move, phase
  <2> QED
    BY <2>8 DEF Lifecycle!Next
<1> QED
  BY <1>2, <1>3

\* The steps of a command before and after its file operations.
LEMMA QuietActions ==
    ASSUME SInv, SInv', NEW w \in Workers,
           \/ ExportStart(w) \/ OpenPacket(w) \/ WritePacket(w) \/ PacketFails(w)
           \/ SendNext(w) \/ SendDone(w) \/ SaveResponse(w) \/ RecordApproval(w)
           \/ \E q \in Requests : ImportStart(w, q) \/ Approve(w, q) \/ Decide(w, q)
    PROVE  phase' = phase
<1>1. wk[w] \in Worker /\ wk \in [Workers -> Worker] /\ UNCHANGED <<files, ids>>
  BY DEF SInv, IInv, TypeOK, ExportStart, OpenPacket, WritePacket, PacketFails, SendNext, SendDone, SaveResponse,
         RecordApproval, ImportStart, Approve, Decide, static
<1>2. ~At(w, "write")
  BY DEF ExportStart, OpenPacket, WritePacket, PacketFails, SendNext, SendDone, SaveResponse, RecordApproval,
         ImportStart, Approve, Decide, At
<1>3. wk'[w].pc # "write"
  <2>1. CASE ExportStart(w) \/ OpenPacket(w) \/ WritePacket(w) \/ PacketFails(w)
    <3>1. CASE ExportStart(w)
      <4>1. PICK todo \in SUBSET Requests, q \in Requests :
               wk' = [wk EXCEPT ![w].pc = "opening", ![w].q = q, ![w].todo = todo]
        BY <3>1 DEF ExportStart
      <4>2. wk'[w] = [wk[w] EXCEPT !.pc = "opening", !.q = q, !.todo = todo]
        BY <1>1, <4>1
      <4> QED
        BY <1>1, <4>2 DEF Worker
    <3>2. CASE OpenPacket(w)
      BY <1>1, <3>2 DEF OpenPacket, Worker
    <3>3. CASE WritePacket(w)
      BY <1>1, <3>3 DEF WritePacket, Worker
    <3>4. CASE PacketFails(w)
      BY <1>1, <3>4 DEF PacketFails, Stop, IdleWorker
    <3> QED
      BY <2>1, <3>1, <3>2, <3>3, <3>4
  <2>2. CASE SendNext(w)
    <3>1. PICK q \in wk[w].todo :
             wk' = [wk EXCEPT ![w].pc = "unlink", ![w].q = q, ![w].from = "ready",
                              ![w].to = "exported", ![w].todo = @ \ {q}]
      BY <2>2 DEF SendNext, Send
    <3>2. wk'[w] = [wk[w] EXCEPT !.pc = "unlink", !.q = q, !.from = "ready",
                                 !.to = "exported", !.todo = wk[w].todo \ {q}]
      BY <1>1, <3>1
    <3> QED
      BY <1>1, <3>2 DEF Worker
  <2>3. CASE SendDone(w) \/ SaveResponse(w) \/ RecordApproval(w)
    BY <1>1, <2>3 DEF SendDone, SaveResponse, RecordApproval, Stop, IdleWorker, Worker
  <2>4. ASSUME NEW q, NEW s, NEW to, NEW r, NEW l \in {"unlink", "response"},
               MoveFrom(w, q, s, to, r, l)
        PROVE  wk'[w].pc # "write"
    BY <1>1, <2>4 DEF MoveFrom, Worker
  <2>5. CASE \E q \in Requests : ImportStart(w, q) \/ Approve(w, q) \/ Decide(w, q)
    BY <2>4, <2>5 DEF ImportStart, Approve, Decide
  <2> QED
    BY <2>1, <2>2, <2>3, <2>5
<1> QED
  BY <1>1, <1>2, <1>3, NotMoving DEF SInv, At

LEMMA LifecycleNext == SInv /\ SInv' /\ [Next]_vars => [Lifecycle!Next]_phase
<1> SUFFICES ASSUME SInv, SInv', [Next]_vars PROVE [Lifecycle!Next]_phase
  OBVIOUS
<1>1. ASSUME NEW w \in Workers, NEW q \in Requests, CreateRequest(w, q)
      PROVE  [Lifecycle!Next]_phase
  BY <1>1, CreatePhase DEF Lifecycle!Next
<1>2. CASE UNCHANGED vars
  BY <1>2, QuietPhase DEF vars, Sits, Moving, HasFile, At
<1> QED
  BY <1>1, <1>2, SaveCreatedPhase, NeverMissing, UnlinkPhase, WriteMovedPhase, CrashPhase,
     QuietActions DEF Next

LEMMA LifecycleInit == Init => Lifecycle!Init
BY DEF Init, Lifecycle!Init, Phase

\* Commands that run one at a time take a request through packaging, sending, answers and
\* a final decision in that order, and one that dies loses it only before it is decided,
\* though each move is a removal and then a write (move_request, TransitionMap).
THEOREM LifeOfARequest == ASSUME OneAtATime PROVE Spec => ImplementsLifecycle
<1>1. Init => Lifecycle!Init
  BY LifecycleInit
<1>2. SInv /\ SInv' /\ [Next]_vars => [Lifecycle!Next]_([q \in Requests |-> Phase(q)])
  BY LifecycleNext DEF phase
<1>3. Spec => Lifecycle!Init /\ [][Lifecycle!Next]_([q \in Requests |-> Phase(q)])
  BY <1>1, <1>2, SequentialInvariance, PTL DEF Spec
<1> QED
  BY <1>3, PTL DEF ImplementsLifecycle, Lifecycle!Spec
=============================================================================
