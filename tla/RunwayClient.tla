---------------------------- MODULE RunwayClient ----------------------------
(***************************************************************************)
(* runway_hook.c: a client that submits one task to a remote service, or   *)
(* takes the id of one, and polls it until its end.  The world is the      *)
(* status of every task the service has.  A request is answered with       *)
(* whatever the service had when it got the request; the answer, or the    *)
(* request, may be lost, which ends the client, and may be an HTTP error.  *)
(***************************************************************************)
EXTENDS HostProgram, Naturals, FiniteSets

CONSTANT Tasks   \* ids of tasks

Statuses == {"PENDING", "RUNNING", "SUCCEEDED", "FAILED", "CANCELED"}
Terminal == {"SUCCEEDED", "FAILED", "CANCELED"}
NoTask == "none"   \* an id the service does not know

Runway(label) == At("runway", label)

(* die and exit(1), or the return of main. *)
Exits(code, why) == Becomes("exited", [mem EXCEPT !.code = code, !.why = why])

(* main and parse_args: without a key, with an unknown argument or without *)
(* a prompt the client dies; --task-id skips the submission.               *)
RunwayInit ==
  /\ program = "runway" /\ pc = "start"
  /\ mem = [id |-> NoTask, answer |-> NoTask, code |-> 0, why |-> "running"]
  /\ world \in [Tasks -> {NoTask, "PENDING"}]

ParseArgs ==
  /\ Runway("start")
  /\ \/ Exits(1, "arguments")
     \/ Becomes("submit", mem)
     \/ \E id \in Tasks : Becomes("poll", [mem EXCEPT !.id = id])

(* http_request and submit_task: the request arrives or not, and so does   *)
(* the answer; any answer but 2xx with an id ends the client.              *)
Submitted ==
  \/ UNCHANGED world /\ mem' = [mem EXCEPT !.code = 1, !.why = "submit"] /\ pc' = "exited"
  \/ \E id \in Tasks :
       /\ world[id] = NoTask /\ world' = [world EXCEPT ![id] = "PENDING"]
       /\ \/ mem' = [mem EXCEPT !.id = id] /\ pc' = "poll"
          \/ mem' = [mem EXCEPT !.code = 1, !.why = "submit"] /\ pc' = "exited"

SubmitTask == Runway("submit") /\ Submitted /\ UNCHANGED program

(* poll_task, up to the answer. *)
Poll ==
  /\ Runway("poll")
  /\ \/ Exits(1, "curl")
     \/ \E answer \in {world[mem.id], "http_error", "unparsed"} :
          Becomes("polled", [mem EXCEPT !.answer = answer])

(* Mutants: any end is a success; a canceled task is one that still runs. *)
PolledAnyEnd ==
  IF mem.answer \in Terminal THEN Exits(0, "status")
  ELSE Becomes("poll", [mem EXCEPT !.answer = NoTask])
PolledCanceledGoesOn ==
  IF mem.answer = "SUCCEEDED" THEN Exits(0, "status")
  ELSE IF mem.answer = "FAILED" THEN Exits(1, "status")
  ELSE Becomes("poll", [mem EXCEPT !.answer = NoTask])

(* poll_task, from the answer: an error and an unknown status are asked    *)
(* again after five seconds, without limit.                                *)
Polled ==
  IF mem.answer = "SUCCEEDED" THEN Exits(0, "status")
  ELSE IF mem.answer \in Terminal THEN Exits(1, "status")
  ELSE Becomes("poll", [mem EXCEPT !.answer = NoTask])

HandleAnswer == Runway("polled") /\ Polled

(* The service works on its tasks. *)
Progress == /\ program = "runway" /\ \E id \in Tasks, s \in Statuses \ {"PENDING"} :
                 /\ world[id] \in {"PENDING", "RUNNING"} /\ s # world[id]
                 /\ Meanwhile([world EXCEPT ![id] = s])

RunwayStep == ParseArgs \/ SubmitTask \/ Poll \/ HandleAnswer
RunwayNext == RunwayStep \/ Progress

-----------------------------------------------------------------------------
(* The types, and that what is polled is a task. *)
RunwayTypeOK == program = "runway" =>
  /\ world \in [Tasks -> Statuses \union {NoTask}]
  /\ mem \in [id : Tasks \union {NoTask}, code : 0..1,
              answer : Statuses \union {NoTask, "http_error", "unparsed"},
              why : {"running", "arguments", "submit", "curl", "status"}]
  /\ pc \in {"start", "submit", "poll", "polled", "exited"}
  /\ pc \in {"poll", "polled"} => mem.id \in Tasks

(* The exit status tells how the task that was polled ended: success only  *)
(* if it succeeded, and a failure read from a status only if it failed.    *)
RunwayTellsOutcome ==
  /\ RunwayTypeOK
  /\ Runway("exited") =>
       /\ mem.code = 0 => world[mem.id] = "SUCCEEDED"
       /\ mem.why = "status" => /\ world[mem.id] \in Terminal
                                /\ mem.code = 1 => world[mem.id] # "SUCCEEDED"

(* Once the polled task has ended and its status is answered now and then, *)
(* the client ends.                                                        *)
Answered == pc = "polled" /\ mem.answer \in Statuses
PolledTaskEnded == program = "runway" /\ mem.id \in Tasks /\ world[mem.id] \in Terminal
RunwayFollowsToEnd ==
  []<>(program = "runway" => Answered \/ Ended) => (PolledTaskEnded ~> Ended)
=============================================================================
