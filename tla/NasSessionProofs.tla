-------------------------- MODULE NasSessionProofs --------------------------
(***************************************************************************)
(* Proofs about NasSession, for every list of clients, any number of calls *)
(* and faults: every answer that is taken belongs to the request that      *)
(* waits for it, a power call makes at most one job, what the calls answer *)
(* is true, the guards keep a shutdown from cutting a client off, and      *)
(* "safe to retry" is said only when it is.                                *)
(*                                                                         *)
(* Inv is about the requests and frames that are under way, and is         *)
(* inductive by itself.  Sure says what an answer that has been given      *)
(* still tells when it is read, and what a call has learned from those it  *)
(* has read; it is inductive relative to Inv.                              *)
(***************************************************************************)
EXTENDS NasSession, SequenceTheorems, WellFoundedInduction, TLAPS

PowerMethods == {"nfs3", "nfs4", "jobs", "submit", "submit_old", "verify"}
OtherMethods == {"create", "poll", "state"}
Methods == PowerMethods \cup OtherMethods

Answers(values) == [code : {"ok"}, val : values]
Errors(codes) == [code : codes, val : {Null}]

\* What the NAS may answer to each request, and what the client makes of one
\* that gets no answer.
AnswersTo(method) ==
  CASE method \in {"nfs3", "nfs4"} -> Answers(SUBSET Clients) \cup Errors({"TRUENAS_API_ERROR"})
    [] method = "jobs" -> Answers(BOOLEAN)
    [] method = "submit" -> IF Modern THEN Answers(1..MaxCalls) ELSE Errors({"signature"})
    [] method = "submit_old" -> Answers(1..MaxCalls)
    [] method = "verify" -> Answers(SUBSET (1..MaxCalls))
    [] method = "create" -> Answers({"job", "entity"})
    [] method = "poll" -> Answers({"none", "running", "SUCCESS", "FAILED"})
    [] method = "state" -> Answers({"READY"})
NoAnswer == Errors({"CONNECTION_ERROR", "CONNECTION_REFUSED", "TIMEOUT"})

Codes ==
  {"ok", "signature", "TRUENAS_API_ERROR", "CONNECTION_ERROR", "CONNECTION_REFUSED", "TIMEOUT"}
Outcomes ==
  Codes \cup {"none", "cancelled", "read", "submitted", "POWER_GUARD", "POWER_NOT_SUBMITTED",
              "timeout", "JOB_FAILED"}

Ended == [wants : {"nothing"}, outcome : Outcomes, verified : BOOLEAN]
Probing ==
  [wants : PowerMethods, outcome : {"none"}, force : BOOLEAN, delayed : BOOLEAN,
   seen : SUBSET Clients, failed : SUBSET {"nfs3", "nfs4"}, busy : BOOLEAN]
Working ==
  [wants : OtherMethods, outcome : {"none"}, polls : 0..MaxPolls, waits : BOOLEAN]
Requests ==
  [id : Nat, by : Tasks, method : Methods, call : 0..MaxCalls, live : BOOLEAN]
Frames ==
  [id : Nat, val : UNION {AnswersTo(m) : m \in Methods}, to : [by : Tasks, method : Methods]]

\* What the variables may hold.
Typed ==
  /\ task \in [Tasks -> Ended \cup Probing \cup Working]
  /\ task[Power] \in Ended \cup Probing /\ task[Other] \in Ended \cup Working
  /\ calls \in 0..MaxCalls /\ made \in [1..MaxCalls -> Nat]
  /\ holder \in Tasks \cup {Null} /\ phase \in {"none", "connect", "send", "recv"}
  /\ id \in Nat /\ wire \in SUBSET Requests /\ frames \in Seq(Frames)
  /\ mounted \in SUBSET Clients /\ stale \in SUBSET Clients
  /\ scrub \in BOOLEAN /\ jobs \in SUBSET (1..MaxCalls)
  /\ dataset \in {"none", "running", "SUCCESS", "FAILED"}

\* The lock is held by a task that wants something; a request is of the task it
\* says it is of, and a frame answers the kind of request it says it does.
Held ==
  /\ holder = Null <=> phase = "none"
  /\ holder # Null => task[holder].wants # "nothing"
  /\ \A r \in wire : /\ r.by = Power <=> r.method \in PowerMethods
                     /\ r.by = Power => r.call \in 1..calls
  /\ \A i \in 1..Len(frames) : frames[i].val \in AnswersTo(frames[i].to.method)

\* There is a greatest id under way.
Bounded ==
  \E N \in Nat : (\A r \in wire : r.id <= N) /\ \A i \in 1..Len(frames) : frames[i].id <= N

\* Whatever bears the id that is waited for is of the holder's request.
Mine(by, method) == by = holder /\ method = task[holder].wants
Owned ==
  phase = "recv" =>
    /\ \A r \in wire : r.id = id => Mine(r.by, r.method)
    /\ \A i \in 1..Len(frames) : frames[i].id = id => Mine(frames[i].to.by, frames[i].to.method)

\* The requests that make a job; the power call has not sent one yet.
Submits(r) == r.method = "submit_old" \/ (r.method = "submit" /\ Modern)
Unsent ==
  LET wants == task[Power].wants
  IN \/ wants \in {"nfs3", "nfs4", "jobs"}
     \/ wants = "submit" /\ ~Modern
     \/ wants \in {"submit", "submit_old"} /\ ~(holder = Power /\ phase = "recv")

\* A call has made a job, or has one request under way that will, or neither.
Once ==
  /\ \A k \in 1..MaxCalls : made[k] <= 1 /\ (k > calls => made[k] = 0)
  /\ \A r, s \in wire : Submits(r) /\ Submits(s) /\ r.call = s.call => r = s
  /\ \A r \in wire : Submits(r) => made[r.call] = 0
  /\ Unsent /\ calls > 0 => made[calls] = 0 /\ \A r \in wire : Submits(r) => r.call # calls
  /\ Modern => task[Power].wants # "submit_old"
  /\ task[Power].wants # "nothing" => calls > 0

Inv == Typed /\ Held /\ Bounded /\ Owned /\ Once

-----------------------------------------------------------------------------
(* Numbers, ids and answers.                                               *)

\* A bounded set of numbers has a greatest one, and Max is that.
LEMMA MaxIsGreatest ==
  ASSUME NEW T \in SUBSET Nat, T # {}, NEW N \in Nat, \A x \in T : x <= N
  PROVE  Max(T) \in T /\ \A x \in T : x <= Max(T)
<1> DEFINE R == {ss \in Nat \X Nat : ss[1] < ss[2]}
           D == {N - x : x \in T}
<1>1. IsWellFoundedOn(R, Nat)
  BY NatLessThanWellFounded DEF OpToRel
<1>2. D \subseteq Nat /\ D # {}
  <2>1. \A x \in T : N - x \in Nat
    OBVIOUS
  <2>2. PICK x \in T : TRUE
    OBVIOUS
  <2>3. N - x \in D
    BY <2>2
  <2> QED
    BY <2>1, <2>3
<1>3. PICK d \in D : \A c \in D : ~(<<c, d>> \in R)
  <2> HIDE DEF R, D
  <2> QED
    BY <1>1, <1>2, WFMin
<1>4. \A c \in D : d <= c
  <2> TAKE c \in D
  <2>1. c \in Nat /\ d \in Nat /\ <<c, d>> \in Nat \X Nat
    BY <1>2
  <2>2. ~(c < d)
    BY <1>3, <2>1
  <2> QED
    BY <2>1, <2>2
<1>5. PICK m \in T : d = N - m
  OBVIOUS
<1>6. \A x \in T : m >= x
  <2> TAKE x \in T
  <2>1. N - x \in D
    OBVIOUS
  <2>2. N - m <= N - x
    BY <1>4, <1>5, <2>1
  <2>3. N \in Nat /\ m \in Nat /\ x \in Nat
    OBVIOUS
  <2> HIDE DEF D
  <2> QED
    BY <2>2, <2>3
<1> QED
  BY <1>6 DEF Max

\* The next id is greater than all that are under way.
LEMMA NextIsFresh ==
  ASSUME Typed, Bounded
  PROVE  /\ NextId \in Nat
         /\ \A r \in wire : r.id < NextId
         /\ \A i \in 1..Len(frames) : frames[i].id < NextId
<1> DEFINE T == {0} \cup {r.id : r \in wire} \cup {frames[i].id : i \in DOMAIN frames}
<1>1. PICK N \in Nat : (\A r \in wire : r.id <= N) /\ \A i \in 1..Len(frames) : frames[i].id <= N
  BY DEF Bounded
<1>2. DOMAIN frames = 1..Len(frames) /\ \A i \in 1..Len(frames) : frames[i] \in Frames
  BY DEF Typed
<1>3. T \in SUBSET Nat /\ T # {} /\ \A x \in T : x <= N
  BY <1>1, <1>2 DEF Typed, Requests, Frames
<1>4. Max(T) \in T /\ \A x \in T : x <= Max(T)
  <2> HIDE DEF T
  <2> QED
    BY <1>1, <1>3, MaxIsGreatest
<1>5. Max(T) \in Nat /\ NextId = 1 + Max(T)
  BY <1>3, <1>4 DEF NextId
<1>6. \A x \in T : x < NextId
  <2> HIDE DEF T
  <2> QED
    BY <1>3, <1>4, <1>5
<1>7. /\ \A r \in wire : r.id \in T
      /\ \A i \in 1..Len(frames) : frames[i].id \in T
  BY <1>2
<1>8. NextId \in Nat
  BY <1>5
<1> HIDE DEF T
<1>9. \A r \in wire : r.id < NextId
  BY <1>6, <1>7
<1>10. \A i \in 1..Len(frames) : frames[i].id < NextId
  BY <1>6, <1>7
<1> QED
  BY <1>8, <1>9, <1>10

\* Every answer has one of the codes.
LEMMA AnswersHaveCodes ==
  ASSUME NEW m \in Methods, NEW r \in AnswersTo(m) \cup NoAnswer
  PROVE  r.code \in Codes
<1>1. CASE r \in NoAnswer
  BY <1>1 DEF NoAnswer, Errors, Codes
<1>2. CASE r \in AnswersTo(m)
  <2>1. \E S : r \in Answers(S) \/ r \in Errors({"TRUENAS_API_ERROR"}) \/ r \in Errors({"signature"})
    BY <1>2 DEF AnswersTo, Methods, PowerMethods, OtherMethods
  <2> QED
    BY <2>1 DEF Answers, Errors, Codes
<1> QED
  BY <1>1, <1>2

\* What a power call does with an answer to its request: it ends or asks on,
\* and asks what comes before a submit that counts only if it has not submitted.
LEMMA AfterPower ==
  ASSUME NEW t \in Probing, NEW r \in AnswersTo(t.wants) \cup NoAnswer
  PROVE  /\ After(t, r) \in Ended \cup Probing
         /\ After(t, r).wants \in {"nfs3", "nfs4", "jobs", "submit", "submit_old"} =>
              t.wants \in {"nfs3", "nfs4", "jobs"} \/ (t.wants = "submit" /\ ~Modern)
         /\ After(t, r).wants = "submit_old" => ~Modern
<1>a. r.code \in Outcomes
  BY AnswersHaveCodes DEF Probing, Methods, Outcomes
<1>b. \A c \in Outcomes : End(c) \in Ended /\ End(c).wants = "nothing"
  BY DEF End, Ended
<1>c. Verified \in Ended /\ Verified.wants = "nothing"
  BY DEF Verified, End, Ended, Outcomes
<1>d. \A m \in PowerMethods : Want(t, m) \in Probing /\ Want(t, m).wants = m
  BY DEF Want, Probing
<1>1. CASE t.wants \in {"nfs3", "nfs4"}
  <2>1. r.code = "ok" => r.val \in SUBSET Clients
    BY <1>1 DEF AnswersTo, NoAnswer, Answers, Errors
  <2>2. ASSUME NEW m \in PowerMethods
        PROVE  AfterClients(t, r, m) \in Probing /\ AfterClients(t, r, m).wants = m
    BY <1>1, <2>1, <2>2 DEF AfterClients, Want, Probing
  <2>3. After(t, r) = AfterClients(t, r, IF t.wants = "nfs3" THEN "nfs4" ELSE "jobs")
    BY <1>1 DEF After
  <2> QED
    BY <1>1, <2>2, <2>3 DEF PowerMethods
<1>2. CASE t.wants = "jobs"
  <2>1. r.code = "ok" => r.val \in BOOLEAN
    BY <1>2 DEF AnswersTo, NoAnswer, Answers, Errors
  <2>2. After(t, r) = AfterJobs(t, r)
    BY <1>2 DEF After
  <2>3. CASE r.code # "ok"
    BY <1>2, <1>a, <1>b, <2>2, <2>3 DEF AfterJobs
  <2>4. CASE r.code = "ok"
    <3> DEFINE u == [t EXCEPT !.busy = r.val]
    <3>1. u \in Probing
      BY <2>1, <2>4 DEF Probing
    <3>2. Want(u, "submit") \in Probing /\ Want(u, "submit").wants = "submit"
      BY <3>1 DEF Want, Probing, PowerMethods
    <3>3. AfterJobs(t, r) = End("POWER_GUARD") \/ AfterJobs(t, r) = Want(u, "submit")
      BY <2>4 DEF AfterJobs
    <3> QED
      BY <1>2, <1>b, <2>2, <3>2, <3>3 DEF Outcomes
  <2> QED
    BY <2>3, <2>4
<1>3. CASE t.wants \in {"submit", "submit_old"}
  <2>1. r.code = "signature" => ~Modern /\ t.wants = "submit"
    BY <1>3 DEF AnswersTo, NoAnswer, Answers, Errors
  <2>2. After(t, r) = AfterSubmit(t, r)
    BY <1>3 DEF After
  <2>3. \/ After(t, r) = Verified
        \/ After(t, r) = Want(t, "submit_old") /\ r.code = "signature"
        \/ After(t, r) = Want(t, "verify")
        \/ After(t, r) = End(r.code)
    BY <2>2 DEF AfterSubmit
  <2> QED
    BY <1>a, <1>b, <1>c, <1>d, <2>1, <2>3 DEF PowerMethods
<1>4. CASE t.wants = "verify"
  <2>1. After(t, r) \in {Verified, End("submitted"), End("POWER_NOT_SUBMITTED")}
    BY <1>4 DEF After, AfterVerify
  <2> QED
    BY <1>4, <1>b, <1>c, <2>1 DEF Outcomes
<1> QED
  BY <1>1, <1>2, <1>3, <1>4 DEF Probing, PowerMethods

\* What another tool does.
LEMMA AfterOther ==
  ASSUME NEW t \in Working, NEW r \in AnswersTo(t.wants) \cup NoAnswer
  PROVE  After(t, r) \in Ended \cup Working
<1>a. r.code \in Outcomes
  BY AnswersHaveCodes DEF Working, Methods, Outcomes
<1>b. \A c \in Outcomes : End(c) \in Ended
  BY DEF End, Ended
<1>1. CASE t.wants = "create"
  <2>1. Want(t, "poll") \in Working
    BY DEF Want, Working, OtherMethods
  <2>2. [End("ok") EXCEPT !.verified = t.waits] \in Ended
    BY DEF End, Ended, Outcomes, Codes, Working
  <2>3. After(t, r) = AfterCreate(t, r)
    BY <1>1 DEF After
  <2> QED
    BY <1>a, <1>b, <2>1, <2>2, <2>3 DEF AfterCreate
<1>2. CASE t.wants = "poll"
  <2>1. t.polls # MaxPolls => [t EXCEPT !.polls = @ + 1] \in Working
    BY BoundsAssumption DEF Working
  <2>2. After(t, r) = AfterPoll(t, r)
    BY <1>2 DEF After
  <2>3. \/ \E c \in Outcomes : After(t, r) = End(c)
        \/ After(t, r) = Done
        \/ t.polls # MaxPolls /\ After(t, r) = [t EXCEPT !.polls = @ + 1]
    BY <1>a, <2>2 DEF AfterPoll, Outcomes
  <2>4. Done \in Ended
    BY DEF Done, End, Ended, Outcomes, Codes
  <2> QED
    BY <1>b, <2>1, <2>3, <2>4
<1>3. CASE t.wants = "state"
  BY <1>3, <1>a, <1>b DEF After, Outcomes
<1> QED
  BY <1>1, <1>2, <1>3 DEF Working, OtherMethods

\* A tool that gets an answer: the others stay as they are, the lock is free,
\* and the power call asks on as above.
LEMMA Returned ==
  ASSUME Typed, Held, holder # Null, NEW r \in AnswersTo(task[holder].wants) \cup NoAnswer,
         Return(r)
  PROVE  /\ task' \in [Tasks -> Ended \cup Probing \cup Working]
         /\ task'[Power] \in Ended \cup Probing /\ task'[Other] \in Ended \cup Working
         /\ holder' = Null /\ phase' = "none" /\ id' = 0
         /\ task'[Power].wants \in {"nfs3", "nfs4", "jobs", "submit", "submit_old"} => Unsent
         /\ task'[Power].wants = "submit_old" /\ Modern => task[Power].wants = "submit_old"
         /\ task'[Power].wants # "nothing" => task[Power].wants # "nothing"
<1>a. /\ holder \in Tasks /\ task[holder].wants # "nothing" /\ Power # Other
      /\ holder' = Null /\ phase' = "none" /\ id' = 0
      /\ task' = [task EXCEPT ![holder] = After(task[holder], r)]
  BY TasksAssumption DEF Typed, Held, Return
<1>1. CASE holder = Power
  <2>1. task[Power] \in Probing
    BY <1>a, <1>1 DEF Typed, Ended
  <2>2. task'[Power] = After(task[Power], r) /\ task'[Other] = task[Other]
    BY <1>a, <1>1 DEF Typed, Tasks
  <2>3. /\ task'[Power] \in Ended \cup Probing
        /\ task'[Power].wants \in {"nfs3", "nfs4", "jobs", "submit", "submit_old"} =>
             task[Power].wants \in {"nfs3", "nfs4", "jobs"} \/ (task[Power].wants = "submit" /\ ~Modern)
        /\ task'[Power].wants = "submit_old" => ~Modern
    BY <1>1, <2>1, <2>2, AfterPower
  <2> QED
    BY <1>a, <1>1, <2>2, <2>3 DEF Typed, Unsent, Tasks
<1>2. CASE holder = Other
  <2>1. task[Other] \in Working
    BY <1>a, <1>2 DEF Typed, Ended
  <2>2. task'[Other] = After(task[Other], r) /\ task'[Power] = task[Power]
    BY <1>a, <1>2 DEF Typed, Tasks
  <2>3. task'[Other] \in Ended \cup Working
    BY <1>2, <2>1, <2>2, AfterOther
  <2> QED
    BY <1>a, <1>2, <2>2, <2>3 DEF Typed, Unsent, Tasks
<1> QED
  BY <1>a, <1>1, <1>2 DEF Tasks

-----------------------------------------------------------------------------
(* Steps that add nothing to the session.                                  *)

FewerRequests == wire' \subseteq wire \/ wire' = {[r EXCEPT !.live = FALSE] : r \in wire}
FewerFrames ==
  /\ frames' \in Seq(Frames)
  /\ \A i \in 1..Len(frames') : \E j \in 1..Len(frames) : frames'[i] = frames[j]

\* Frames that are dropped or read leave frames that were there.
LEMMA FramesRead ==
  ASSUME Typed, frames' = frames \/ frames' = <<>> \/ (frames # <<>> /\ frames' = Tail(frames))
  PROVE  FewerFrames
<1>1. CASE frames' = frames
  BY <1>1 DEF Typed, FewerFrames
<1>2. CASE frames' = <<>>
  BY <1>2 DEF FewerFrames
<1>3. CASE frames # <<>> /\ frames' = Tail(frames)
  <2>1. /\ frames' \in Seq(Frames) /\ Len(frames') = Len(frames) - 1 /\ Len(frames) \in Nat
        /\ \A i \in 1..Len(frames') : frames'[i] = frames[i + 1]
    BY <1>3, HeadTailProperties DEF Typed
  <2>2. \A i \in 1..Len(frames') : i + 1 \in 1..Len(frames)
    BY <2>1
  <2> QED
    BY <2>1, <2>2 DEF FewerFrames
<1> QED
  BY <1>1, <1>2, <1>3

\* What holds of every request and frame holds of fewer.
LEMMA FewerHold ==
  ASSUME Typed, Held, Bounded, Once, FewerRequests, FewerFrames, calls' = calls
  PROVE  /\ wire' \in SUBSET Requests
         /\ \A r \in wire' : \E q \in wire :
              r.id = q.id /\ r.by = q.by /\ r.method = q.method /\ r.call = q.call
         /\ \A r, s \in wire' : Submits(r) /\ Submits(s) /\ r.call = s.call => r = s
         /\ \A r \in wire' : /\ r.by = Power <=> r.method \in PowerMethods
                             /\ r.by = Power => r.call \in 1..calls'
         /\ \A i \in 1..Len(frames') : frames'[i].val \in AnswersTo(frames'[i].to.method)
         /\ Bounded'
<1> DEFINE Deaf(r) == [r EXCEPT !.live = FALSE]
<1>1. \A r \in wire : /\ Deaf(r) \in Requests
                      /\ Deaf(r).id = r.id /\ Deaf(r).by = r.by
                      /\ Deaf(r).method = r.method /\ Deaf(r).call = r.call
  BY DEF Typed, Requests
<1>2. wire' \subseteq wire \/ wire' = {Deaf(r) : r \in wire}
  BY DEF FewerRequests
<1> HIDE DEF Deaf
<1>3. wire' \in SUBSET Requests
  BY <1>1, <1>2 DEF Typed
<1>4. \A r \in wire' : \E q \in wire : /\ r = q \/ r = Deaf(q)
                                       /\ r.id = q.id /\ r.by = q.by
                                       /\ r.method = q.method /\ r.call = q.call
  BY <1>1, <1>2
<1>5. ASSUME NEW r \in wire', NEW s \in wire', Submits(r), Submits(s), r.call = s.call
      PROVE  r = s
  <2>1. CASE wire' \subseteq wire
    BY <1>5, <2>1 DEF Once
  <2>2. CASE wire' = {Deaf(q) : q \in wire}
    <3>1. PICK q \in wire, p \in wire : r = Deaf(q) /\ s = Deaf(p)
      BY <2>2
    <3>2. Submits(q) /\ Submits(p) /\ q.call = p.call
      BY <1>1, <1>5, <3>1 DEF Submits
    <3> QED
      BY <3>1, <3>2 DEF Once
  <2> QED
    BY <1>2, <2>1, <2>2
<1>6. \A r \in wire' : /\ r.by = Power <=> r.method \in PowerMethods
                       /\ r.by = Power => r.call \in 1..calls'
  BY <1>4 DEF Held
<1>7. \A i \in 1..Len(frames') : frames'[i].val \in AnswersTo(frames'[i].to.method)
  BY DEF FewerFrames, Held
<1>8. Bounded'
  <2>1. PICK N \in Nat : (\A r \in wire : r.id <= N) /\ \A i \in 1..Len(frames) : frames[i].id <= N
    BY DEF Bounded
  <2>2. (\A r \in wire' : r.id <= N) /\ \A i \in 1..Len(frames') : frames'[i].id <= N
    BY <1>4, <2>1 DEF FewerFrames
  <2> QED
    BY <2>2 DEF Bounded
<1> QED
  BY <1>3, <1>4, <1>5, <1>6, <1>7, <1>8

\* The network and the NAS, which leave the client's calls alone.
LEMMA FewerStep ==
  ASSUME Inv, FewerRequests, FewerFrames,
         UNCHANGED <<task, calls, holder, phase, id, made>>,
         mounted' \in SUBSET Clients, stale' \in SUBSET Clients, scrub' \in BOOLEAN,
         jobs' \in SUBSET (1..MaxCalls), dataset' \in {"none", "running", "SUCCESS", "FAILED"}
  PROVE  Inv'
<1> USE DEF Inv
<1>1. Typed' /\ Held' /\ Bounded'
  BY FewerHold DEF Typed, Held, FewerFrames
<1>2. Owned'
  BY FewerHold DEF Owned, FewerFrames, Mine
<1>3. Unsent' => Unsent
  BY DEF Unsent
<1>4. \A r \in wire' : \E q \in wire : r.call = q.call /\ (Submits(r) => Submits(q))
  BY FewerHold DEF Submits
<1>5. Once'
  BY <1>3, <1>4, FewerHold DEF Once
<1> QED
  BY <1>1, <1>2, <1>5

\* The end of a request, whatever came of it.
LEMMA ReturnStep ==
  ASSUME Inv, holder # Null, NEW r \in AnswersTo(task[holder].wants) \cup NoAnswer, Return(r),
         FewerRequests, FewerFrames
  PROVE  Inv'
<1> USE DEF Inv
<1>1. /\ UNCHANGED <<calls, made, mounted, stale, scrub, jobs, dataset>>
      /\ holder' = Null /\ phase' = "none" /\ id' = 0
  BY Returned DEF Return, server, history
<1>2. Typed'
  BY <1>1, Returned, FewerHold DEF Typed, FewerFrames
<1>3. Held' /\ Bounded' /\ Owned'
  BY <1>1, FewerHold, TasksAssumption DEF Held, Owned
<1>4. Unsent' => Unsent
  BY <1>1, Returned DEF Unsent
<1>5. \A q \in wire' : \E p \in wire : q.call = p.call /\ (Submits(q) => Submits(p))
  BY <1>1, FewerHold DEF Submits
<1>6. Once'
  BY <1>1, <1>4, <1>5, FewerHold, Returned DEF Once
<1> QED
  BY <1>2, <1>3, <1>6

-----------------------------------------------------------------------------
(* Steps that begin something.                                             *)

\* A call begins: it has made no job, and none of the requests is its own.
LEMMA BeginPowerStep ==
  ASSUME Inv, BeginPower
  PROVE  Inv'
<1> USE DEF Inv
<1>1. /\ task[Power].wants = "nothing" /\ calls < MaxCalls /\ calls' = calls + 1
      /\ UNCHANGED <<holder, phase, id, frames, wire, made, mounted, stale, scrub, jobs, dataset>>
      /\ calls \in 0..MaxCalls /\ MaxCalls \in Nat
  BY BoundsAssumption DEF BeginPower, session, server, Typed
<1>2. PICK t \in Probing : task' = [task EXCEPT ![Power] = t] /\ t.wants = "nfs3"
  <2>1. PICK force \in BOOLEAN, delayed \in BOOLEAN :
          task' = [task EXCEPT ![Power] =
                     [wants |-> "nfs3", outcome |-> "none", force |-> force, delayed |-> delayed,
                      seen |-> {}, failed |-> {}, busy |-> FALSE]]
    BY DEF BeginPower
  <2> DEFINE t == [wants |-> "nfs3", outcome |-> "none", force |-> force, delayed |-> delayed,
                   seen |-> {}, failed |-> {}, busy |-> FALSE]
  <2>2. t \in Probing /\ t.wants = "nfs3"
    BY DEF Probing, PowerMethods
  <2> HIDE DEF t
  <2>3. task' = [task EXCEPT ![Power] = t]
    BY <2>1 DEF t
  <2> QED
    BY <2>2, <2>3
<1>3. /\ task' \in [Tasks -> Ended \cup Probing \cup Working]
      /\ task'[Power] = t /\ task'[Other] = task[Other] /\ Power # Other
  BY <1>2, TasksAssumption DEF Typed, Tasks
<1>4. holder # Null => holder = Other
  BY <1>1 DEF Typed, Held, Tasks
<1>5. Typed'
  BY <1>1, <1>3 DEF Typed
<1>6. Held' /\ Bounded' /\ Owned'
  <2>1. 1..calls \subseteq 1..calls'
    BY <1>1
  <2>2. holder # Null => task'[holder] = task[holder]
    BY <1>3, <1>4
  <2>3. Held'
    BY <1>1, <2>1, <2>2 DEF Held
  <2>4. Owned'
    BY <1>1, <2>2 DEF Owned, Mine, Held
  <2> QED
    BY <1>1, <2>3, <2>4 DEF Bounded
<1>7. \A r \in wire : Submits(r) => r.call # calls'
  BY <1>1 DEF Held, Submits, PowerMethods, Typed, Requests
<1>8. made[calls'] = 0
  BY <1>1 DEF Once
<1>9. Once'
  BY <1>1, <1>2, <1>3, <1>7, <1>8 DEF Once
<1> QED
  BY <1>5, <1>6, <1>9

\* Another tool begins.
LEMMA BeginOtherStep ==
  ASSUME Inv, NEW method \in {"create", "state"}, BeginOther(method)
  PROVE  Inv'
<1> USE DEF Inv
<1>1. /\ task[Other].wants = "nothing"
      /\ UNCHANGED <<calls, holder, phase, id, frames, wire, made, mounted, stale, scrub, jobs, dataset>>
  BY DEF BeginOther, session, server, history, Resting, End
<1>2. PICK t \in Working : task' = [task EXCEPT ![Other] = t]
  <2>1. \A waits \in BOOLEAN :
          [wants |-> method, outcome |-> "none", polls |-> 0, waits |-> waits] \in Working
    BY BoundsAssumption DEF Working, OtherMethods
  <2> QED
    BY <2>1 DEF BeginOther
<1>3. /\ task' \in [Tasks -> Ended \cup Probing \cup Working]
      /\ task'[Other] = t /\ task'[Power] = task[Power]
  BY <1>2, TasksAssumption DEF Typed, Tasks
<1>4. holder # Null => holder = Power
  BY <1>1 DEF Typed, Held, Tasks
<1>5. Typed'
  BY <1>1, <1>3 DEF Typed
<1>6. Held' /\ Bounded' /\ Owned'
  BY <1>1, <1>3, <1>4 DEF Held, Bounded, Owned, Mine
<1>7. Once'
  BY <1>1, <1>3 DEF Once, Unsent
<1> QED
  BY <1>5, <1>6, <1>7

\* The lock is taken, or the connection made.
LEMMA AcquireStep ==
  ASSUME Inv, (\E t \in Tasks : Acquire(t)) \/ Connect
  PROVE  Inv'
<1> USE DEF Inv
<1>1. /\ UNCHANGED <<task, calls, id, wire, made, mounted, stale, scrub, jobs, dataset>>
      /\ frames' = frames \/ frames' = <<>>
      /\ holder' \in Tasks /\ task[holder'].wants # "nothing"
      /\ phase' \in {"connect", "send"} /\ phase \in {"none", "connect"}
  BY DEF Acquire, Connect, server, history, Held, Typed
<1>2. FewerFrames /\ FewerRequests
  BY <1>1, FramesRead DEF FewerRequests
<1>3. Typed' /\ Bounded' /\ Held' /\ Owned'
  BY <1>1, <1>2, FewerHold, TasksAssumption DEF Typed, FewerFrames, Held, Owned
<1>4. Unsent' => Unsent
  BY <1>1 DEF Unsent
<1>5. Once'
  BY <1>1, <1>4 DEF Once
<1> QED
  BY <1>3, <1>5

\* A request goes out under an id of its own; a submit that counts is the first
\* of its call.
LEMMA SendStep ==
  ASSUME Inv, Send
  PROVE  Inv'
<1> USE DEF Inv
<1> DEFINE new == [id |-> NextId, by |-> holder, method |-> task[holder].wants,
                   call |-> IF holder = Power THEN calls ELSE 0, live |-> TRUE]
<1>1. /\ UNCHANGED <<task, calls, holder, frames, made, mounted, stale, scrub, jobs, dataset>>
      /\ id' = NextId /\ wire' = wire \cup {new} /\ phase = "send" /\ phase' = "recv"
  BY DEF Send, server, history
<1>2. holder \in Tasks /\ task[holder].wants # "nothing" /\ Power # Other
  BY <1>1, TasksAssumption DEF Held, Typed
<1>3. /\ task[holder] \in Probing \cup Working
      /\ holder = Power => task[holder].wants \in PowerMethods
      /\ holder = Other => task[holder].wants \in OtherMethods
  BY <1>2 DEF Typed, Ended, Tasks, Probing, Working
<1>4. /\ new \in Requests /\ new.id = NextId /\ new.by = holder /\ new.method = task[holder].wants
      /\ new.call = IF holder = Power THEN calls ELSE 0
  <2>1. task[holder].wants \in Methods
    BY <1>2, <1>3 DEF Methods, Tasks
  <2>2. calls \in 0..MaxCalls /\ 0 \in 0..MaxCalls
    BY BoundsAssumption DEF Typed
  <2>3. NextId \in Nat
    BY NextIsFresh
  <2> QED
    BY <1>2, <2>1, <2>2, <2>3 DEF Requests
<1> HIDE DEF new
<1>5. Typed'
  BY <1>1, <1>4, NextIsFresh DEF Typed
<1>6. Held'
  <2>1. PowerMethods \cap OtherMethods = {}
    BY DEF PowerMethods, OtherMethods
  <2>2. holder = Power => calls \in 1..calls
    BY <1>2 DEF Once, Typed
  <2>3. new.by = Power <=> new.method \in PowerMethods
    BY <1>2, <1>3, <1>4, <2>1 DEF Tasks
  <2> QED
    BY <1>1, <1>2, <1>4, <2>2, <2>3, TasksAssumption DEF Held
<1>7. Bounded'
  <2>1. \A r \in wire' : r.id <= NextId
    <3>1. \A r \in wire : r.id \in Nat /\ r.id < NextId
      BY NextIsFresh DEF Typed, Requests
    <3> QED
      BY <1>1, <1>4, <3>1, NextIsFresh
  <2>2. \A i \in 1..Len(frames) : frames[i].id \in Nat
    <3>1. \A i \in 1..Len(frames) : frames[i] \in Frames
      BY DEF Typed
    <3> QED
      BY <3>1 DEF Frames
  <2>3. \A i \in 1..Len(frames) : frames[i].id <= NextId
    BY <2>2, NextIsFresh
  <2> QED
    BY <1>1, <2>1, <2>3, NextIsFresh DEF Bounded
<1>8. Owned'
  <2>1. \A r \in wire : r.id # NextId
    BY NextIsFresh DEF Typed, Requests
  <2>2. \A i \in 1..Len(frames) : frames[i].id # NextId
    BY NextIsFresh DEF Typed, Frames
  <2> QED
    BY <1>1, <1>4, <2>1, <2>2 DEF Owned, Mine
<1>9. Once'
  <2>1. Submits(new) => holder = Power /\ Unsent /\ ~(task[Power].wants \in {"nfs3", "nfs4", "jobs"})
                          /\ ~(task[Power].wants = "submit" /\ ~Modern)
    BY <1>1, <1>2, <1>3, <1>4 DEF Submits, Unsent, Tasks, OtherMethods
  <2>2. Submits(new) => /\ calls > 0 /\ new.call = calls /\ made[calls] = 0
                        /\ \A r \in wire : Submits(r) => r.call # calls
    BY <1>2, <1>4, <2>1 DEF Once
  <2>3. Unsent' => Unsent /\ ~Submits(new)
    BY <1>1, <2>1 DEF Unsent
  <2>4. \A r, q \in wire' : Submits(r) /\ Submits(q) /\ r.call = q.call => r = q
    BY <1>1, <2>2 DEF Once
  <2> QED
    BY <1>1, <2>2, <2>3, <2>4 DEF Once
<1> QED
  BY <1>5, <1>6, <1>7, <1>8, <1>9

\* A tool call is given up; if it held the lock, the lock is free.
LEMMA CancelStep ==
  ASSUME Inv, NEW t \in Tasks, Cancel(t)
  PROVE  Inv'
<1> USE DEF Inv
<1>1. /\ UNCHANGED <<calls, frames, wire, made, mounted, stale, scrub, jobs, dataset>>
      /\ task' = [task EXCEPT ![t] = End("cancelled")] /\ Power # Other
      /\ \/ holder = t /\ holder' = Null /\ phase' = "none" /\ id' = 0
         \/ holder # t /\ UNCHANGED <<holder, phase, id>>
  BY TasksAssumption DEF Cancel, server, history
<1>2. End("cancelled") \in Ended /\ End("cancelled").wants = "nothing"
  BY DEF End, Ended, Outcomes
<1>3. /\ task' \in [Tasks -> Ended \cup Probing \cup Working]
      /\ task'[t] = End("cancelled") /\ \A u \in Tasks \ {t} : task'[u] = task[u]
  BY <1>1, <1>2 DEF Typed
<1>4. Typed'
  BY <1>1, <1>2, <1>3 DEF Typed, Tasks
<1>5. Held' /\ Bounded' /\ Owned'
  BY <1>1, <1>3 DEF Held, Bounded, Owned, Mine, Typed
<1>6. t # Power => task'[Power] = task[Power]
  BY <1>3 DEF Tasks
<1>7. Unsent' => Unsent
  BY <1>1, <1>2, <1>3, <1>6, TasksAssumption DEF Unsent
<1>8. Once'
  BY <1>1, <1>2, <1>3, <1>6, <1>7 DEF Once
<1> QED
  BY <1>4, <1>5, <1>8

-----------------------------------------------------------------------------
(* The NAS, and all steps.                                                 *)

\* The NAS handles a request: one that makes a job was the only one of its call.
LEMMA HandleStep ==
  ASSUME Inv, NEW r \in wire, Handle(r)
  PROVE  Inv'
<1> USE DEF Inv
<1>1. /\ UNCHANGED <<task, calls, holder, phase, id, mounted, stale, scrub>>
      /\ wire' = wire \ {r} /\ r \in Requests /\ r.method \in Methods
      /\ r.by = Power <=> r.method \in PowerMethods
      /\ r.by = Power => r.call \in 1..calls
  BY DEF Handle, Typed, Held, Requests
<1>2. r.method \in PowerMethods => r.call \in 1..MaxCalls
  BY <1>1, BoundsAssumption DEF Typed
<1>3. /\ \/ jobs' = jobs /\ made' = made /\ ~Submits(r)
         \/ /\ Submits(r) /\ r.call \in 1..MaxCalls
            /\ jobs' = jobs \cup {r.call} /\ made' = [made EXCEPT ![r.call] = @ + 1]
      /\ dataset' \in {"none", "running", "SUCCESS", "FAILED"}
      /\ \E v \in AnswersTo(r.method) : Answer(r, v)
  <2>1. CASE r.method \in {"nfs3", "nfs4"}
    <3>1. \A S \in SUBSET Clients : Ok(S) \in AnswersTo(r.method)
      BY <2>1 DEF Ok, AnswersTo, Answers
    <3>2. Error("TRUENAS_API_ERROR") \in AnswersTo(r.method)
      BY <2>1 DEF Error, AnswersTo, Errors
    <3>3. {c \in Active : (c \in V3) <=> (r.method = "nfs3")} \in SUBSET Clients
      BY DEF Active, Typed
    <3>4. UNCHANGED <<jobs, dataset, made>>
      BY <2>1 DEF Handle
    <3>5. \/ Answer(r, Ok({c \in Active : (c \in V3) <=> (r.method = "nfs3")}))
          \/ Answer(r, Error("TRUENAS_API_ERROR"))
      BY <2>1 DEF Handle
    <3> QED
      BY <2>1, <3>1, <3>2, <3>3, <3>4, <3>5 DEF Submits, Typed
  <2>2. CASE r.method = "jobs"
    <3>1. Ok(scrub) \in AnswersTo(r.method)
      BY <2>2 DEF Ok, AnswersTo, Answers, Typed
    <3> QED
      BY <2>2, <3>1 DEF Handle, Submits, Typed
  <2>3. CASE r.method = "submit" /\ ~Modern
    <3>1. Error("signature") \in AnswersTo(r.method)
      BY <2>3 DEF Error, AnswersTo, Errors
    <3> QED
      BY <2>3, <3>1 DEF Handle, Submits, Typed
  <2>4. CASE (r.method = "submit" /\ Modern) \/ r.method = "submit_old"
    <3>1. Ok(r.call) \in AnswersTo(r.method)
      BY <1>2, <2>4 DEF Ok, AnswersTo, Answers, PowerMethods
    <3>2. /\ jobs' = jobs \cup {r.call} /\ made' = [made EXCEPT ![r.call] = @ + 1]
          /\ dataset' = dataset /\ Answer(r, Ok(r.call))
      BY <2>4 DEF Handle
    <3> QED
      BY <1>2, <2>4, <3>1, <3>2 DEF Submits, Typed, PowerMethods
  <2>5. CASE r.method = "verify"
    <3>1. Ok(jobs) \in AnswersTo(r.method)
      BY <2>5 DEF Ok, AnswersTo, Answers, Typed
    <3> QED
      BY <2>5, <3>1 DEF Handle, Submits, Typed
  <2>6. CASE r.method = "create"
    <3>1. Ok("job") \in AnswersTo(r.method) /\ Ok("entity") \in AnswersTo(r.method)
      BY <2>6 DEF Ok, AnswersTo, Answers
    <3> QED
      BY <2>6, <3>1 DEF Handle, Submits
  <2>7. CASE r.method = "poll"
    <3>1. Ok(dataset) \in AnswersTo(r.method)
      BY <2>7 DEF Ok, AnswersTo, Answers, Typed
    <3> QED
      BY <2>7, <3>1 DEF Handle, Submits, Typed
  <2>8. CASE r.method = "state"
    <3>1. Ok("READY") \in AnswersTo(r.method)
      BY <2>8 DEF Ok, AnswersTo, Answers
    <3> QED
      BY <2>8, <3>1 DEF Handle, Submits, Typed
  <2> QED
    BY <1>1, <2>1, <2>2, <2>3, <2>4, <2>5, <2>6, <2>7, <2>8 DEF Methods, PowerMethods, OtherMethods
<1>4. PICK v \in AnswersTo(r.method) : Answer(r, v)
  BY <1>3
<1> DEFINE f == [id |-> r.id, val |-> v, to |-> [by |-> r.by, method |-> r.method]]
<1>5. f \in Frames /\ f.id = r.id /\ f.val = v /\ f.to.by = r.by /\ f.to.method = r.method
  BY <1>1, <1>4 DEF Frames, Requests
<1>6. frames' = frames \/ frames' = Append(frames, f)
  BY <1>4 DEF Answer
<1> HIDE DEF f
<1>7. /\ frames' \in Seq(Frames)
      /\ \A i \in 1..Len(frames') :
           (i \in 1..Len(frames) /\ frames'[i] = frames[i]) \/ frames'[i] = f
  <2>1. CASE frames' = frames
    BY <2>1 DEF Typed
  <2>2. CASE frames' = Append(frames, f)
    BY <1>5, <2>2, AppendProperties DEF Typed
  <2> QED
    BY <1>6, <2>1, <2>2
<1>8. Typed'
  <2>1. jobs' \in SUBSET (1..MaxCalls)
    BY <1>3 DEF Typed
  <2>2. made' \in [1..MaxCalls -> Nat]
    <3>1. \A k \in 1..MaxCalls : made[k] + 1 \in Nat
      BY DEF Typed
    <3> QED
      BY <1>3, <3>1 DEF Typed
  <2> QED
    BY <1>1, <1>3, <1>7, <2>1, <2>2 DEF Typed
<1>9. Held'
  BY <1>1, <1>4, <1>5, <1>7 DEF Held
<1>10. Bounded'
  <2>1. PICK N \in Nat : (\A q \in wire : q.id <= N) /\ \A i \in 1..Len(frames) : frames[i].id <= N
    BY DEF Bounded
  <2>2. (\A q \in wire' : q.id <= N) /\ \A i \in 1..Len(frames') : frames'[i].id <= N
    BY <1>1, <1>5, <1>7, <2>1
  <2> QED
    BY <2>2 DEF Bounded
<1>11. Owned'
  BY <1>1, <1>5, <1>7 DEF Owned, Mine
<1>12. Unsent' => Unsent
  BY <1>1 DEF Unsent
<1>13. /\ \A q, p \in wire' : Submits(q) /\ Submits(p) /\ q.call = p.call => q = p
       /\ Modern => task'[Power].wants # "submit_old"
       /\ task'[Power].wants # "nothing" => calls' > 0
  <2>1. \A q, p \in wire : Submits(q) /\ Submits(p) /\ q.call = p.call => q = p
    BY DEF Once
  <2> QED
    BY <1>1, <2>1 DEF Once
<1>14. ASSUME made' = made
       PROVE  Once'
  <2>1. \A q \in wire' : Submits(q) => made'[q.call] = 0
    BY <1>1, <1>14 DEF Once
  <2>2. Unsent' /\ calls' > 0 => made'[calls'] = 0 /\ \A q \in wire' : Submits(q) => q.call # calls'
    BY <1>1, <1>12, <1>14 DEF Once
  <2>3. \A k \in 1..MaxCalls : made'[k] <= 1 /\ (k > calls' => made'[k] = 0)
    BY <1>1, <1>14 DEF Once
  <2> QED
    BY <1>13, <2>1, <2>2, <2>3 DEF Once
<1>15. ASSUME Submits(r), r.call \in 1..MaxCalls, made' = [made EXCEPT ![r.call] = @ + 1]
       PROVE  Once'
  <2>1. made[r.call] = 0 /\ \A q \in wire' : Submits(q) => q.call # r.call
    BY <1>1, <1>15 DEF Once
  <2>2. made'[r.call] = 1 /\ \A k \in (1..MaxCalls) \ {r.call} : made'[k] = made[k]
    BY <1>15, <2>1 DEF Typed
  <2>3. r.call <= calls
    BY <1>1, <1>15 DEF Submits, PowerMethods, Typed
  <2>4. Unsent => r.call # calls
    BY <1>15, <2>3, BoundsAssumption DEF Once, Typed
  <2>5. \A q \in wire' : Submits(q) => q.call \in 1..MaxCalls
    BY <1>1, BoundsAssumption DEF Held, Submits, PowerMethods, Typed
  <2>6. \A k \in 1..MaxCalls : made'[k] <= 1 /\ (k > calls' => made'[k] = 0)
    BY <1>1, <2>2, <2>3, BoundsAssumption DEF Once, Typed
  <2>7. \A q \in wire' : Submits(q) => made'[q.call] = 0
    BY <1>1, <2>1, <2>2, <2>5 DEF Once
  <2>8. Unsent' /\ calls' > 0 => made'[calls'] = 0 /\ \A q \in wire' : Submits(q) => q.call # calls'
    BY <1>1, <1>12, <2>2, <2>4, BoundsAssumption DEF Once, Typed
  <2> QED
    BY <1>13, <2>6, <2>7, <2>8 DEF Once
<1> QED
  BY <1>3, <1>8, <1>9, <1>10, <1>11, <1>14, <1>15

\* The answer that is taken is one to the request that waits for it.
LEMMA ReceiveStep ==
  ASSUME Inv, Receive
  PROVE  Inv'
<1> USE DEF Inv
<1>1. /\ frames # <<>> /\ Head(frames).id = id /\ phase = "recv" /\ Return(Head(frames).val)
      /\ frames' = Tail(frames) /\ wire' = wire
  BY DEF Receive, Matches
<1>2. 1 \in 1..Len(frames) /\ Head(frames) = frames[1]
  BY <1>1 DEF Typed
<1>3. holder # Null /\ Head(frames).val \in AnswersTo(task[holder].wants)
  BY <1>1, <1>2 DEF Owned, Mine, Held
<1>4. FewerFrames /\ FewerRequests
  BY <1>1, FramesRead DEF FewerRequests
<1> QED
  BY <1>1, <1>3, <1>4, ReturnStep

\* A request that gets no answer.
LEMMA NoAnswerStep ==
  ASSUME Inv, ConnectFails \/ Lost \/ Deadline \/ RecvTimeout
  PROVE  Inv'
<1> USE DEF Inv
<1>1. \A c \in {"CONNECTION_ERROR", "CONNECTION_REFUSED", "TIMEOUT"} : Error(c) \in NoAnswer
  BY DEF Error, NoAnswer, Errors
<1>2. PICK r \in NoAnswer : Return(r)
  BY <1>1 DEF ConnectFails, Lost, Deadline, RecvTimeout
<1>3. holder # Null
  BY DEF ConnectFails, Lost, Deadline, RecvTimeout, Held
<1>4. FewerFrames /\ FewerRequests
  BY FramesRead DEF ConnectFails, Lost, Deadline, RecvTimeout, Closed, FewerRequests
<1> QED
  BY <1>2, <1>3, <1>4, ReturnStep

\* Every step keeps the invariant.
LEMMA InvStep ==
  ASSUME Inv, [Next]_vars
  PROVE  Inv'
<1> USE DEF Inv
<1>a. wire' = wire /\ frames' = frames => FewerRequests /\ FewerFrames
  BY FramesRead DEF FewerRequests
<1>1. CASE BeginPower
  BY <1>1, BeginPowerStep
<1>2. CASE BeginOther("create") \/ BeginOther("state")
  BY <1>2, BeginOtherStep
<1>3. CASE (\E t \in Tasks : Acquire(t)) \/ Connect
  BY <1>3, AcquireStep
<1>4. CASE Send
  BY <1>4, SendStep
<1>5. CASE Receive
  BY <1>5, ReceiveStep
<1>6. CASE ConnectFails \/ Lost \/ Deadline \/ RecvTimeout
  BY <1>6, NoAnswerStep
<1>7. CASE Skip
  <2>1. FewerRequests /\ FewerFrames
    BY <1>7, FramesRead DEF Skip, FewerRequests
  <2> QED
    BY <1>7, <2>1, FewerStep DEF Skip, server, history, Typed
<1>8. ASSUME NEW t \in Tasks, Cancel(t)
      PROVE  Inv'
  BY <1>8, CancelStep
<1>9. ASSUME NEW r \in wire, Handle(r)
      PROVE  Inv'
  BY <1>9, HandleStep
<1>10. ASSUME NEW r \in wire, Forget(r)
       PROVE  Inv'
  <2>1. FewerRequests /\ FewerFrames
    BY <1>10, FramesRead DEF Forget, FewerRequests
  <2> QED
    BY <1>10, <2>1, FewerStep DEF Forget, server, history, Typed
<1>11. CASE Drop
  <2>1. FewerRequests /\ FewerFrames
    BY <1>11, FramesRead DEF Drop, FewerRequests
  <2> QED
    BY <1>11, <2>1, FewerStep DEF Drop, server, history, Typed
<1>12. CASE JobEnds
  BY <1>12, <1>a, FewerStep DEF JobEnds, session, history, Typed
<1>13. CASE GoDown
  <2>1. FewerRequests /\ FewerFrames
    BY <1>13, FramesRead DEF GoDown, FewerRequests
  <2> QED
    BY <1>13, <2>1, FewerStep DEF GoDown, Typed
<1>14. CASE ComeUp
  BY <1>14, <1>a, FewerStep DEF ComeUp, session, history, Typed
<1>15. ASSUME NEW c \in Clients, ClientChanges(c)
       PROVE  Inv'
  <2>1. mounted' \in SUBSET Clients /\ stale' \in SUBSET Clients
    BY <1>15 DEF ClientChanges, Typed
  <2> QED
    BY <1>15, <1>a, <2>1, FewerStep DEF ClientChanges, session, Typed
<1>16. CASE ScrubChanges
  BY <1>16, <1>a, FewerStep DEF ScrubChanges, session, Typed
<1>17. CASE UNCHANGED vars
  BY <1>17, <1>a, FewerStep DEF vars, session, server, history, Typed
<1> QED
  BY <1>1, <1>2, <1>3, <1>4, <1>5, <1>6, <1>7, <1>8, <1>9, <1>10, <1>11, <1>12, <1>13, <1>14,
     <1>15, <1>16, <1>17 DEF Next, ClientStep

\* In the beginning nothing is under way.
LEMMA InitHolds == Init => Inv
<1> SUFFICES ASSUME Init PROVE Inv
  OBVIOUS
<1>1. Resting \in Ended /\ Resting.wants = "nothing"
  BY DEF Resting, End, Ended, Outcomes
<1>2. Power \in Tasks /\ Other \in Tasks /\ Null \notin Tasks
  BY TasksAssumption DEF Tasks
<1>3. Typed
  <2>1. task \in [Tasks -> Ended \cup Probing \cup Working] /\ task[Power] \in Ended /\ task[Other] \in Ended
    BY <1>1, <1>2 DEF Init
  <2>2. calls \in 0..MaxCalls /\ made \in [1..MaxCalls -> Nat] /\ id \in Nat
    BY BoundsAssumption DEF Init
  <2>3. /\ holder \in Tasks \cup {Null} /\ phase \in {"none", "connect", "send", "recv"}
        /\ wire \in SUBSET Requests /\ frames \in Seq(Frames)
    BY DEF Init
  <2>4. /\ mounted \in SUBSET Clients /\ stale \in SUBSET Clients
        /\ scrub \in BOOLEAN /\ jobs \in SUBSET (1..MaxCalls)
        /\ dataset \in {"none", "running", "SUCCESS", "FAILED"}
    BY ClientsAssumption DEF Init
  <2> QED
    BY <2>1, <2>2, <2>3, <2>4 DEF Typed
<1>4. Held /\ Owned
  BY <1>1, <1>2 DEF Init, Held, Owned
<1>5. Bounded
  <2>1. (\A r \in wire : r.id <= 0) /\ \A i \in 1..Len(frames) : frames[i].id <= 0
    BY DEF Init
  <2> QED
    BY <2>1 DEF Bounded
<1>6. Once
  BY <1>1, <1>2, BoundsAssumption DEF Init, Once, Unsent
<1> QED
  BY <1>3, <1>4, <1>5, <1>6 DEF Inv

-----------------------------------------------------------------------------
(* What an answer still says when it is taken, and what the calls have      *)
(* learned from the answers before.                                         *)

\* A request that the NAS got on a connection that is gone is not handled after
\* the next connection is made.
Prompt == "backlog" \notin FaultKinds

\* A good answer: the clients and the scrub that have been there since the call
\* began are in it, a submit has made a job, a verify names jobs of this call's
\* time, and a poll, or an answer without a job, tells of a success that lasts.
Says(m, v) ==
  /\ m = "nfs3" => stayed.clients \cap V3 \subseteq v
  /\ m = "nfs4" => stayed.clients \ V3 \subseteq v
  /\ m = "jobs" => (stayed.scrub => v = TRUE)
  /\ m \in {"submit", "submit_old"} => during # {}
  /\ m = "verify" => v \subseteq during /\ (Prompt /\ v = {} => calls \notin jobs)
  /\ m = "poll" => (v = "SUCCESS" => dataset = "SUCCESS")
  /\ m = "create" => (v = "entity" => dataset = "SUCCESS")
Told ==
  phase = "recv" =>
    \A i \in 1..Len(frames) :
      frames[i].id = id /\ frames[i].val.code = "ok" =>
        Says(frames[i].to.method, frames[i].val.val)

\* The history is of clients, a scrub and jobs that there are.
Present ==
  /\ stayed \in [clients : SUBSET Clients, scrub : BOOLEAN]
  /\ stayed.clients \subseteq Active
  /\ stayed.scrub => scrub
  /\ jobs \subseteq during

\* What a power call has read covers whoever stayed, or it knows that it could
\* not read it; it asks for the job only when that does not stand against it.
Covers(t) ==
  /\ t.wants \in {"nfs4", "jobs", "submit", "submit_old"} =>
       "nfs3" \in t.failed \/ stayed.clients \cap V3 \subseteq t.seen
  /\ t.wants \in {"jobs", "submit", "submit_old"} =>
       "nfs4" \in t.failed \/ stayed.clients \ V3 \subseteq t.seen
  /\ t.wants \in {"submit", "submit_old"} /\ ~t.force =>
       ~Refused(t) /\ (stayed.scrub => t.busy)
Known == Covers(task[Power])

\* No request for a job of the current call is under way: before it asks for
\* one, and, when it verifies, on the connection made since it asked.
NoSubmit == \A r \in wire : r.call = calls => r.method \notin {"submit", "submit_old"}
Unasked ==
  /\ task[Power].wants \in {"nfs3", "nfs4", "jobs"} => NoSubmit
  /\ phase \in {"send", "recv"} => ws # "none"
  /\ Prompt /\ task[Power].wants = "verify" /\ ws # "none" => NoSubmit

\* RetryIsSafe, with what it takes for the second half.
Retried ==
  /\ task[Power].outcome = "POWER_GUARD" => made[calls] = 0 /\ NoSubmit
  /\ Prompt /\ task[Power].outcome = "POWER_NOT_SUBMITTED" => calls \notin jobs /\ NoSubmit

\* The write is asked for once, and what its job has come to stays.
Creates(r) == r.method = "create"
Written ==
  /\ \A r, s \in wire : Creates(r) /\ Creates(s) => r = s
  /\ dataset # "none" => \A r \in wire : ~Creates(r)
  /\ task[Other] = Resting \/ (task[Other].wants = "create" /\ ~(holder = Other /\ phase = "recv"))
       => dataset = "none" /\ \A r \in wire : ~Creates(r)

Sure == Present /\ Told /\ Known /\ Unasked /\ Retried /\ Written /\ AnswersAreTrue

\* Where a power call goes with an answer.
LEMMA PowerGoesOn ==
  ASSUME NEW t \in Probing, NEW r \in AnswersTo(t.wants) \cup NoAnswer
  PROVE  LET u == After(t, r)
         IN /\ u.wants \in {"nfs3", "nfs4", "jobs"} => t.wants \in {"nfs3", "nfs4"}
            /\ u.wants = "verify" => r.code = "CONNECTION_ERROR"
            /\ u.outcome = "POWER_GUARD" => t.wants = "jobs"
            /\ u.outcome = "POWER_NOT_SUBMITTED" => t.wants = "verify" /\ r.code = "ok" /\ r.val = {}
            /\ u.wants = "nothing" /\ u.outcome = "submitted" /\ u.verified =>
                 \/ t.wants \in {"submit", "submit_old"} /\ r.code = "ok"
                 \/ t.wants = "verify" /\ r.code = "ok" /\ r.val # {}
<1>a. r.code \in Codes
  BY AnswersHaveCodes DEF Probing, Methods
<1>b. \A c \in Outcomes : End(c).wants = "nothing" /\ End(c).outcome = c /\ End(c).verified = FALSE
  BY DEF End
<1>c. Verified.wants = "nothing" /\ Verified.outcome = "submitted"
  BY DEF Verified, End
<1>d. \A m \in PowerMethods : Want(t, m).wants = m /\ Want(t, m).outcome = "none"
  BY DEF Want, Probing
<1>1. CASE t.wants \in {"nfs3", "nfs4"}
  <2>1. \A m \in PowerMethods : AfterClients(t, r, m).wants = m /\ AfterClients(t, r, m).outcome = "none"
    BY DEF AfterClients, Want, Probing
  <2>2. After(t, r) = AfterClients(t, r, IF t.wants = "nfs3" THEN "nfs4" ELSE "jobs")
    BY <1>1 DEF After
  <2> QED
    BY <1>1, <2>1, <2>2 DEF PowerMethods
<1>2. CASE t.wants = "jobs"
  <2>1. After(t, r) = AfterJobs(t, r)
    BY <1>2 DEF After
  <2>2. CASE r.code # "ok"
    BY <1>2, <1>a, <1>b, <2>1, <2>2 DEF AfterJobs, Codes, Outcomes
  <2>3. CASE r.code = "ok"
    <3> DEFINE u == [t EXCEPT !.busy = r.val]
    <3>1. Want(u, "submit").wants = "submit" /\ Want(u, "submit").outcome = "none"
      BY DEF Want, Probing
    <3>2. AfterJobs(t, r) = End("POWER_GUARD") \/ AfterJobs(t, r) = Want(u, "submit")
      BY <2>3 DEF AfterJobs
    <3> QED
      BY <1>2, <1>b, <2>1, <3>1, <3>2 DEF Outcomes
  <2> QED
    BY <2>2, <2>3
<1>3. CASE t.wants \in {"submit", "submit_old"}
  <2>1. After(t, r) = AfterSubmit(t, r)
    BY <1>3 DEF After
  <2>2. \/ After(t, r) = Verified /\ r.code = "ok"
        \/ After(t, r) = Want(t, "submit_old")
        \/ After(t, r) = Want(t, "verify") /\ r.code = "CONNECTION_ERROR"
        \/ After(t, r) = End(r.code) /\ r.code # "ok"
    BY <2>1 DEF AfterSubmit
  <2> QED
    BY <1>3, <1>a, <1>b, <1>c, <1>d, <2>2 DEF PowerMethods, Codes, Outcomes
<1>4. CASE t.wants = "verify"
  <2>1. \/ After(t, r) = Verified /\ r.code = "ok" /\ r.val # {}
        \/ After(t, r) = End("submitted")
        \/ After(t, r) = End("POWER_NOT_SUBMITTED") /\ r.code = "ok" /\ r.val = {}
    BY <1>4 DEF After, AfterVerify
  <2> QED
    BY <1>4, <1>b, <1>c, <2>1 DEF Outcomes
<1> QED
  BY <1>1, <1>2, <1>3, <1>4 DEF Probing, PowerMethods

\* What a power call has learned, once it has taken a good answer in.
LEMMA PowerLearns ==
  ASSUME NEW t \in Probing, NEW r \in AnswersTo(t.wants) \cup NoAnswer, Covers(t),
         r.code = "ok" => Says(t.wants, r.val)
  PROVE  Covers(After(t, r))
<1>a. \A c \in Outcomes : End(c).wants = "nothing"
  BY DEF End
<1>b. Verified.wants = "nothing"
  BY DEF Verified, End
<1>c. r.code \in Outcomes
  BY AnswersHaveCodes DEF Probing, Methods, Outcomes
<1>d. ASSUME NEW u, u.wants = "nothing"
      PROVE  Covers(u)
  BY <1>d DEF Covers
<1>1. CASE t.wants = "nfs3"
  <2> DEFINE u == AfterClients(t, r, "nfs4")
  <2>1. /\ u.wants = "nfs4"
        /\ r.code = "ok" => u.seen = t.seen \cup r.val
        /\ r.code # "ok" => u.failed = t.failed \cup {"nfs3"}
    BY <1>1 DEF AfterClients, Want, Probing
  <2>2. After(t, r) = u
    BY <1>1 DEF After
  <2>3. "nfs3" \in u.failed \/ stayed.clients \cap V3 \subseteq u.seen
    BY <1>1, <2>1 DEF Says
  <2> HIDE DEF u
  <2> QED
    BY <2>1, <2>2, <2>3 DEF Covers
<1>2. CASE t.wants = "nfs4"
  <2> DEFINE u == AfterClients(t, r, "jobs")
  <2>1. /\ u.wants = "jobs"
        /\ r.code = "ok" => u.seen = t.seen \cup r.val /\ u.failed = t.failed
        /\ r.code # "ok" => u.seen = t.seen /\ u.failed = t.failed \cup {"nfs4"}
    BY <1>2 DEF AfterClients, Want, Probing
  <2>2. After(t, r) = u
    BY <1>2 DEF After
  <2> HIDE DEF u
  <2>3. "nfs3" \in u.failed \/ stayed.clients \cap V3 \subseteq u.seen
    BY <1>2, <2>1 DEF Covers
  <2>4. "nfs4" \in u.failed \/ stayed.clients \ V3 \subseteq u.seen
    BY <1>2, <2>1 DEF Says
  <2> QED
    BY <2>1, <2>2, <2>3, <2>4 DEF Covers
<1>3. CASE t.wants = "jobs"
  <2>1. After(t, r) = AfterJobs(t, r)
    BY <1>3 DEF After
  <2>2. CASE r.code # "ok"
    BY <1>a, <1>c, <1>d, <2>1, <2>2 DEF AfterJobs
  <2>3. CASE r.code = "ok"
    <3> DEFINE u == [t EXCEPT !.busy = r.val]
               w == Want(u, "submit")
    <3>1. /\ w.wants = "submit" /\ w.force = t.force /\ w.seen = t.seen
          /\ w.failed = t.failed /\ w.busy = r.val
          /\ u.force = t.force /\ u.seen = t.seen /\ u.failed = t.failed /\ u.busy = r.val
      BY DEF Want, Probing
    <3>2. Refused(w) <=> Refused(u)
      BY <3>1 DEF Refused
    <3>3. AfterJobs(t, r) = End("POWER_GUARD") \/ (AfterJobs(t, r) = w /\ ~(Refused(u) /\ ~u.force))
      BY <2>3 DEF AfterJobs
    <3>4. stayed.scrub => r.val = TRUE
      BY <1>3, <2>3 DEF Says
    <3> HIDE DEF u, w
    <3>5. CASE AfterJobs(t, r) = w /\ ~(Refused(u) /\ ~u.force)
      <4>1. \/ "nfs3" \in w.failed \/ stayed.clients \cap V3 \subseteq w.seen
        BY <1>3, <3>1 DEF Covers
      <4>2. \/ "nfs4" \in w.failed \/ stayed.clients \ V3 \subseteq w.seen
        BY <1>3, <3>1 DEF Covers
      <4>3. ~w.force => ~Refused(w) /\ (stayed.scrub => w.busy)
        BY <3>1, <3>2, <3>4, <3>5
      <4> QED
        BY <2>1, <3>1, <3>5, <4>1, <4>2, <4>3 DEF Covers
    <3> QED
      BY <1>a, <1>d, <2>1, <3>3, <3>5 DEF Outcomes
  <2> QED
    BY <2>2, <2>3
<1>4. CASE t.wants \in {"submit", "submit_old"}
  <2> DEFINE w == Want(t, "submit_old")
             x == Want(t, "verify")
  <2>1. /\ w.wants = "submit_old" /\ w.force = t.force /\ w.seen = t.seen
        /\ w.failed = t.failed /\ w.busy = t.busy
        /\ x.wants = "verify"
    BY DEF Want, Probing
  <2>2. After(t, r) = AfterSubmit(t, r)
    BY <1>4 DEF After
  <2>3. After(t, r) \in {Verified, w, x, End(r.code)}
    BY <2>2 DEF AfterSubmit
  <2> HIDE DEF w, x
  <2>4. Covers(x)
    BY <2>1 DEF Covers
  <2>5. Refused(w) <=> Refused(t)
    BY <2>1 DEF Refused
  <2>6. Covers(w)
    BY <1>4, <2>1, <2>5 DEF Covers
  <2> QED
    BY <1>a, <1>b, <1>c, <1>d, <2>3, <2>4, <2>6
<1>5. CASE t.wants = "verify"
  <2>1. After(t, r) \in {Verified, End("submitted"), End("POWER_NOT_SUBMITTED")}
    BY <1>5 DEF After, AfterVerify
  <2> QED
    BY <1>a, <1>b, <1>d, <2>1 DEF Outcomes
<1> QED
  BY <1>1, <1>2, <1>3, <1>4, <1>5 DEF Probing, PowerMethods

\* Where another tool goes with an answer: never back to its start.
LEMMA OtherGoesOn ==
  ASSUME NEW t \in Working, NEW r \in AnswersTo(t.wants) \cup NoAnswer
  PROVE  /\ After(t, r) # Resting /\ After(t, r).wants # "create"
         /\ After(t, r).outcome = "ok" /\ After(t, r).verified =>
              \/ t.wants = "poll" /\ r.code = "ok" /\ r.val = "SUCCESS"
              \/ t.wants = "create" /\ r.code = "ok" /\ r.val = "entity"
<1>a. r.code \in Codes
  BY AnswersHaveCodes DEF Working, Methods
<1>b. \A c \in Outcomes : End(c).wants = "nothing" /\ End(c).outcome = c
  BY DEF End
<1>d. Done.wants = "nothing" /\ Done.outcome = "ok"
  BY DEF Done, End
<1>c. Resting.outcome = "none" /\ Resting.wants = "nothing"
  BY DEF Resting, End
<1>1. CASE t.wants = "create"
  <2>1. Want(t, "poll").wants = "poll" /\ Want(t, "poll").outcome = "none"
    BY DEF Want, Working
  <2> DEFINE u == [End("ok") EXCEPT !.verified = t.waits]
  <2>2. u.wants = "nothing" /\ u.outcome = "ok" /\ u.verified = t.waits
    BY DEF End
  <2>3. r.code = "ok" => r.val \in {"job", "entity"}
    BY <1>1 DEF AnswersTo, NoAnswer, Answers, Errors
  <2>4. \/ After(t, r) = Want(t, "poll")
        \/ After(t, r) = End(r.code) /\ r.code # "ok"
        \/ After(t, r) = u /\ r.code = "ok" /\ ~(t.waits /\ r.val = "job")
    BY <1>1 DEF After, AfterCreate
  <2> HIDE DEF u
  <2> QED
    BY <1>1, <1>a, <1>b, <1>c, <2>1, <2>2, <2>3, <2>4 DEF Codes, Outcomes
<1>2. CASE t.wants = "poll"
  <2> DEFINE u == [t EXCEPT !.polls = @ + 1]
  <2>1. u.wants = "poll" /\ u.outcome = "none"
    BY <1>2 DEF Working
  <2>2. After(t, r) = AfterPoll(t, r)
    BY <1>2 DEF After
  <2>3. \/ After(t, r) = End(r.code) /\ r.code # "ok"
        \/ After(t, r) = Done /\ r.code = "ok" /\ r.val = "SUCCESS"
        \/ After(t, r) = End("JOB_FAILED")
        \/ After(t, r) = End("timeout")
        \/ After(t, r) = u
    BY <2>2 DEF AfterPoll
  <2> HIDE DEF u
  <2> QED
    BY <1>2, <1>a, <1>b, <1>c, <1>d, <2>1, <2>3 DEF Codes, Outcomes
<1>3. CASE t.wants = "state"
  <2>1. After(t, r) = End("read") \/ (After(t, r) = End(r.code) /\ r.code # "ok")
    BY <1>3 DEF After
  <2> QED
    BY <1>a, <1>b, <1>c, <2>1 DEF Codes, Outcomes
<1> QED
  BY <1>1, <1>2, <1>3 DEF Working, OtherMethods

-----------------------------------------------------------------------------
(* The end of a request, and its handling, with what is true of the answer. *)

\* A request ends with a good answer that is true, or with an error; where the
\* connection failed the socket is closed.
LEMMA Ends ==
  ASSUME Inv, Told, Unasked, Receive \/ ConnectFails \/ Lost \/ Deadline \/ RecvTimeout
  PROVE  /\ holder # Null /\ FewerFrames /\ FewerRequests /\ ws' \in {ws, "none"}
         /\ \E r \in AnswersTo(task[holder].wants) \cup NoAnswer :
              /\ Return(r)
              /\ r.code = "ok" => Says(task[holder].wants, r.val) /\ ws # "none"
              /\ r.code = "CONNECTION_ERROR" => ws' = "none"
<1> USE DEF Inv
<1>1. CASE Receive
  <2>1. /\ frames # <<>> /\ Head(frames).id = id /\ phase = "recv" /\ Return(Head(frames).val)
        /\ frames' = Tail(frames) /\ wire' = wire /\ ws' = ws
    BY <1>1 DEF Receive, Matches
  <2>2. 1 \in 1..Len(frames) /\ Head(frames) = frames[1]
    BY <2>1 DEF Typed
  <2> DEFINE r == Head(frames).val
  <2>3. Mine(Head(frames).to.by, Head(frames).to.method)
    BY <2>1, <2>2 DEF Owned
  <2>4. holder # Null /\ r \in AnswersTo(task[holder].wants)
    BY <2>1, <2>2, <2>3 DEF Mine, Held
  <2>5. r.code = "ok" => Says(task[holder].wants, r.val)
    BY <2>1, <2>2, <2>3 DEF Told, Mine
  <2>6. r.code # "CONNECTION_ERROR"
    <3>1. task[holder].wants \in Methods
      BY <2>4 DEF Typed, Held, Ended, Probing, Working, Tasks, Methods
    <3>2. r.code \in {"ok", "signature", "TRUENAS_API_ERROR"}
      <4> HIDE DEF r
      <4> QED
        BY <2>4, <3>1 DEF AnswersTo, Answers, Errors, Methods, PowerMethods, OtherMethods
    <3> QED
      BY <3>2
  <2>7. ws # "none"
    BY <2>1 DEF Unasked
  <2>8. FewerFrames /\ FewerRequests
    BY <2>1, FramesRead DEF FewerRequests
  <2> QED
    BY <2>1, <2>4, <2>5, <2>6, <2>7, <2>8
<1>2. CASE ConnectFails \/ Lost \/ Deadline \/ RecvTimeout
  <2>1. \A c \in {"CONNECTION_ERROR", "CONNECTION_REFUSED", "TIMEOUT"} :
          Error(c) \in NoAnswer /\ Error(c).code = c
    BY DEF Error, NoAnswer, Errors
  <2>2. /\ holder # Null /\ FewerFrames /\ FewerRequests
        /\ ws' \in {ws, "none"}
    BY <1>2, FramesRead DEF ConnectFails, Lost, Deadline, RecvTimeout, Closed, FewerRequests, Held
  <2>3. CASE Deadline
    BY <2>1, <2>2, <2>3 DEF Deadline
  <2>4. CASE ConnectFails \/ Lost \/ RecvTimeout
    <3>1. ws' = "none"
      BY <2>4 DEF ConnectFails, Lost, RecvTimeout, Closed
    <3>2. PICK c \in {"CONNECTION_ERROR", "CONNECTION_REFUSED"} : Return(Error(c))
      BY <2>4 DEF ConnectFails, Lost, RecvTimeout
    <3> QED
      BY <2>1, <2>2, <3>1, <3>2
  <2> QED
    BY <1>2, <2>3, <2>4
<1> QED
  BY <1>1, <1>2

\* The answer of the NAS is true when it is given.
LEMMA Handled ==
  ASSUME Inv, Present, NEW r \in wire, Handle(r)
  PROVE  /\ UNCHANGED <<task, calls, holder, phase, ws, id, mounted, stale, scrub, stayed>>
         /\ wire' = wire \ {r}
         /\ \/ UNCHANGED <<jobs, made, during>>
            \/ /\ Submits(r) /\ r.call \in 1..MaxCalls
               /\ jobs' = jobs \cup {r.call} /\ made' = [made EXCEPT ![r.call] = @ + 1]
               /\ during' = during \cup {r.call}
         /\ Creates(r) \/ dataset' = dataset
         /\ \E v : /\ v.code = "ok" => Says(r.method, v.val)'
                   /\ \/ frames' = frames
                      \/ frames' = Append(frames, [id |-> r.id, val |-> v,
                                                   to |-> [by |-> r.by, method |-> r.method]])
<1> USE DEF Inv
<1>1. /\ UNCHANGED <<task, calls, holder, phase, ws, id, mounted, stale, scrub, stayed>>
      /\ wire' = wire \ {r}
      /\ r.method \in Methods
      /\ r.method \in PowerMethods => r.call \in 1..MaxCalls
  BY BoundsAssumption DEF Handle, Typed, Held, Requests
<1>2. CASE r.method \in {"nfs3", "nfs4"}
  <2> DEFINE C == {c \in Active : (c \in V3) <=> (r.method = "nfs3")}
  <2>1. \/ Answer(r, Ok(C))
        \/ Answer(r, Error("TRUENAS_API_ERROR"))
    BY <1>2 DEF Handle
  <2>2. UNCHANGED <<jobs, dataset, made, during>> /\ ~Creates(r)
    BY <1>2 DEF Handle, Creates
  <2>3. stayed' = stayed /\ stayed.clients \subseteq Active
    BY <1>1 DEF Present
  <2>4. Says(r.method, C)'
    BY <1>1, <1>2, <2>3 DEF Says, Active
  <2>5. Ok(C).val = C /\ Error("TRUENAS_API_ERROR").code = "TRUENAS_API_ERROR"
    BY DEF Ok, Error
  <2>6. C' = C
    BY <1>1 DEF Active
  <2> HIDE DEF C
  <2> QED
    BY <1>1, <2>1, <2>2, <2>4, <2>5, <2>6 DEF Answer
<1>3. CASE r.method = "jobs"
  <2>1. Answer(r, Ok(scrub)) /\ UNCHANGED <<jobs, dataset, made, during>> /\ ~Creates(r)
    BY <1>3 DEF Handle, Creates
  <2>2. Says(r.method, Ok(scrub).val)'
    BY <1>1, <1>3 DEF Says, Ok, Present, Typed
  <2> QED
    BY <1>1, <2>1, <2>2 DEF Answer, Ok
<1>4. CASE r.method = "submit" /\ ~Modern
  <2>1. Answer(r, Error("signature")) /\ UNCHANGED <<jobs, dataset, made, during>> /\ ~Creates(r)
    BY <1>4 DEF Handle, Creates
  <2>2. Error("signature").code # "ok"
    BY DEF Error
  <2> QED
    BY <1>1, <2>1, <2>2 DEF Answer
<1>5. CASE (r.method = "submit" /\ Modern) \/ r.method = "submit_old"
  <2>1. /\ Answer(r, Ok(r.call)) /\ dataset' = dataset /\ ~Creates(r) /\ Submits(r)
        /\ jobs' = jobs \cup {r.call} /\ made' = [made EXCEPT ![r.call] = @ + 1]
        /\ during' = during \cup {r.call} /\ r.call \in 1..MaxCalls
    BY <1>1, <1>5 DEF Handle, Creates, Submits, PowerMethods
  <2>2. Says(r.method, Ok(r.call).val)'
    BY <1>5, <2>1 DEF Says
  <2> QED
    BY <1>1, <2>1, <2>2 DEF Answer
<1>6. CASE r.method = "verify"
  <2>1. Answer(r, Ok(jobs)) /\ UNCHANGED <<jobs, dataset, made, during>> /\ ~Creates(r)
    BY <1>6 DEF Handle, Creates
  <2>2. Says(r.method, Ok(jobs).val)'
    BY <1>1, <1>6, <2>1 DEF Says, Ok, Present
  <2> QED
    BY <1>1, <2>1, <2>2 DEF Answer
<1>7. CASE r.method = "create"
  <2>1. UNCHANGED <<jobs, made, during>> /\ Creates(r)
    BY <1>7 DEF Handle, Creates
  <2>2. \/ Answer(r, Ok("job"))
        \/ Answer(r, Ok("entity")) /\ dataset' = "SUCCESS"
    BY <1>7 DEF Handle
  <2>3. Says(r.method, "job")' /\ Ok("job").val = "job"
    BY <1>7 DEF Says, Ok
  <2>4. dataset' = "SUCCESS" => Says(r.method, "entity")'
    BY <1>7 DEF Says
  <2>5. Ok("entity").val = "entity"
    BY DEF Ok
  <2> QED
    BY <1>1, <2>1, <2>2, <2>3, <2>4, <2>5 DEF Answer
<1>8. CASE r.method = "poll"
  <2>1. Answer(r, Ok(dataset)) /\ UNCHANGED <<jobs, dataset, made, during>> /\ ~Creates(r)
    BY <1>8 DEF Handle, Creates
  <2>2. Says(r.method, Ok(dataset).val)'
    BY <1>8, <2>1 DEF Says, Ok
  <2> QED
    BY <1>1, <2>1, <2>2 DEF Answer
<1>9. CASE r.method = "state"
  <2>1. Answer(r, Ok("READY")) /\ UNCHANGED <<jobs, dataset, made, during>> /\ ~Creates(r)
    BY <1>9 DEF Handle, Creates
  <2>2. Says(r.method, Ok("READY").val)'
    BY <1>9 DEF Says
  <2> QED
    BY <1>1, <2>1, <2>2 DEF Answer
<1> QED
  BY <1>1, <1>2, <1>3, <1>4, <1>5, <1>6, <1>7, <1>8, <1>9 DEF Methods, PowerMethods, OtherMethods

\* The steps of the network and the NAS besides the handling of a request:
\* history fades, and a job that ends ends once.
Fades ==
  /\ UNCHANGED <<task, calls, holder, phase, id, made, during>>
  /\ FewerRequests /\ FewerFrames /\ (ws' = "none" <=> ws = "none")
  /\ jobs' \subseteq jobs
  /\ stayed' \in [clients : SUBSET Clients, scrub : BOOLEAN]
  /\ stayed'.clients \subseteq stayed.clients \cap (mounted' \ stale')
  /\ stayed'.scrub => stayed.scrub /\ scrub'
  /\ \/ dataset' = dataset
     \/ dataset = "running" /\ dataset' \in {"SUCCESS", "FAILED"}

\* Each of these steps is of that kind.
LEMMA Fading ==
  ASSUME Inv, Present,
         \/ Skip \/ Drop \/ JobEnds \/ GoDown \/ ComeUp \/ ScrubChanges \/ UNCHANGED vars
         \/ (\E r \in wire : Forget(r)) \/ (\E c \in Clients : ClientChanges(c))
  PROVE  Fades
<1> USE DEF Inv
<1>1. /\ UNCHANGED <<task, calls, holder, phase, id, made, during>>
      /\ ws' = "none" <=> ws = "none"
      /\ jobs' \subseteq jobs
      /\ dataset' = dataset \/ (dataset = "running" /\ dataset' \in {"SUCCESS", "FAILED"})
  BY DEF Skip, Drop, JobEnds, GoDown, ComeUp, ScrubChanges, Forget, ClientChanges, vars, session,
         server, history
<1>2. FewerRequests /\ FewerFrames
  <2>1. /\ wire' \subseteq wire \/ wire' = {[r EXCEPT !.live = FALSE] : r \in wire}
        /\ frames' = frames \/ (frames # <<>> /\ frames' = Tail(frames))
    BY DEF Skip, Drop, JobEnds, GoDown, ComeUp, ScrubChanges, Forget, ClientChanges, vars, session
  <2> QED
    BY <2>1, FramesRead DEF FewerRequests
<1>3. /\ stayed' \in [clients : SUBSET Clients, scrub : BOOLEAN]
      /\ stayed'.clients \subseteq stayed.clients \cap (mounted' \ stale')
      /\ stayed'.scrub => stayed.scrub /\ scrub'
  <2>1. CASE UNCHANGED <<stayed, mounted, stale, scrub>>
    BY <2>1 DEF Present, Active
  <2>2. CASE GoDown
    BY <2>2 DEF GoDown
  <2>3. CASE ScrubChanges
    BY <2>3 DEF ScrubChanges, Present, Active, Typed
  <2>4. ASSUME NEW c \in Clients, ClientChanges(c)
        PROVE  <1>3!1 /\ <1>3!2 /\ <1>3!3
    <3>1. stayed' = [stayed EXCEPT !.clients = @ \cap Active'] /\ scrub' = scrub
      BY <2>4 DEF ClientChanges
    <3>2. /\ stayed'.clients = stayed.clients \cap Active' /\ stayed'.scrub = stayed.scrub
          /\ stayed' \in [clients : SUBSET Clients, scrub : BOOLEAN]
      BY <3>1 DEF Present
    <3> QED
      BY <3>1, <3>2 DEF Active, Present
  <2> QED
    BY <2>1, <2>2, <2>3, <2>4
       DEF Skip, Drop, JobEnds, ComeUp, Forget, vars, server, history
<1> QED
  BY <1>1, <1>2, <1>3 DEF Fades

-----------------------------------------------------------------------------
(* Every step keeps what the calls know true.                               *)

\* A write that was asked for once is asked for once also when nobody listens.
LEMMA DeafCreate ==
  ASSUME Typed, Written, wire' = {[q EXCEPT !.live = FALSE] : q \in wire}
  PROVE  \A r, s \in wire' : Creates(r) /\ Creates(s) => r = s
<1> SUFFICES ASSUME NEW r \in wire', NEW s \in wire', Creates(r), Creates(s)
             PROVE  r = s
  OBVIOUS
<1>1. PICK p \in wire, q \in wire : r = [p EXCEPT !.live = FALSE] /\ s = [q EXCEPT !.live = FALSE]
  OBVIOUS
<1>2. Creates(p) /\ Creates(q)
  BY <1>1 DEF Creates, Typed, Requests
<1> QED
  BY <1>1, <1>2 DEF Written

\* What is true of an answer stays true while history fades.
LEMMA FadingStep ==
  ASSUME Inv, Sure, Fades
  PROVE  Sure'
<1> USE DEF Inv, Sure
<1>1. /\ UNCHANGED <<task, calls, holder, phase, id, made, during>>
      /\ FewerRequests /\ FewerFrames /\ (ws' = "none" <=> ws = "none")
      /\ jobs' \subseteq jobs
      /\ stayed' \in [clients : SUBSET Clients, scrub : BOOLEAN]
      /\ stayed'.clients \subseteq stayed.clients /\ stayed'.clients \subseteq Active'
      /\ stayed'.scrub => stayed.scrub /\ scrub'
      /\ dataset = "SUCCESS" => dataset' = "SUCCESS"
      /\ dataset' # "none" => dataset # "none"
      /\ dataset = "none" => dataset' = "none"
  BY DEF Fades, Active
<1>2. NoSubmit => NoSubmit'
  BY <1>1, FewerHold DEF NoSubmit
<1>3. Present'
  BY <1>1 DEF Present
<1>4. Told'
  <2> SUFFICES ASSUME phase = "recv", NEW i \in 1..Len(frames'), NEW m, NEW w,
                      frames'[i].id = id, frames'[i].val.code = "ok",
                      frames'[i].to.method = m, frames'[i].val.val = w
               PROVE  Says(m, w)'
    BY <1>1 DEF Told, Says
  <2>2. PICK j \in 1..Len(frames) : frames'[i] = frames[j]
    BY <1>1 DEF FewerFrames
  <2>3. Says(m, w)
    BY <2>2 DEF Told
  <2> QED
    BY <1>1, <2>3 DEF Says
<1>5. Known'
  BY <1>1 DEF Known, Covers, Refused
<1>6. Unasked'
  BY <1>1, <1>2 DEF Unasked
<1>7. Retried'
  BY <1>1, <1>2 DEF Retried
<1>8. Written'
  <2>1. \A r, s \in wire' : Creates(r) /\ Creates(s) => r = s
    <3>1. CASE wire' \subseteq wire
      BY <3>1 DEF Written
    <3>2. CASE wire' = {[q EXCEPT !.live = FALSE] : q \in wire}
      BY <3>2, DeafCreate
    <3> QED
      BY <1>1, <3>1, <3>2 DEF FewerRequests
  <2>2. \A r \in wire' : \E q \in wire : Creates(r) => Creates(q)
    BY <1>1, FewerHold DEF Creates
  <2> QED
    BY <1>1, <2>1, <2>2 DEF Written
<1>9. AnswersAreTrue'
  BY <1>1 DEF AnswersAreTrue
<1> QED
  BY <1>3, <1>4, <1>5, <1>6, <1>7, <1>8, <1>9

\* A request that the NAS handles is not one that would make an earlier answer
\* untrue.
LEMMA HandledStep ==
  ASSUME Inv, Sure, NEW r \in wire, Handle(r)
  PROVE  Sure'
<1> USE DEF Inv, Sure
<1>1. /\ UNCHANGED <<task, calls, holder, phase, ws, id, mounted, stale, scrub, stayed>>
      /\ wire' = wire \ {r}
      /\ Creates(r) \/ dataset' = dataset
  BY Handled
<1>2. /\ during \subseteq during' /\ jobs' \subseteq during'
      /\ NoSubmit => (calls \in jobs' => calls \in jobs)
      /\ NoSubmit /\ calls \in 1..MaxCalls => made'[calls] = made[calls]
  <2>1. CASE UNCHANGED <<jobs, made, during>>
    BY <2>1 DEF Present
  <2>2. CASE /\ Submits(r) /\ r.call \in 1..MaxCalls
             /\ jobs' = jobs \cup {r.call} /\ made' = [made EXCEPT ![r.call] = @ + 1]
             /\ during' = during \cup {r.call}
    <3>1. NoSubmit => r.call # calls
      BY <2>2 DEF NoSubmit, Submits
    <3>2. \A k \in 1..MaxCalls : k # r.call => made'[k] = made[k]
      BY <2>2 DEF Typed
    <3> QED
      BY <2>2, <3>1, <3>2 DEF Present
  <2> QED
    BY <2>1, <2>2, Handled
<1>3. NoSubmit => NoSubmit'
  BY <1>1 DEF NoSubmit
<1>4. dataset # "none" => dataset' = dataset
  BY <1>1 DEF Written
<1>5. Present'
  BY <1>1, <1>2 DEF Present, Active
<1>6. PICK x : /\ x.code = "ok" => Says(r.method, x.val)'
               /\ \/ frames' = frames
                  \/ frames' = Append(frames, [id |-> r.id, val |-> x,
                                               to |-> [by |-> r.by, method |-> r.method]])
  BY Handled
<1>7. Told'
  <2>a. phase' = phase /\ id' = id
    BY <1>1
  <2>b. ASSUME phase = "recv", NEW i \in 1..Len(frames'), NEW m, NEW w,
               frames'[i].id = id, frames'[i].val.code = "ok",
               frames'[i].to.method = m, frames'[i].val.val = w
        PROVE  Says(m, w)'
    <3> DEFINE f == [id |-> r.id, val |-> x, to |-> [by |-> r.by, method |-> r.method]]
    <3>1. f.val = x /\ f.to.method = r.method
      OBVIOUS
    <3>2. (i \in 1..Len(frames) /\ frames'[i] = frames[i]) \/ frames'[i] = f
      <4> HIDE DEF f
      <4>1. CASE frames' = frames
        BY <4>1
      <4>2. CASE frames' = Append(frames, f)
        BY <4>2 DEF Typed
      <4> QED
        BY <1>6, <4>1, <4>2 DEF f
    <3>3. CASE frames'[i] = f
      BY <1>6, <2>b, <3>1, <3>3
    <3>4. CASE i \in 1..Len(frames) /\ frames'[i] = frames[i]
      <4>1. Says(m, w) /\ Mine(frames[i].to.by, m)
        BY <1>1, <2>b, <3>4 DEF Told, Owned
      <4>2. m = "verify" => task[Power].wants = "verify"
        <5>1. holder = Power \/ task[holder].wants \in OtherMethods \cup {"nothing"}
          BY <2>b, <4>1 DEF Mine, Typed, Held, Tasks, Working, Ended
        <5> QED
          BY <4>1, <5>1 DEF Mine, OtherMethods
      <4>3. Prompt /\ m = "verify" => NoSubmit
        BY <2>b, <4>2 DEF Unasked
      <4>4. /\ m = "nfs3" => stayed'.clients \cap V3 \subseteq w
            /\ m = "nfs4" => stayed'.clients \ V3 \subseteq w
            /\ m = "jobs" => (stayed'.scrub => w = TRUE)
            /\ m \in {"submit", "submit_old"} => during' # {}
        BY <1>1, <1>2, <4>1 DEF Says
      <4>5. m = "verify" => w \subseteq during' /\ (Prompt /\ w = {} => calls' \notin jobs')
        BY <1>1, <1>2, <4>1, <4>3 DEF Says
      <4>6. /\ m = "poll" => (w = "SUCCESS" => dataset' = "SUCCESS")
            /\ m = "create" => (w = "entity" => dataset' = "SUCCESS")
        BY <1>4, <4>1 DEF Says
      <4> QED
        BY <4>4, <4>5, <4>6 DEF Says
    <3> QED
      BY <3>2, <3>3, <3>4
  <2>c. ASSUME NEW i \in 1..Len(frames')
        PROVE  (phase = "recv" /\ frames[i].id = id /\ frames[i].val.code = "ok"
                  => Says(frames[i].to.method, frames[i].val.val))'
    <3>1. PICK m : m = frames'[i].to.method
      OBVIOUS
    <3>2. PICK w : w = frames'[i].val.val
      OBVIOUS
    <3>3. phase = "recv" /\ frames'[i].id = id /\ frames'[i].val.code = "ok" => Says(m, w)'
      BY <2>b, <3>1, <3>2
    <3> QED
      BY <2>a, <3>1, <3>2, <3>3 DEF Says
  <2> QED
    BY <2>c DEF Told
<1>8. Known'
  BY <1>1 DEF Known, Covers, Refused
<1>9. Unasked'
  BY <1>1, <1>3 DEF Unasked
<1>10. Retried'
  <2>1. task[Power].outcome = "POWER_GUARD" => made'[calls] = 0
    <3>1. made' = made \/ calls \in 1..MaxCalls \/ calls = 0
      BY BoundsAssumption DEF Typed
    <3>2. calls = 0 => ~(Submits(r))
      BY DEF Held, Submits, PowerMethods
    <3>3. ~Submits(r) => made' = made
      BY Handled
    <3> QED
      BY <1>2, <3>1, <3>2, <3>3 DEF Retried
  <2> QED
    BY <1>1, <1>2, <1>3, <2>1 DEF Retried
<1>11. Written'
  BY <1>1, <1>4 DEF Written
<1>12. AnswersAreTrue'
  BY <1>1, <1>2, <1>4 DEF AnswersAreTrue
<1> QED
  BY <1>5, <1>7, <1>8, <1>9, <1>10, <1>11, <1>12

\* A call takes in an answer that is true, or none.
LEMMA EndStep ==
  ASSUME Inv, Sure, Receive \/ ConnectFails \/ Lost \/ Deadline \/ RecvTimeout
  PROVE  Sure'
<1> USE DEF Inv, Sure
<1>1. /\ holder # Null /\ FewerFrames /\ FewerRequests /\ ws' \in {ws, "none"}
      /\ holder \in Tasks /\ task[holder].wants # "nothing" /\ Power # Other
  BY Ends, TasksAssumption DEF Held, Typed
<1>2. PICK r \in AnswersTo(task[holder].wants) \cup NoAnswer :
        /\ Return(r)
        /\ r.code = "ok" => Says(task[holder].wants, r.val) /\ ws # "none"
        /\ r.code = "CONNECTION_ERROR" => ws' = "none"
  BY Ends
<1>3. /\ UNCHANGED <<calls, mounted, stale, scrub, jobs, dataset, made, during, stayed>>
      /\ holder' = Null /\ phase' = "none" /\ holder' # Other
      /\ task' = [task EXCEPT ![holder] = After(task[holder], r)]
  BY <1>2, TasksAssumption DEF Return, server, history, Tasks
<1>4. NoSubmit => NoSubmit'
  BY <1>1, <1>3, FewerHold DEF NoSubmit
<1>5. Present' /\ Told'
  BY <1>3 DEF Present, Told, Active
<1>6. /\ \A q, p \in wire' : Creates(q) /\ Creates(p) => q = p
      /\ \A q \in wire' : \E p \in wire : Creates(q) => Creates(p)
  <2>1. \A q \in wire' : \E p \in wire : Creates(q) => Creates(p)
    BY <1>1, <1>3, FewerHold DEF Creates
  <2>2. CASE wire' \subseteq wire
    BY <2>1, <2>2 DEF Written
  <2>3. CASE wire' = {[q EXCEPT !.live = FALSE] : q \in wire}
    BY <2>1, <2>3, DeafCreate
  <2> QED
    BY <1>1, <2>1, <2>2, <2>3 DEF FewerRequests
<1>7. CASE holder = Power
  <2> DEFINE t == task[Power]
  <2>1. t \in Probing /\ task'[Power] = After(t, r) /\ task'[Other] = task[Other]
    BY <1>1, <1>3, <1>7 DEF Typed, Tasks, Ended
  <2>2. r \in AnswersTo(t.wants) \cup NoAnswer /\ (r.code = "ok" => Says(t.wants, r.val) /\ ws # "none")
    BY <1>2, <1>7
  <2>3. task'[Power] \in Ended \cup Probing
    BY <2>1, <2>2, AfterPower
  <2>4. /\ task'[Power].wants \in {"nfs3", "nfs4", "jobs"} => t.wants \in {"nfs3", "nfs4"}
        /\ task'[Power].wants = "verify" => r.code = "CONNECTION_ERROR"
        /\ task'[Power].outcome = "POWER_GUARD" => t.wants = "jobs"
        /\ task'[Power].outcome = "POWER_NOT_SUBMITTED" =>
             t.wants = "verify" /\ r.code = "ok" /\ r.val = {}
        /\ task'[Power].wants = "nothing" /\ task'[Power].outcome = "submitted" /\ task'[Power].verified =>
             \/ t.wants \in {"submit", "submit_old"} /\ r.code = "ok"
             \/ t.wants = "verify" /\ r.code = "ok" /\ r.val # {}
    <3> HIDE DEF t
    <3> QED
      BY <2>1, <2>2, PowerGoesOn
  <2>5. Covers(After(t, r))
    <3>1. Covers(t)
      BY DEF Known
    <3> HIDE DEF t
    <3> QED
      BY <2>1, <2>2, <3>1, PowerLearns
  <2>6. Known'
    BY <1>3, <2>1, <2>5 DEF Known, Covers, Refused
  <2>7. Unasked'
    BY <1>2, <1>3, <1>4, <2>4 DEF Unasked
  <2>8. Retried'
    <3>1. task'[Power].outcome = "POWER_GUARD" => made'[calls'] = 0 /\ NoSubmit'
      BY <1>3, <1>4, <2>4, BoundsAssumption DEF Unasked, Once, Unsent, Typed
    <3>2. Prompt /\ task'[Power].outcome = "POWER_NOT_SUBMITTED" => calls' \notin jobs' /\ NoSubmit'
      BY <1>3, <1>4, <2>2, <2>4 DEF Unasked, Says
    <3> QED
      BY <3>1, <3>2 DEF Retried
  <2>9. Written'
    BY <1>1, <1>3, <1>6, <1>7, <2>1 DEF Written
  <2>10. AnswersAreTrue'
    <3>1. task'[Power].outcome = "submitted" => task'[Power].wants = "nothing"
      BY <2>3 DEF Ended, Probing
    <3>2. task'[Power].outcome = "submitted" /\ task'[Power].verified => during' # {}
      BY <1>3, <2>2, <2>4, <3>1 DEF Says
    <3> QED
      BY <1>3, <2>1, <3>2 DEF AnswersAreTrue
  <2> QED
    BY <1>5, <2>6, <2>7, <2>8, <2>9, <2>10
<1>8. CASE holder = Other
  <2> DEFINE t == task[Other]
  <2>1. t \in Working /\ task'[Other] = After(t, r) /\ task'[Power] = task[Power]
    BY <1>1, <1>3, <1>8 DEF Typed, Tasks, Ended
  <2>2. r \in AnswersTo(t.wants) \cup NoAnswer /\ (r.code = "ok" => Says(t.wants, r.val))
    BY <1>2, <1>8
  <2>3. /\ task'[Other] # Resting /\ task'[Other].wants # "create"
        /\ task'[Other].outcome = "ok" /\ task'[Other].verified =>
             \/ t.wants = "poll" /\ r.code = "ok" /\ r.val = "SUCCESS"
             \/ t.wants = "create" /\ r.code = "ok" /\ r.val = "entity"
    <3> HIDE DEF t
    <3> QED
      BY <2>1, <2>2, OtherGoesOn
  <2>4. Known' /\ Retried'
    BY <1>3, <1>4, <2>1 DEF Known, Covers, Refused, Retried
  <2>5. Unasked'
    BY <1>1, <1>3, <1>4, <2>1 DEF Unasked
  <2>6. Written'
    BY <1>1, <1>3, <1>6, <2>3 DEF Written
  <2>7. AnswersAreTrue'
    BY <1>3, <2>1, <2>2, <2>3 DEF AnswersAreTrue, Says
  <2> QED
    BY <1>5, <2>4, <2>5, <2>6, <2>7
<1> QED
  BY <1>1, <1>7, <1>8 DEF Tasks

\* A call begins: whatever there is has stayed since, and nothing was asked.
LEMMA BeginStep ==
  ASSUME Inv, Sure, BeginPower \/ BeginOther("create") \/ BeginOther("state")
  PROVE  Sure'
<1> USE DEF Inv, Sure
<1>1. UNCHANGED <<holder, phase, ws, id, frames, wire, made, mounted, stale, scrub, jobs, dataset>>
      /\ Power # Other /\ Power \in Tasks /\ Other \in Tasks
  BY TasksAssumption DEF BeginPower, BeginOther, session, server, history, Tasks
<1>2. CASE BeginPower
  <2>1. /\ task[Power].wants = "nothing" /\ calls' = calls + 1 /\ during' = jobs
        /\ stayed' = [clients |-> Active, scrub |-> scrub]
    BY <1>2 DEF BeginPower
  <2>2. /\ task'[Power].wants = "nfs3" /\ task'[Power].outcome = "none"
        /\ task'[Other] = task[Other]
    <3>1. PICK t : /\ t.wants = "nfs3" /\ t.outcome = "none"
                   /\ task' = [task EXCEPT ![Power] = t]
      <4>1. PICK force \in BOOLEAN, delayed \in BOOLEAN :
              task' = [task EXCEPT ![Power] =
                         [wants |-> "nfs3", outcome |-> "none", force |-> force, delayed |-> delayed,
                          seen |-> {}, failed |-> {}, busy |-> FALSE]]
        BY <1>2 DEF BeginPower
      <4> DEFINE t == [wants |-> "nfs3", outcome |-> "none", force |-> force, delayed |-> delayed,
                       seen |-> {}, failed |-> {}, busy |-> FALSE]
      <4>2. t.wants = "nfs3" /\ t.outcome = "none"
        OBVIOUS
      <4> HIDE DEF t
      <4>3. task' = [task EXCEPT ![Power] = t]
        BY <4>1 DEF t
      <4> QED
        BY <4>2, <4>3
    <3> QED
      BY <1>1, <3>1 DEF Typed
  <2>3. Present'
    BY <1>1, <2>1 DEF Present, Active, Typed
  <2>4. Told'
    <3> SUFFICES ASSUME phase = "recv", NEW i \in 1..Len(frames),
                        frames[i].id = id, frames[i].val.code = "ok"
                 PROVE  Says(frames[i].to.method, frames[i].val.val)'
      BY <1>1 DEF Told
    <3>1. holder = Other /\ task[Other] \in Working
      BY <2>1, TasksAssumption DEF Held, Typed, Tasks, Ended
    <3>2. frames[i].to.method \in OtherMethods
      BY <3>1 DEF Owned, Mine, Working
    <3>3. Says(frames[i].to.method, frames[i].val.val)
      BY DEF Told
    <3> QED
      BY <1>1, <3>2, <3>3 DEF Says, OtherMethods
  <2>5. Known'
    BY <2>2 DEF Known, Covers
  <2>6. NoSubmit'
    BY <1>1, <2>1, BoundsAssumption DEF NoSubmit, Held, Typed, PowerMethods
  <2>7. Unasked' /\ Retried'
    BY <1>1, <2>2, <2>6 DEF Unasked, Retried
  <2>8. Written'
    BY <1>1, <2>2 DEF Written, Resting, End
  <2>9. AnswersAreTrue'
    BY <1>1, <2>2 DEF AnswersAreTrue
  <2> QED
    BY <2>3, <2>4, <2>5, <2>7, <2>8, <2>9
<1>3. ASSUME NEW m \in {"create", "state"}, BeginOther(m)
      PROVE  Sure'
  <2>1. /\ task[Other] = Resting /\ UNCHANGED <<calls, during, stayed>>
        /\ \E waits \in BOOLEAN :
             task' = [task EXCEPT ![Other] =
                        [wants |-> m, outcome |-> "none", polls |-> 0, waits |-> waits]]
    BY <1>3 DEF BeginOther, history
  <2>2. task'[Power] = task[Power] /\ task'[Other].outcome = "none"
    BY <1>1, <2>1 DEF Typed
  <2>3. Present' /\ Told' /\ Known'
    BY <1>1, <2>1, <2>2 DEF Present, Active, Told, Says, Known, Covers, Refused
  <2>4. Unasked' /\ Retried'
    BY <1>1, <2>1, <2>2 DEF Unasked, Retried, NoSubmit
  <2>5. Written'
    BY <1>1, <2>1 DEF Written
  <2>6. AnswersAreTrue'
    BY <1>1, <2>1, <2>2 DEF AnswersAreTrue
  <2> QED
    BY <2>3, <2>4, <2>5, <2>6
<1> QED
  BY <1>2, <1>3

\* The lock, the connection and the request.
LEMMA AskStep ==
  ASSUME Inv, Sure, (\E t \in Tasks : Acquire(t)) \/ Connect \/ Send
  PROVE  Sure'
<1> USE DEF Inv, Sure
<1>1. UNCHANGED <<task, calls, mounted, stale, scrub, jobs, dataset, made, during, stayed>>
      /\ Power # Other
  BY TasksAssumption DEF Acquire, Connect, Send, server, history
<1>2. Present' /\ Known' /\ AnswersAreTrue'
  BY <1>1 DEF Present, Active, Known, Covers, Refused, AnswersAreTrue
<1>3. CASE \E t \in Tasks : Acquire(t)
  <2>1. /\ UNCHANGED <<ws, wire>> /\ phase = "none"
        /\ phase' = IF ws = "none" THEN "connect" ELSE "send"
    BY <1>3 DEF Acquire, Held
  <2>2. NoSubmit => NoSubmit'
    BY <1>1, <2>1 DEF NoSubmit
  <2>3. Told' /\ Unasked' /\ Retried'
    BY <1>1, <2>1, <2>2 DEF Told, Unasked, Retried
  <2>4. Written'
    BY <1>1, <2>1 DEF Written
  <2> QED
    BY <1>2, <2>3, <2>4
<1>4. CASE Connect
  <2>1. /\ UNCHANGED <<holder, wire>> /\ ws' = "open" /\ phase = "connect" /\ phase' = "send"
        /\ Prompt => wire = {}
    BY <1>4 DEF Connect, Prompt
  <2>2. (NoSubmit => NoSubmit') /\ (Prompt => NoSubmit')
    BY <1>1, <2>1 DEF NoSubmit
  <2>3. Told' /\ Unasked' /\ Retried'
    BY <1>1, <2>1, <2>2 DEF Told, Unasked, Retried
  <2>4. Written'
    BY <1>1, <2>1 DEF Written
  <2> QED
    BY <1>2, <2>3, <2>4
<1>5. CASE Send
  <2> DEFINE new == [id |-> NextId, by |-> holder, method |-> task[holder].wants,
                     call |-> IF holder = Power THEN calls ELSE 0, live |-> TRUE]
  <2>1. /\ phase = "send" /\ phase' = "recv" /\ ws = "open" /\ id' = NextId
        /\ UNCHANGED <<holder, ws, frames>> /\ wire' = wire \cup {new}
    BY <1>5 DEF Send
  <2>2. new.method = task[holder].wants /\ holder \in Tasks /\ task[holder].wants # "nothing"
    BY <2>1 DEF Held, Typed
  <2> HIDE DEF new
  <2>3. /\ new.method \in {"submit", "submit_old"} => holder = Power
        /\ Creates(new) => holder = Other
    BY <2>2 DEF Creates, Tasks, Typed, Working, Probing, Ended, OtherMethods, PowerMethods
  <2>4. NoSubmit /\ task[Power].wants \notin {"submit", "submit_old"} => NoSubmit'
    BY <1>1, <2>1, <2>2, <2>3 DEF NoSubmit
  <2>5. Told'
    BY <2>1, NextIsFresh DEF Told, Typed, Frames
  <2>6. Unasked'
    BY <1>1, <2>1, <2>4 DEF Unasked
  <2>7. Retried'
    <3>1. task[Power].outcome # "none" => task[Power].wants = "nothing"
      BY DEF Typed, Ended, Probing
    <3> QED
      BY <1>1, <2>4, <3>1 DEF Retried
  <2>8. Written'
    <3>1. Resting.wants = "nothing"
      BY DEF Resting, End
    <3> QED
      BY <1>1, <2>1, <2>2, <2>3, <3>1 DEF Written, Creates, Tasks
  <2> QED
    BY <1>2, <2>5, <2>6, <2>7, <2>8
<1> QED
  BY <1>3, <1>4, <1>5

\* A tool call that is given up says nothing.
LEMMA CancelledStep ==
  ASSUME Inv, Sure, NEW t \in Tasks, Cancel(t)
  PROVE  Sure'
<1> USE DEF Inv, Sure
<1>1. /\ UNCHANGED <<calls, ws, frames, wire, mounted, stale, scrub, jobs, dataset, made, during, stayed>>
      /\ task' = [task EXCEPT ![t] = End("cancelled")] /\ Power # Other /\ Other # Null
      /\ \/ holder = t /\ holder' = Null /\ phase' = "none" /\ id' = 0
         \/ holder # t /\ UNCHANGED <<holder, phase, id>>
  BY TasksAssumption DEF Cancel, server, history, Tasks
<1>2. /\ End("cancelled").wants = "nothing" /\ End("cancelled").outcome = "cancelled"
      /\ End("cancelled") # Resting
  BY DEF End, Resting
<1>3. task'[t] = End("cancelled") /\ \A u \in Tasks \ {t} : task'[u] = task[u]
  BY <1>1 DEF Typed
<1>4. \/ task'[Power] = End("cancelled") \/ task'[Power] = task[Power]
  BY <1>3 DEF Tasks
<1>5. \/ task'[Other] = End("cancelled") \/ (t = Power /\ task'[Other] = task[Other])
  BY <1>1, <1>3 DEF Tasks
<1>6. Present' /\ Told'
  BY <1>1 DEF Present, Active, Told, Says
<1>7. Known'
  BY <1>1, <1>2, <1>4 DEF Known, Covers, Refused
<1>8. Unasked' /\ Retried'
  BY <1>1, <1>2, <1>4 DEF Unasked, Retried, NoSubmit
<1>9. Written'
  BY <1>1, <1>2, <1>5 DEF Written
<1>10. AnswersAreTrue'
  BY <1>1, <1>2, <1>4, <1>5 DEF AnswersAreTrue
<1> QED
  BY <1>6, <1>7, <1>8, <1>9, <1>10

\* Every step keeps it.
LEMMA SureStep ==
  ASSUME Inv, Sure, [Next]_vars
  PROVE  Sure'
<1>1. CASE BeginPower \/ BeginOther("create") \/ BeginOther("state")
  BY <1>1, BeginStep
<1>2. CASE (\E t \in Tasks : Acquire(t)) \/ Connect \/ Send
  BY <1>2, AskStep
<1>3. CASE Receive \/ ConnectFails \/ Lost \/ Deadline \/ RecvTimeout
  BY <1>3, EndStep
<1>4. ASSUME NEW t \in Tasks, Cancel(t)
      PROVE  Sure'
  BY <1>4, CancelledStep
<1>5. ASSUME NEW r \in wire, Handle(r)
      PROVE  Sure'
  BY <1>5, HandledStep
<1>6. CASE \/ Skip \/ Drop \/ JobEnds \/ GoDown \/ ComeUp \/ ScrubChanges \/ UNCHANGED vars
           \/ (\E r \in wire : Forget(r)) \/ (\E c \in Clients : ClientChanges(c))
  <2>1. Fades
    BY <1>6, Fading DEF Sure
  <2> QED
    BY <2>1, FadingStep
<1> QED
  BY <1>1, <1>2, <1>3, <1>4, <1>5, <1>6 DEF Next, ClientStep

\* In the beginning nothing has been asked or answered.
LEMMA SureInit == Init => Sure
<1> SUFFICES ASSUME Init PROVE Sure
  OBVIOUS
<1>1. /\ task = [t \in Tasks |-> Resting] /\ Power \in Tasks /\ Other \in Tasks
      /\ Resting.wants = "nothing" /\ Resting.outcome = "none"
  BY DEF Init, Tasks, Resting, End
<1>2. Present /\ Told
  BY DEF Init, Present, Told
<1>3. Known /\ Unasked /\ Retried
  BY <1>1 DEF Init, Known, Covers, Unasked, Retried
<1>4. Written /\ AnswersAreTrue
  BY <1>1 DEF Init, Written, AnswersAreTrue
<1> QED
  BY <1>2, <1>3, <1>4 DEF Sure

-----------------------------------------------------------------------------
(* The theorems.                                                           *)

\* The invariant, for whatever clients, calls and faults.
THEOREM Invariance == Spec => []Inv
<1>1. Inv /\ [Next]_vars => Inv'
  BY InvStep
<1> QED
  BY <1>1, InitHolds, PTL DEF Spec

\* The state keeps its type: what a tool works on is what its request asked for.
THEOREM TypeCorrect == Spec => []Typed
<1>1. Inv => Typed
  BY DEF Inv
<1> QED
  BY <1>1, Invariance, PTL

\* A tool gets the answer to its own request, however many requests were given
\* up, timed out, or are answered late on the same socket.
THEOREM AnswersAlwaysMatch == Spec => []AnswersMatch
<1>1. Inv => AnswersMatch
  <2> SUFFICES ASSUME Inv, phase = "recv", frames # <<>>, Matches(Head(frames))
               PROVE  Head(frames).to = [by |-> holder, method |-> task[holder].wants]
    BY DEF AnswersMatch
  <2>1. 1 \in 1..Len(frames) /\ Head(frames) = frames[1] /\ frames[1] \in Frames
    BY DEF Inv, Typed
  <2>2. Mine(Head(frames).to.by, Head(frames).to.method)
    BY <2>1 DEF Inv, Owned, Matches
  <2> QED
    BY <2>1, <2>2 DEF Frames, Mine
<1> QED
  BY <1>1, Invariance, PTL

\* A power call makes at most one job, in whichever form it is submitted, and
\* wherever the connection drops.
THEOREM OneJobPerCall == Spec => []OncePerCall
<1>1. Inv => OncePerCall
  BY DEF Inv, Once, OncePerCall
<1> QED
  BY <1>1, Invariance, PTL

\* What the calls know is true, whatever happens on the way.
THEOREM Surety == Spec => []Sure
<1>1. Inv /\ Sure /\ [Next]_vars => Sure'
  BY SureStep
<1> QED
  BY <1>1, SureInit, Invariance, PTL DEF Spec

\* A power call that says verified has seen a job, its own or one that was
\* pending, and a write that was to wait and answers ok has been done: the
\* answers cannot be of another call, nor be overtaken before they are read.
THEOREM AnswersStayTrue == Spec => []AnswersAreTrue
<1>1. Sure => AnswersAreTrue
  BY DEF Sure
<1> QED
  BY <1>1, Surety, PTL

\* A call that was refused makes no job, and one that ends with "it is safe to
\* retry the call" has none pending and will make none, if the NAS is through
\* with what it got on one connection before it takes the next.  (With
\* "backlog" among the faults TLC finds RetryIsSafe violated.)
THEOREM RetriesAreSafe ==
  ASSUME "backlog" \notin FaultKinds
  PROVE  Spec => []RetryIsSafe
<1>1. Sure => RetryIsSafe
  BY DEF Sure, Retried, RetryIsSafe, NoSubmit, Prompt
<1> QED
  BY <1>1, Surety, PTL

\* Without force no job is made while a client that was not expected, or a job
\* that must not be interrupted, has been there ever since the call began: it is
\* in a list the call has read, or the call knows that it could not read it.
THEOREM GuardsHold == Spec => NothingCutOff
<1> DEFINE Held1 == calls > 0 /\ made'[calls] > made[calls]
                      /\ task[Power].wants \in {"submit", "submit_old"} /\ ~task[Power].force
                        => stayed.clients \subseteq Expected /\ ~stayed.scrub
<1>1. ASSUME Inv, Sure
      PROVE  Held1
  <2> SUFFICES ASSUME task[Power].wants \in {"submit", "submit_old"}, ~task[Power].force
               PROVE  stayed.clients \subseteq Expected /\ ~stayed.scrub
    OBVIOUS
  <2> DEFINE t == task[Power]
  <2>1. Covers(t) /\ stayed \in [clients : SUBSET Clients, scrub : BOOLEAN]
    BY <1>1 DEF Sure, Known, Present
  <2>2. t.failed = {} /\ t.seen \cap Unnamed = {} /\ t.seen \ Unnamed \subseteq Expected /\ ~t.busy
    BY <2>1 DEF Covers, Refused
  <2>3. stayed.clients \subseteq t.seen /\ ~stayed.scrub
    BY <2>1, <2>2 DEF Covers
  <2> QED
    BY <2>2, <2>3
<1>2. Inv /\ Sure => [Held1]_<<made>>
  BY <1>1
<1> QED
  BY <1>2, Invariance, Surety, PTL DEF NothingCutOff
=============================================================================
