----------------------------- MODULE DraftSessions -----------------------------
(***************************************************************************)
(* From a draft to a purchase request: the active sessions of one          *)
(* applicant (purchase_request_sessions), the Word documents prepared for  *)
(* them on disk, and the requests that are created from them.              *)
(*                                                                         *)
(* A session reserves a request code and gets a verification token; both   *)
(* are printed on its documents, the token as a QR code that anybody can   *)
(* verify.  Submitting creates the request under the reserved code, saves  *)
(* the documents and the token on it, and deletes the session.  None of it *)
(* is a transaction; requestCode has a unique index.                       *)
(*                                                                         *)
(* Left out: what the applicant writes, the checks of it, and the Word     *)
(* files the applicant edits, which keep the printed code and token.       *)
(***************************************************************************)
EXTENDS Naturals, FiniteSets

CONSTANTS Sessions, Procs,
          MaxSessions,   \* MAX_ACTIVE_SESSIONS_PER_USER
          MaxCode,       \* bounds the codes taken from the sequence
          MaxToken,      \* bounds the tokens drawn
          Handlers,      \* "edit": sessions that edit a request are used
          Mishaps        \* "crash": a handler may stop between two steps

ASSUME DraftAssumption ==
  /\ MaxSessions \in Nat /\ MaxCode \in Nat /\ MaxToken \in Nat
  /\ "DIRECT" \notin Sessions /\ "NOWHERE" \notin Sessions
  /\ Handlers \subseteq {"edit"}
  /\ Mishaps \subseteq {"crash"}

VARIABLES drafts,      \* purchase_request_sessions
          printed,     \* what the documents of a session bear
          requests,    \* purchase_requests, by code
          lastCode,    \* the sequence of request codes
          lastToken,   \* tokens drawn so far (randomBytes)
          running,     \* what each handler in flight holds
          orderly      \* history: no handlers overlapped and none stopped

vars == <<drafts, printed, requests, lastCode, lastToken, running, orderly>>

Codes == 1..MaxCode
None == 0
Code == Codes \cup {None}
Token == 0..MaxToken

\* SENT and DELETED sessions are both gone; the model remembers how they went.
Draft == [ state : {"NEW", "OPEN", "SENT", "DELETED"},
           reserved : Code, token : Token, editing : Code ]

NewDraft == [state |-> "NEW", reserved |-> None, token |-> None, editing |-> None]

Printed == [code : Code, token : Token]
Plain == [code |-> None, token |-> None]
NoDocuments == [submitted |-> FALSE]

\* from is not stored: the model remembers where a request came from.
Request == [ from : Sessions \cup {"DIRECT"}, token : Token,
             documents : Printed \cup {NoDocuments} ]
NoRequest == [from |-> "NOWHERE"]

Idle == [stage |-> "idle"]

Job ==
  [stage : {"idle", "start"}]
  \* createEditSession: the request it loaded, the session it made
  \cup [stage : {"open"}, target : Codes, token : Token]
  \cup [stage : {"copy"}, target : Codes, session : Sessions]
  \* prepareSessionDocuments and submitActiveSession
  \cup [ stage : {"code", "print", "prepared", "find", "make", "finish", "attach", "drop"},
         session : Sessions, prepares : BOOLEAN, reserved : Code, token : Token,
         draws : BOOLEAN, files : Printed, target : Code ]

TypeOK ==
  /\ drafts \in [Sessions -> Draft]
  /\ printed \in [Sessions -> Printed]
  /\ requests \in [Codes -> Request \cup {NoRequest}]
  /\ lastCode \in Code /\ lastToken \in Token
  /\ running \in [Procs -> Job]
  /\ orderly \in BOOLEAN

Init ==
  /\ drafts = [s \in Sessions |-> NewDraft]
  /\ printed = [s \in Sessions |-> Plain]
  /\ requests = [c \in Codes |-> NoRequest]
  /\ lastCode = 0 /\ lastToken = 0
  /\ running = [p \in Procs |-> Idle]
  /\ orderly = TRUE

Open(s) == drafts[s].state = "OPEN"
IsRequestCodeTaken(c) == requests[c] # NoRequest
GoOn(p, job) == running' = [running EXCEPT ![p] = job]

----------------------------------------------------------------------------
(* Opening sessions *)

CountAllows == Cardinality({s \in Sessions : Open(s)}) < MaxSessions

BeginActiveSession(p) ==
  /\ running[p] = Idle
  /\ CountAllows
  /\ GoOn(p, [stage |-> "start"])
  /\ UNCHANGED <<drafts, printed, requests, lastCode, lastToken>>

CreateActiveSession(p, s) ==
  /\ running[p].stage = "start"
  /\ drafts[s].state = "NEW"
  /\ drafts' = [drafts EXCEPT ![s].state = "OPEN"]
  /\ GoOn(p, Idle)
  /\ UNCHANGED <<printed, requests, lastCode, lastToken>>

BeginEditSession(p, c) ==
  /\ "edit" \in Handlers
  /\ running[p] = Idle
  /\ IsRequestCodeTaken(c)
  /\ CountAllows
  /\ GoOn(p, [stage |-> "open", target |-> c, token |-> requests[c].token])
  /\ UNCHANGED <<drafts, printed, requests, lastCode, lastToken>>

\* The session takes over the code and the token of the request, or draws one.
CreateEditSession(p, s) ==
  LET job == running[p]
      draws == job.token = None
      token == IF draws THEN lastToken + 1 ELSE job.token
  IN  /\ job.stage = "open"
      /\ drafts[s].state = "NEW"
      /\ draws => lastToken < MaxToken
      /\ drafts' = [drafts EXCEPT ![s] = [ state |-> "OPEN", reserved |-> job.target,
                                           token |-> token, editing |-> job.target ]]
      /\ lastToken' = IF draws THEN token ELSE lastToken
      /\ GoOn(p, [stage |-> "copy", target |-> job.target, session |-> s])
      /\ UNCHANGED <<printed, requests, lastCode>>

\* The documents of the request are copied when they are Word files, and
\* otherwise (none submitted, or already PDF) printed anew.
CopyDocuments(p) ==
  LET job == running[p]
      documents == requests[job.target].documents
  IN  /\ job.stage = "copy"
      /\ \E file \in ({documents} \ {NoDocuments}) \cup
                     {[code |-> job.target, token |-> drafts[job.session].token]} :
           printed' = [printed EXCEPT ![job.session] = file]
      /\ GoOn(p, Idle)
      /\ UNCHANGED <<drafts, requests, lastCode, lastToken>>

DeleteActiveSession(s) ==
  /\ Open(s)
  /\ drafts' = [drafts EXCEPT ![s].state = "DELETED"]
  /\ UNCHANGED <<printed, requests, lastCode, lastToken, running>>

----------------------------------------------------------------------------
(* prepareSessionDocuments, and the first half of submitActiveSession *)

Loaded(s, prepares) ==
  [ stage |-> "code", session |-> s, prepares |-> prepares, reserved |-> drafts[s].reserved,
    token |-> drafts[s].token, draws |-> FALSE, files |-> printed[s], target |-> None ]

BeginPrepare(p, s) ==
  /\ running[p] = Idle
  /\ Open(s)
  /\ GoOn(p, Loaded(s, TRUE))
  /\ UNCHANGED <<drafts, printed, requests, lastCode, lastToken>>

\* The applicant uploads what the session's documents were printed with.
BeginSubmit(p, s) ==
  /\ running[p] = Idle
  /\ Open(s)
  /\ drafts[s].editing = None
  /\ GoOn(p, Loaded(s, FALSE))
  /\ UNCHANGED <<drafts, printed, requests, lastCode, lastToken>>

\* A bug the runs must find: every call reserves a code of its own.
EnsureFreshCode(p) ==
  LET job == running[p]
      code == lastCode + 1
  IN  /\ job.stage = "code"
      /\ lastCode < MaxCode
      /\ lastCode' = code
      /\ drafts' = [drafts EXCEPT ![job.session].reserved = code]
      /\ GoOn(p, [job EXCEPT !.stage = IF job.prepares THEN "print" ELSE "find",
                             !.reserved = code])
      /\ UNCHANGED <<printed, requests, lastToken>>

\* ensureSessionRequestCode: a reserved code that is taken is replaced.  A save
\* fails when the session is gone.
EnsureSessionRequestCode(p) ==
  LET job == running[p]
      s == job.session
      keeps == \/ drafts[s].editing # None
               \/ job.reserved # None /\ ~IsRequestCodeTaken(job.reserved)
      code == IF keeps THEN job.reserved ELSE lastCode + 1
  IN  /\ job.stage = "code"
      /\ keeps \/ lastCode < MaxCode
      /\ lastCode' = IF keeps THEN lastCode ELSE code
      /\ IF keeps \/ Open(s)
         THEN GoOn(p, [job EXCEPT !.stage = IF job.prepares THEN "print" ELSE "find",
                                  !.reserved = code])
         ELSE GoOn(p, Idle)
      /\ drafts' = IF ~keeps /\ Open(s) THEN [drafts EXCEPT ![s].reserved = code] ELSE drafts
      /\ UNCHANGED <<printed, requests, lastToken>>

\* The documents are written to disk with the code and the token ...
PrintDocuments(p) ==
  LET job == running[p]
      draws == job.token = None
      token == IF draws THEN lastToken + 1 ELSE job.token
  IN  /\ job.stage = "print"
      /\ draws => lastToken < MaxToken
      /\ lastToken' = IF draws THEN token ELSE lastToken
      /\ printed' = [printed EXCEPT ![job.session] = [code |-> job.reserved, token |-> token]]
      /\ GoOn(p, [job EXCEPT !.stage = "prepared", !.token = token, !.draws = draws])
      /\ UNCHANGED <<drafts, requests, lastCode>>

\* ... and a token that was drawn is saved on the session after that.
SavePrepared(p) ==
  LET job == running[p]
  IN  /\ job.stage = "prepared"
      /\ drafts' = IF job.draws /\ Open(job.session)
                   THEN [drafts EXCEPT ![job.session].token = job.token] ELSE drafts
      /\ GoOn(p, Idle)
      /\ UNCHANGED <<printed, requests, lastCode, lastToken>>

----------------------------------------------------------------------------
(* The second half of submitActiveSession *)

\* findRequestCreatedFromSession: by token, or by the code just ensured.
CreatedFrom(job) ==
  LET byToken == {c \in Codes : /\ job.token # None
                                /\ IsRequestCodeTaken(c)
                                /\ requests[c].token = job.token}
  IN  IF byToken # {} THEN byToken
      ELSE {c \in {job.reserved} : IsRequestCodeTaken(c)}

\* A bug the runs must find: the request that was found is taken for complete.
FindComplete(p) ==
  LET job == running[p]
  IN  /\ job.stage = "find"
      /\ \/ CreatedFrom(job) = {} /\ GoOn(p, [job EXCEPT !.stage = "make"])
         \/ \E c \in CreatedFrom(job) :
              GoOn(p, [job EXCEPT !.target = c, !.stage = "drop"])
      /\ UNCHANGED <<drafts, printed, requests, lastCode, lastToken>>

\* A request that has its documents needs nothing more.
FindCreated(p) ==
  LET job == running[p]
  IN  /\ job.stage = "find"
      /\ \/ CreatedFrom(job) = {} /\ GoOn(p, [job EXCEPT !.stage = "make"])
         \/ \E c \in CreatedFrom(job) :
              GoOn(p, [job EXCEPT !.target = c,
                         !.stage = IF requests[c].documents = NoDocuments
                                   THEN "attach" ELSE "drop"])
      /\ UNCHANGED <<drafts, printed, requests, lastCode, lastToken>>

\* createPurchaseRequestRecord: when the code was taken meanwhile, by its own
\* look or by the unique index, it takes the next one.
CreatePurchaseRequestRecord(p) ==
  LET job == running[p]
      taken == IsRequestCodeTaken(job.reserved)
      code == IF taken THEN lastCode + 1 ELSE job.reserved
  IN  /\ job.stage = "make"
      /\ taken => lastCode < MaxCode
      /\ lastCode' = IF taken THEN code ELSE lastCode
      /\ requests' = [requests EXCEPT ![code] =
           [from |-> job.session, token |-> None, documents |-> NoDocuments]]
      /\ GoOn(p, [job EXCEPT !.stage = "finish", !.target = code])
      /\ UNCHANGED <<drafts, printed, lastToken>>

\* The documents and the token, saved together.  A request found, not made, by
\* this handler keeps the token it has.
SaveSubmitted(p) ==
  LET job == running[p]
      keeps(token) == \/ job.token = None
                      \/ job.stage = "attach" /\ token # None
  IN  /\ job.stage \in {"finish", "attach"}
      /\ requests' = [requests EXCEPT
           ![job.target].documents = job.files,
           ![job.target].token = IF keeps(@) THEN @ ELSE job.token]
      /\ GoOn(p, [job EXCEPT !.stage = "drop"])
      /\ UNCHANGED <<drafts, printed, lastCode, lastToken>>

\* A bug the runs must find: a session that was submitted stays.
KeepSession(p) ==
  /\ running[p].stage = "drop"
  /\ GoOn(p, Idle)
  /\ UNCHANGED <<drafts, printed, requests, lastCode, lastToken>>

DropSession(p) ==
  LET s == running[p].session
  IN  /\ running[p].stage = "drop"
      /\ drafts' = IF Open(s) THEN [drafts EXCEPT ![s].state = "SENT"] ELSE drafts
      /\ GoOn(p, Idle)
      /\ UNCHANGED <<printed, requests, lastCode, lastToken>>

----------------------------------------------------------------------------
(* Requests without a session, and the end of an edit *)

\* POST /purchase-requests
CreateDirectly ==
  /\ lastCode < MaxCode
  /\ lastCode' = lastCode + 1
  /\ requests' = [requests EXCEPT ![lastCode + 1] =
       [from |-> "DIRECT", token |-> None, documents |-> NoDocuments]]
  /\ UNCHANGED <<drafts, printed, lastToken, running>>

\* updateWithDocuments, with the documents of an edit session
UpdateWithDocuments(s) ==
  /\ Open(s)
  /\ drafts[s].editing # None
  /\ requests' = [requests EXCEPT ![drafts[s].editing].documents = printed[s]]
  /\ UNCHANGED <<drafts, printed, lastCode, lastToken, running>>

\* The process stops, or the database refuses, between two steps.
Crash(p) ==
  /\ "crash" \in Mishaps
  /\ running[p] # Idle
  /\ GoOn(p, Idle)
  /\ UNCHANGED <<drafts, printed, requests, lastCode, lastToken>>

----------------------------------------------------------------------------

Begin(p) ==
  \/ BeginActiveSession(p)
  \/ \E c \in Codes : BeginEditSession(p, c)
  \/ \E s \in Sessions : BeginPrepare(p, s) \/ BeginSubmit(p, s)

Continue(p) ==
  \/ \E s \in Sessions : CreateActiveSession(p, s) \/ CreateEditSession(p, s)
  \/ CopyDocuments(p)
  \/ EnsureSessionRequestCode(p)
  \/ PrintDocuments(p)
  \/ SavePrepared(p)
  \/ FindCreated(p)
  \/ CreatePurchaseRequestRecord(p)
  \/ SaveSubmitted(p)
  \/ DropSession(p)

\* Handlers of one write.
AtOnce ==
  \/ \E s \in Sessions : DeleteActiveSession(s) \/ UpdateWithDocuments(s)
  \/ CreateDirectly

Next ==
  \/ \E p \in Procs :
       /\ Begin(p) \/ Continue(p)
       /\ orderly' = (orderly /\ \A q \in Procs \ {p} : running[q] = Idle)
  \/ /\ AtOnce
     /\ orderly' = (orderly /\ \A q \in Procs : running[q] = Idle)
  \/ /\ \E p \in Procs : Crash(p)
     /\ orderly' = FALSE

Spec == Init /\ [][Next]_vars

----------------------------------------------------------------------------
(* Properties *)

\* A session ends by being submitted only when there is a request made from it
\* with its documents, whatever overlapped or crashed on the way: nothing the
\* applicant handed in disappears.
SentIsSubmitted ==
  \A s \in Sessions : drafts[s].state = "SENT" =>
    \E c \in Codes : requests[c].from = s /\ requests[c].documents # NoDocuments

\* "Hujjatlar va yuborish uchun oldindan band qilingan ariza ID": the code is
\* reserved for the documents and for the submission, so a request has the code
\* its documents bear.
CodeMatchesDocuments ==
  \A c \in Codes : IsRequestCodeTaken(c) /\ requests[c].documents # NoDocuments =>
    requests[c].documents.code \in {None, c}

\* As long as handlers did not overlap and none stopped, a session makes one
\* request (findRequestCreatedFromSession is there for the other cases).
OneRequestPerSession ==
  orderly =>
    \A c, d \in Codes :
      requests[c].from \in Sessions /\ requests[c].from = requests[d].from => c = d

\* The same for the code: a request has the code its documents bear, whatever was
\* prepared again, edited, or created without a session in between.
CodeIsKept == orderly => CodeMatchesDocuments

----------------------------------------------------------------------------
(* What the code's own words promise and it does not keep *)

\* "Ko'pi bilan 10 ta faol seans bo'lishi mumkin": a user has at most so many
\* sessions.  The count is not part of the insert.
AtMostMaxSessions == Cardinality({s \in Sessions : Open(s)}) <= MaxSessions

\* "Ariza beruvchi QR orqali tekshirish tokeni": the QR code printed on the
\* documents of a request verifies the applicant (verifyApplicantByToken).
DocumentsVerify ==
  \A c \in Codes : IsRequestCodeTaken(c) /\ requests[c].documents # NoDocuments =>
    LET token == requests[c].documents.token
    IN  \/ token = None
        \/ \E d \in Codes : IsRequestCodeTaken(d) /\ requests[d].token = token
        \/ \E s \in Sessions : Open(s) /\ drafts[s].token = token

==============================================================================
