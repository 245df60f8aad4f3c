------------------------- MODULE DraftSessionsProofs -------------------------
(***************************************************************************)
(* Theorems about DraftSessions, for any sessions and any number of        *)
(* handlers of them.                                                       *)
(*                                                                         *)
(* That a session that was sent has its request with documents rests on    *)
(* whose a code and a token are: a code that is reserved, or a token that  *)
(* is drawn, for a session that edits nothing is held by that session      *)
(* alone, so the request found by either is its own (OwnInv).  That a      *)
(* session makes one request under the code it printed rests, besides, on  *)
(* one handler moving at a time (OrderlyInv).                              *)
(***************************************************************************)
EXTENDS DraftSessions, TLAPS

Working ==
  {"code", "print", "prepared", "find", "make", "finish", "attach", "drop"}

WorkJob ==
  [ stage : Working, session : Sessions, prepares : BOOLEAN, reserved : Code, token : Token,
    draws : BOOLEAN, files : Printed, target : Code ]
OpenJob == [stage : {"open"}, target : Codes, token : Token]
CopyJob == [stage : {"copy"}, target : Codes, session : Sessions]

Works(p) == running[p].stage \in Working

\* Session s edits no request, and reserved code c, or a handler of it holds c.
HoldsCode(s, c) ==
  /\ drafts[s].editing = None
  /\ drafts[s].reserved = c
       \/ \E p \in Procs : Works(p) /\ running[p].session = s /\ running[p].reserved = c

HoldsToken(s, t) ==
  /\ drafts[s].editing = None
  /\ drafts[s].token = t
       \/ \E p \in Procs : Works(p) /\ running[p].session = s /\ running[p].token = t

\* A code or a token is held by one session, and the request that has it came
\* from there.
CodesApart ==
  \A c \in Codes, s \in Sessions : HoldsCode(s, c) =>
    /\ \A r \in Sessions : HoldsCode(r, c) => r = s
    /\ IsRequestCodeTaken(c) => requests[c].from = s

TokensApart ==
  \A t \in Token \ {None}, s \in Sessions : HoldsToken(s, t) =>
    /\ \A r \in Sessions : HoldsToken(r, t) => r = s
    /\ \A c \in Codes : IsRequestCodeTaken(c) /\ requests[c].token = t => requests[c].from = s

\* Codes and tokens come from their sequences.
Drawn ==
  /\ \A c \in Codes : IsRequestCodeTaken(c) => c <= lastCode /\ requests[c].token <= lastToken
  /\ \A s \in Sessions : drafts[s].reserved <= lastCode /\ drafts[s].token <= lastToken

SessionsOK ==
  \A s \in Sessions :
    /\ drafts[s].state = "NEW" => drafts[s] = NewDraft
    /\ drafts[s].editing # None => /\ drafts[s].reserved = drafts[s].editing
                                   /\ IsRequestCodeTaken(drafts[s].editing)

HasDocuments(s) == \E c \in Codes : requests[c].from = s /\ requests[c].documents # NoDocuments

\* What a handler knows of the session and the request it works on.
JobOK(p) ==
  /\ running[p].stage = "open" =>
       IsRequestCodeTaken(running[p].target) /\ running[p].token <= lastToken
  /\ running[p].stage = "copy" =>
       /\ drafts[running[p].session].editing = running[p].target
       /\ drafts[running[p].session].state # "NEW"
  /\ Works(p) =>
       /\ drafts[running[p].session].state # "NEW"
       /\ running[p].reserved <= lastCode /\ running[p].token <= lastToken
       /\ ~running[p].prepares => drafts[running[p].session].editing = None
       /\ drafts[running[p].session].editing # None =>
            running[p].reserved = drafts[running[p].session].editing
       /\ running[p].stage \in {"print", "prepared"} =>
            running[p].prepares
       /\ running[p].stage \in {"find", "make", "finish", "attach", "drop"} =>
            ~running[p].prepares /\ running[p].reserved # None
       /\ running[p].stage \in {"finish", "attach"} =>
            /\ running[p].target \in Codes /\ IsRequestCodeTaken(running[p].target)
            /\ requests[running[p].target].from = running[p].session
       /\ running[p].stage = "drop" => HasDocuments(running[p].session)

OwnInv ==
  /\ TypeOK /\ SessionsOK /\ Drawn
  /\ \A p \in Procs : JobOK(p)
  /\ CodesApart /\ TokensApart
  /\ SentIsSubmitted

\* Nobody moves but p.
OnlyMoves(p) == \A q \in Procs : q # p => running[q] = Idle

\* Handler p made the request of session s and has not dropped s yet.
Hands(p, s) == Works(p) /\ running[p].session = s /\ running[p].stage \in {"finish", "drop"}

\* The documents of a session bear its code, once they are printed.
PrintedOK == \A s \in Sessions : printed[s].code \in {None, drafts[s].reserved}

\* A session that made a request is gone, or on its way.
MadeIsSent ==
  \A c \in Codes : requests[c].from \in Sessions =>
    \/ drafts[requests[c].from].state = "SENT"
    \/ \E p \in Procs : Hands(p, requests[c].from)

OneEach ==
  \A c, d \in Codes :
    requests[c].from \in Sessions /\ requests[c].from = requests[d].from => c = d

\* What a handler that works on a session knows of it, when it is alone.
WorkOK(p) == Works(p) =>
  /\ Open(running[p].session)
  /\ running[p].stage # "attach"
  /\ running[p].reserved = drafts[running[p].session].reserved
  /\ ~running[p].prepares => running[p].files.code \in {None, running[p].reserved}
  /\ running[p].stage = "finish" => running[p].target = running[p].reserved

OrderlyInv ==
  /\ \A p, q \in Procs : running[p] # Idle /\ running[q] # Idle => p = q
  /\ OneEach /\ MadeIsSent /\ PrintedOK /\ CodeMatchesDocuments
  /\ \A p \in Procs : WorkOK(p)

-----------------------------------------------------------------------------
LEMMA JobForms ==
  ASSUME NEW j \in Job
  PROVE  /\ j.stage \in Working => j \in WorkJob
         /\ j.stage = "open" => j \in OpenJob
         /\ j.stage = "copy" => j \in CopyJob
         /\ j.stage \in Working \cup {"idle", "start", "open", "copy"}
BY DEF Job, WorkJob, OpenJob, CopyJob, Working

LEMMA JobTypes == WorkJob \subseteq Job /\ OpenJob \subseteq Job /\ CopyJob \subseteq Job
BY DEF Job, WorkJob, OpenJob, CopyJob, Working

LEMMA IdleJob ==
  /\ Idle \in Job /\ [stage |-> "start"] \in Job
  /\ Idle.stage = "idle"
BY DEF Idle, Job

LEMMA RequestForms ==
  ASSUME NEW r \in Request \cup {NoRequest}, r # NoRequest
  PROVE  /\ r \in Request
         /\ r.from \in Sessions \cup {"DIRECT"} /\ r.token \in Token
BY DEF Request, NoRequest

LEMMA NoRequestApart == NoRequest \notin Request /\ NoRequest.from \notin Sessions
BY DraftAssumption DEF Request, NoRequest

LEMMA PrintedApart ==
  ASSUME NEW x \in Printed
  PROVE  x # NoDocuments
BY DEF Printed, NoDocuments

LEMMA Numbers ==
  /\ \A c \in Code : c \in Nat /\ c <= MaxCode
  /\ \A c \in Codes : c \in Code /\ c # None /\ c > 0
  /\ \A c \in Code : c # None => c \in Codes
  /\ \A t \in Token : t \in Nat /\ t <= MaxToken
  /\ MaxCode \in Nat /\ MaxToken \in Nat /\ None \in Code /\ None \in Token /\ None = 0
BY DraftAssumption DEF Code, Codes, None, Token

LEMMA OwnInit == Init => OwnInv
<1> SUFFICES ASSUME Init  PROVE OwnInv  OBVIOUS
<1>1. TypeOK
  BY IdleJob, Numbers DEF Init, TypeOK, NewDraft, Draft, Plain, Printed, NoRequest
<1>2. SessionsOK /\ Drawn
  BY Numbers DEF Init, SessionsOK, Drawn, NewDraft, IsRequestCodeTaken
<1>3. \A p \in Procs : JobOK(p) /\ ~Works(p)
  BY IdleJob DEF Init, JobOK, Works, Working, Idle
<1>4. CodesApart /\ TokensApart
  BY <1>3, Numbers DEF Init, CodesApart, TokensApart, HoldsCode, HoldsToken, NewDraft
<1>5. SentIsSubmitted
  BY DEF Init, SentIsSubmitted, NewDraft
<1> QED
  BY <1>1, <1>2, <1>3, <1>4, <1>5 DEF OwnInv

-----------------------------------------------------------------------------
(* What a step has to show.                                                *)

\* What is held was drawn.
LEMMA HeldIsDrawn ==
  ASSUME OwnInv, NEW s \in Sessions
  PROVE  /\ \A c \in Codes : HoldsCode(s, c) => c <= lastCode
         /\ \A t \in Token : HoldsToken(s, t) => t <= lastToken
BY DEF OwnInv, HoldsCode, HoldsToken, Drawn, JobOK

\* A code that a step gives to a session is one the session holds, or a new one,
\* and a new request has a new code, or one that its session holds.
LEMMA CodesStep ==
  ASSUME OwnInv, TypeOK', NEW s0,
         \A s \in Sessions : drafts'[s].editing = None =>
           /\ drafts[s].editing = None
           /\ drafts'[s].reserved \in Codes =>
                HoldsCode(s, drafts'[s].reserved) \/ (s = s0 /\ drafts'[s].reserved > lastCode),
         \A p \in Procs : Works(p)' =>
           LET s == running'[p].session
               c == running'[p].reserved
           IN  drafts[s].editing = None /\ c \in Codes =>
                 HoldsCode(s, c) \/ (s = s0 /\ c > lastCode),
         \A c \in Codes : IsRequestCodeTaken(c)' =>
           \/ IsRequestCodeTaken(c) /\ requests'[c].from = requests[c].from
           \/ requests'[c].from \in Sessions /\ HoldsCode(requests'[c].from, c)
           \/ c > lastCode /\ \A s \in Sessions : ~HoldsCode(s, c)'
  PROVE  CodesApart'
<1>1. \A s \in Sessions, c \in Codes : HoldsCode(s, c)' => HoldsCode(s, c) \/ (s = s0 /\ c > lastCode)
  <2> SUFFICES ASSUME NEW s \in Sessions, NEW c \in Codes, HoldsCode(s, c)'
               PROVE  HoldsCode(s, c) \/ (s = s0 /\ c > lastCode)
    OBVIOUS
  <2>1. drafts'[s].editing = None /\ drafts[s].editing = None
    BY DEF HoldsCode
  <2>2. CASE drafts'[s].reserved = c
    BY <2>1, <2>2
  <2>3. CASE \E p \in Procs : Works(p)' /\ running'[p].session = s /\ running'[p].reserved = c
    BY <2>1, <2>3
  <2> QED
    BY <2>2, <2>3 DEF HoldsCode
<1>2. \A c \in Codes, s \in Sessions : HoldsCode(s, c) => ~ (c > lastCode)
  <2>1. lastCode \in Nat /\ \A c \in Codes : c \in Nat
    BY Numbers DEF OwnInv, TypeOK
  <2> QED
    BY <2>1, HeldIsDrawn
<1>3. \A c \in Codes : IsRequestCodeTaken(c) => ~ (c > lastCode)
  <2>1. lastCode \in Nat /\ \A c \in Codes : c \in Nat
    BY Numbers DEF OwnInv, TypeOK
  <2>2. \A c \in Codes : IsRequestCodeTaken(c) => c <= lastCode
    BY DEF OwnInv, Drawn
  <2> QED
    BY <2>1, <2>2
<1>4. ASSUME NEW c \in Codes, NEW s \in Sessions, HoldsCode(s, c)'
      PROVE  /\ \A r \in Sessions : HoldsCode(r, c)' => r = s
             /\ IsRequestCodeTaken(c)' => requests'[c].from = s
  <2>1. CASE HoldsCode(s, c)
    <3>1. ~ (c > lastCode) /\ \A r \in Sessions : HoldsCode(r, c) => r = s
      BY <1>2, <2>1 DEF OwnInv, CodesApart
    <3>2. \A r \in Sessions : HoldsCode(r, c)' => r = s
      BY <1>1, <3>1
    <3>3. IsRequestCodeTaken(c) => requests[c].from = s
      BY <2>1 DEF OwnInv, CodesApart
    <3> QED
      BY <3>1, <3>2, <3>3
  <2>2. CASE ~HoldsCode(s, c)
    <3>1. s = s0 /\ c > lastCode
      BY <1>1, <1>4, <2>2
    <3>2. ~IsRequestCodeTaken(c) /\ \A r \in Sessions : ~HoldsCode(r, c)
      BY <1>2, <1>3, <3>1
    <3> QED
      BY <1>1, <1>4, <3>1, <3>2
  <2> QED
    BY <2>1, <2>2
<1> QED
  BY <1>4 DEF CodesApart

LEMMA TokensStep ==
  ASSUME OwnInv, TypeOK', NEW s0,
         \A s \in Sessions : drafts'[s].editing = None =>
           /\ drafts[s].editing = None
           /\ drafts'[s].token # None =>
                HoldsToken(s, drafts'[s].token) \/ (s = s0 /\ drafts'[s].token > lastToken),
         \A p \in Procs : Works(p)' =>
           LET s == running'[p].session
               t == running'[p].token
           IN  drafts[s].editing = None /\ t # None =>
                 HoldsToken(s, t) \/ (s = s0 /\ t > lastToken),
         \A c \in Codes : IsRequestCodeTaken(c)' /\ requests'[c].token # None =>
           \/ /\ IsRequestCodeTaken(c) /\ requests'[c].from = requests[c].from
              /\ requests'[c].token = requests[c].token
           \/ requests'[c].from \in Sessions /\ HoldsToken(requests'[c].from, requests'[c].token)
  PROVE  TokensApart'
<1> DEFINE T == Token \ {None}
<1>1. \A s \in Sessions, t \in T :
        HoldsToken(s, t)' => HoldsToken(s, t) \/ (s = s0 /\ t > lastToken)
  <2> SUFFICES ASSUME NEW s \in Sessions, NEW t \in T, HoldsToken(s, t)'
               PROVE  HoldsToken(s, t) \/ (s = s0 /\ t > lastToken)
    OBVIOUS
  <2>1. drafts'[s].editing = None /\ drafts[s].editing = None
    BY DEF HoldsToken
  <2>2. CASE drafts'[s].token = t
    BY <2>1, <2>2
  <2>3. CASE \E p \in Procs : Works(p)' /\ running'[p].session = s /\ running'[p].token = t
    BY <2>1, <2>3
  <2> QED
    BY <2>2, <2>3 DEF HoldsToken
<1>2. \A t \in T, s \in Sessions : HoldsToken(s, t) => ~ (t > lastToken)
  <2>1. lastToken \in Nat /\ \A t \in Token : t \in Nat
    BY Numbers DEF OwnInv, TypeOK
  <2> QED
    BY <2>1, HeldIsDrawn
<1>3. \A t \in T, c \in Codes : IsRequestCodeTaken(c) /\ requests[c].token = t => ~ (t > lastToken)
  <2>1. lastToken \in Nat /\ \A t \in Token : t \in Nat
    BY Numbers DEF OwnInv, TypeOK
  <2>2. \A c \in Codes : IsRequestCodeTaken(c) => requests[c].token <= lastToken
    BY DEF OwnInv, Drawn
  <2> QED
    BY <2>1, <2>2
<1>4. ASSUME NEW t \in T, NEW s \in Sessions, HoldsToken(s, t)'
      PROVE  /\ \A r \in Sessions : HoldsToken(r, t)' => r = s
             /\ \A c \in Codes :
                  IsRequestCodeTaken(c)' /\ requests'[c].token = t => requests'[c].from = s
  <2>1. CASE HoldsToken(s, t)
    <3>1. ~ (t > lastToken) /\ \A r \in Sessions : HoldsToken(r, t) => r = s
      BY <1>2, <2>1 DEF OwnInv, TokensApart
    <3>2. \A r \in Sessions : HoldsToken(r, t)' => r = s
      BY <1>1, <3>1
    <3>3. \A c \in Codes : IsRequestCodeTaken(c) /\ requests[c].token = t => requests[c].from = s
      BY <2>1 DEF OwnInv, TokensApart
    <3>4. ASSUME NEW c \in Codes, IsRequestCodeTaken(c)', requests'[c].token = t
          PROVE  requests'[c].from = s
      <4>1. \/ /\ IsRequestCodeTaken(c) /\ requests'[c].from = requests[c].from
               /\ t = requests[c].token
            \/ requests'[c].from \in Sessions /\ HoldsToken(requests'[c].from, t)
        BY <3>4
      <4> QED
        BY <3>1, <3>3, <4>1
    <3> QED
      BY <3>2, <3>4
  <2>2. CASE ~HoldsToken(s, t)
    <3>1. s = s0 /\ t > lastToken
      BY <1>1, <1>4, <2>2
    <3>2. \A r \in Sessions : ~HoldsToken(r, t)
      BY <1>2, <3>1
    <3>3. \A c \in Codes : ~ (IsRequestCodeTaken(c) /\ requests[c].token = t)
      BY <1>3, <3>1
    <3>4. \A c \in Codes : ~ (IsRequestCodeTaken(c)' /\ requests'[c].token = t)
      BY <3>2, <3>3
    <3> QED
      BY <1>1, <3>1, <3>2, <3>4
  <2> QED
    BY <2>1, <2>2
<1> QED
  BY <1>4 DEF TokensApart

\* What a step never takes back.
Grows ==
  /\ \A c \in Codes : IsRequestCodeTaken(c) =>
       /\ IsRequestCodeTaken(c)' /\ requests'[c].from = requests[c].from
       /\ requests[c].documents # NoDocuments => requests'[c].documents # NoDocuments
  /\ lastCode <= lastCode' /\ lastToken <= lastToken'
  /\ \A s \in Sessions : drafts[s].state # "NEW" =>
       drafts'[s].state # "NEW" /\ drafts'[s].editing = drafts[s].editing

LEMMA DocumentsStay ==
  ASSUME OwnInv, Grows, NEW s \in Sessions, HasDocuments(s)
  PROVE  HasDocuments(s)'
<1>1. PICK c \in Codes : requests[c].from = s /\ requests[c].documents # NoDocuments
  BY DEF HasDocuments
<1>2. IsRequestCodeTaken(c)
  BY <1>1, NoRequestApart DEF IsRequestCodeTaken
<1> QED
  BY <1>1, <1>2 DEF Grows, HasDocuments

\* A handler that did nothing knows what it knew.
LEMMA OthersStay ==
  ASSUME OwnInv, TypeOK', Grows, NEW p \in Procs, running'[p] = running[p]
  PROVE  JobOK(p)'
<1>1. JobOK(p) /\ running[p] \in Job
  BY DEF OwnInv, TypeOK
<1>2. lastCode \in Nat /\ lastCode' \in Nat /\ lastToken \in Nat /\ lastToken' \in Nat
  BY Numbers DEF OwnInv, TypeOK
<1>3. CASE running[p].stage = "open"
  <2>1. running[p] \in OpenJob
    BY <1>1, <1>3, JobForms
  <2>2. running[p].target \in Codes /\ running[p].token \in Nat
    BY <2>1, Numbers DEF OpenJob
  <2> QED
    BY <1>1, <1>2, <1>3, <2>2 DEF JobOK, Works, Working, Grows
<1>4. CASE running[p].stage = "copy"
  <2>1. running[p] \in CopyJob
    BY <1>1, <1>4, JobForms
  <2> QED
    BY <1>1, <1>4, <2>1 DEF JobOK, Works, Working, Grows, CopyJob
<1>5. CASE Works(p)
  <2>1. running[p] \in WorkJob
    BY <1>1, <1>5, JobForms DEF Works
  <2>2. /\ running[p].session \in Sessions /\ running[p].reserved \in Nat
        /\ running[p].token \in Nat
    BY <2>1, Numbers DEF WorkJob
  <2>3. ASSUME HasDocuments(running[p].session)
        PROVE  \E c \in Codes : /\ requests'[c].from = running[p].session
                                /\ requests'[c].documents # NoDocuments
    <3>1. PICK s \in Sessions : s = running[p].session
      BY <2>2
    <3>2. HasDocuments(s)'
      BY <2>3, <3>1, DocumentsStay
    <3> QED
      BY <3>1, <3>2 DEF HasDocuments
  <2>4. running[p].stage \notin {"open", "copy"}
    BY <1>5 DEF Works, Working
  <2>5. /\ drafts'[running[p].session].state # "NEW"
        /\ drafts'[running[p].session].editing = drafts[running[p].session].editing
        /\ running[p].reserved <= lastCode' /\ running[p].token <= lastToken'
    BY <1>1, <1>2, <1>5, <2>2 DEF JobOK, Grows
  <2>6. running[p].stage \in {"finish", "attach"} =>
          /\ running[p].target \in Codes /\ IsRequestCodeTaken(running[p].target)'
          /\ requests'[running[p].target].from = running[p].session
    BY <1>1, <1>5 DEF JobOK, Grows
  <2>7. running[p].stage = "drop" => HasDocuments(running[p].session)'
    <3>1. running[p].stage = "drop" => HasDocuments(running[p].session)
      BY <1>1, <1>5 DEF JobOK
    <3> QED
      BY <2>3, <3>1 DEF HasDocuments
  <2> QED
    BY <1>1, <1>5, <2>4, <2>5, <2>6, <2>7 DEF JobOK, Works
<1> QED
  BY <1>1, <1>3, <1>4, <1>5 DEF JobOK, Works

\* What session s may be given by a step of session s0.
MayHold(s, c, t, s0) ==
  /\ c \in Codes => HoldsCode(s, c) \/ (s = s0 /\ c > lastCode)
  /\ t # None => HoldsToken(s, t) \/ (s = s0 /\ t > lastToken)

\* What a step may make of the request with code c.
MayBe(c) ==
  /\ IsRequestCodeTaken(c)' =>
       \/ IsRequestCodeTaken(c) /\ requests'[c].from = requests[c].from
       \/ requests'[c].from \in Sessions /\ HoldsCode(requests'[c].from, c)
       \/ c > lastCode /\ \A s \in Sessions : ~HoldsCode(s, c)'
  /\ IsRequestCodeTaken(c)' /\ requests'[c].token # None =>
       \/ /\ IsRequestCodeTaken(c) /\ requests'[c].from = requests[c].from
          /\ requests'[c].token = requests[c].token
       \/ requests'[c].from \in Sessions /\ HoldsToken(requests'[c].from, requests'[c].token)

LEMMA OwnStep ==
  ASSUME OwnInv, TypeOK', Grows, SessionsOK', Drawn', NEW s0,
         \A s \in Sessions : drafts'[s].editing = None =>
           /\ drafts[s].editing = None
           /\ MayHold(s, drafts'[s].reserved, drafts'[s].token, s0),
         \A p \in Procs :
           \/ running'[p] = running[p]
           \/ /\ JobOK(p)'
              /\ Works(p)' /\ drafts[running'[p].session].editing = None =>
                   MayHold(running'[p].session, running'[p].reserved, running'[p].token, s0),
         \A c \in Codes : MayBe(c),
         \A s \in Sessions : drafts'[s].state = "SENT" =>
           drafts[s].state = "SENT" \/ HasDocuments(s)
  PROVE  OwnInv'
<1>1. \A p \in Procs : JobOK(p)'
  BY OthersStay
<1>2. ASSUME NEW p \in Procs, Works(p)', drafts[running'[p].session].editing = None
      PROVE  MayHold(running'[p].session, running'[p].reserved, running'[p].token, s0)
  <2>1. CASE running'[p] = running[p]
    <3>1. Works(p)
      BY <1>2, <2>1 DEF Works
    <3>2. HoldsCode(running[p].session, running[p].reserved)
      BY <1>2, <2>1, <3>1 DEF HoldsCode
    <3>3. HoldsToken(running[p].session, running[p].token)
      BY <1>2, <2>1, <3>1 DEF HoldsToken
    <3> QED
      BY <2>1, <3>2, <3>3 DEF MayHold
  <2>2. CASE running'[p] # running[p]
    BY <1>2, <2>2
  <2> QED
    BY <2>1, <2>2
<1>3. CodesApart'
  <2>1. \A s \in Sessions : drafts'[s].editing = None =>
          /\ drafts[s].editing = None
          /\ drafts'[s].reserved \in Codes =>
               HoldsCode(s, drafts'[s].reserved) \/ (s = s0 /\ drafts'[s].reserved > lastCode)
    BY DEF MayHold
  <2>2. \A p \in Procs : Works(p)' =>
          LET s == running'[p].session
              c == running'[p].reserved
          IN  drafts[s].editing = None /\ c \in Codes =>
                HoldsCode(s, c) \/ (s = s0 /\ c > lastCode)
    BY <1>2 DEF MayHold
  <2>3. \A c \in Codes : IsRequestCodeTaken(c)' =>
          \/ IsRequestCodeTaken(c) /\ requests'[c].from = requests[c].from
          \/ requests'[c].from \in Sessions /\ HoldsCode(requests'[c].from, c)
          \/ c > lastCode /\ \A s \in Sessions : ~HoldsCode(s, c)'
    BY DEF MayBe
  <2> QED
    BY <2>1, <2>2, <2>3, CodesStep
<1>4. TokensApart'
  <2>1. \A s \in Sessions : drafts'[s].editing = None =>
          /\ drafts[s].editing = None
          /\ drafts'[s].token # None =>
               HoldsToken(s, drafts'[s].token) \/ (s = s0 /\ drafts'[s].token > lastToken)
    BY DEF MayHold
  <2>2. \A p \in Procs : Works(p)' =>
          LET s == running'[p].session
              t == running'[p].token
          IN  drafts[s].editing = None /\ t # None =>
                HoldsToken(s, t) \/ (s = s0 /\ t > lastToken)
    BY <1>2 DEF MayHold
  <2>3. \A c \in Codes : IsRequestCodeTaken(c)' /\ requests'[c].token # None =>
          \/ /\ IsRequestCodeTaken(c) /\ requests'[c].from = requests[c].from
             /\ requests'[c].token = requests[c].token
          \/ /\ requests'[c].from \in Sessions
             /\ HoldsToken(requests'[c].from, requests'[c].token)
    BY DEF MayBe
  <2> QED
    BY <2>1, <2>2, <2>3, TokensStep
<1>5. SentIsSubmitted'
  <2> SUFFICES ASSUME NEW s \in Sessions, drafts'[s].state = "SENT"
               PROVE  \E c \in Codes : /\ requests'[c].from = s
                                       /\ requests'[c].documents # NoDocuments
    BY DEF SentIsSubmitted
  <2>1. HasDocuments(s)
    BY DEF OwnInv, SentIsSubmitted, HasDocuments
  <2>2. HasDocuments(s)'
    BY <2>1, DocumentsStay
  <2> QED
    BY <2>2 DEF HasDocuments
<1> QED
  BY <1>1, <1>3, <1>4, <1>5 DEF OwnInv

\* Nothing changes for whom nothing is changed.
LEMMA SameSession ==
  ASSUME OwnInv, NEW s \in Sessions, NEW s0, drafts[s].editing = None
  PROVE  MayHold(s, drafts[s].reserved, drafts[s].token, s0)
BY DEF MayHold, HoldsCode, HoldsToken

LEMMA SameRequest ==
  ASSUME NEW c \in Codes, requests'[c] = requests[c]
  PROVE  MayBe(c)
BY DEF MayBe, IsRequestCodeTaken

\* What a handler holds it may go on holding.
LEMMA SameJob ==
  ASSUME OwnInv, NEW p \in Procs, Works(p), NEW s0,
         drafts[running[p].session].editing = None
  PROVE  MayHold(running[p].session, running[p].reserved, running[p].token, s0)
<1>1. HoldsCode(running[p].session, running[p].reserved)
  BY DEF HoldsCode
<1>2. HoldsToken(running[p].session, running[p].token)
  BY DEF HoldsToken
<1> QED
  BY <1>1, <1>2 DEF MayHold

\* Steps that write nothing but what a handler knows.
LEMMA QuietStep ==
  ASSUME OwnInv, NEW p \in Procs, NEW job \in Job, GoOn(p, job),
         UNCHANGED <<drafts, requests, lastCode, lastToken>>,
         printed' \in [Sessions -> Printed], orderly' \in BOOLEAN,
         JobOK(p)', NEW s0,
         job.stage \in Working /\ drafts[job.session].editing = None =>
           MayHold(job.session, job.reserved, job.token, s0)
  PROVE  OwnInv'
<1>1. running \in [Procs -> Job]
  BY DEF OwnInv, TypeOK
<1>2. running' \in [Procs -> Job] /\ running'[p] = job
      /\ \A q \in Procs : q # p => running'[q] = running[q]
  BY <1>1 DEF GoOn
<1>3. TypeOK'
  BY <1>2 DEF OwnInv, TypeOK
<1>4. SessionsOK' /\ Drawn'
  BY DEF OwnInv, SessionsOK, Drawn, IsRequestCodeTaken
<1>5. Grows
  <2>1. lastCode \in Nat /\ lastToken \in Nat
    BY Numbers DEF OwnInv, TypeOK
  <2> QED
    BY <2>1 DEF Grows, IsRequestCodeTaken
<1>6. \A s \in Sessions : drafts'[s].editing = None =>
        /\ drafts[s].editing = None
        /\ MayHold(s, drafts'[s].reserved, drafts'[s].token, s0)
  BY SameSession
<1>7. \A q \in Procs :
        \/ running'[q] = running[q]
        \/ /\ JobOK(q)'
           /\ Works(q)' /\ drafts[running'[q].session].editing = None =>
                MayHold(running'[q].session, running'[q].reserved, running'[q].token, s0)
  BY <1>2 DEF Works
<1>8. \A c \in Codes : MayBe(c)
  BY SameRequest
<1> QED
  BY <1>3, <1>4, <1>5, <1>6, <1>7, <1>8, OwnStep

\* A handler that ends.
LEMMA IdleOK ==
  ASSUME NEW p \in Procs, running'[p].stage \in {"idle", "start"}
  PROVE  JobOK(p)' /\ ~Works(p)'
BY DEF JobOK, Works, Working

-----------------------------------------------------------------------------
(* One lemma for each step. *)

\* A handler that ends, or has not begun to work, knows nothing.
LEMMA RestingStep ==
  ASSUME OwnInv, NEW p \in Procs, NEW job \in {Idle, [stage |-> "start"]}, GoOn(p, job),
         UNCHANGED <<drafts, requests, lastCode, lastToken>>,
         printed' \in [Sessions -> Printed], orderly' \in BOOLEAN
  PROVE  OwnInv'
<1>1. job \in Job /\ job.stage \in {"idle", "start"}
  BY IdleJob
<1>2. running'[p] = job
  BY DEF GoOn, OwnInv, TypeOK
<1>3. JobOK(p)'
  BY <1>1, <1>2, IdleOK
<1>4. job.stage \notin Working
  BY <1>1 DEF Working
<1> QED
  BY <1>1, <1>3, <1>4, QuietStep

LEMMA BeginActiveOwn ==
  ASSUME OwnInv, NEW p \in Procs, orderly' \in BOOLEAN, BeginActiveSession(p)
  PROVE  OwnInv'
BY RestingStep DEF BeginActiveSession, OwnInv, TypeOK

LEMMA CrashOwn ==
  ASSUME OwnInv, NEW p \in Procs, orderly' \in BOOLEAN, Crash(p)
  PROVE  OwnInv'
BY RestingStep DEF Crash, OwnInv, TypeOK

LEMMA BeginEditOwn ==
  ASSUME OwnInv, NEW p \in Procs, NEW c \in Codes, orderly' \in BOOLEAN, BeginEditSession(p, c)
  PROVE  OwnInv'
<1> DEFINE job == [stage |-> "open", target |-> c, token |-> requests[c].token]
<1>1. IsRequestCodeTaken(c) /\ requests[c].token \in Token /\ requests[c].token <= lastToken
  BY RequestForms DEF BeginEditSession, IsRequestCodeTaken, OwnInv, TypeOK, Drawn
<1>2. job \in Job /\ job.stage = "open" /\ job.target = c /\ job.token = requests[c].token
  BY <1>1, JobTypes DEF OpenJob
<1>3. /\ GoOn(p, job) /\ UNCHANGED <<drafts, printed, requests, lastCode, lastToken>>
  BY DEF BeginEditSession
<1> HIDE DEF job
<1>4. running'[p] = job
  BY <1>3 DEF GoOn, OwnInv, TypeOK
<1>5. JobOK(p)'
  BY <1>1, <1>2, <1>3, <1>4 DEF JobOK, Works, Working, IsRequestCodeTaken
<1>6. job.stage \notin Working /\ printed' \in [Sessions -> Printed]
  BY <1>2, <1>3 DEF Working, OwnInv, TypeOK
<1> QED
  BY <1>2, <1>3, <1>5, <1>6, QuietStep

LEMMA CopyOwn ==
  ASSUME OwnInv, NEW p \in Procs, orderly' \in BOOLEAN, CopyDocuments(p)
  PROVE  OwnInv'
<1> DEFINE job == running[p]
           documents == requests[job.target].documents
<1>1. job \in CopyJob /\ JobOK(p) /\ job.stage = "copy"
  BY JobForms DEF CopyDocuments, OwnInv, TypeOK
<1>2. job.target \in Codes /\ job.session \in Sessions
  BY <1>1 DEF CopyJob
<1>3. IsRequestCodeTaken(job.target)
  BY <1>1, <1>2, Numbers DEF JobOK, OwnInv, SessionsOK
<1>4. documents \in Printed \cup {NoDocuments}
  BY <1>2, <1>3, RequestForms DEF IsRequestCodeTaken, OwnInv, TypeOK, Request
<1>5. [code |-> job.target, token |-> drafts[job.session].token] \in Printed
  BY <1>2, Numbers DEF Printed, OwnInv, TypeOK, Draft
<1>6. printed' \in [Sessions -> Printed]
  BY <1>2, <1>4, <1>5 DEF CopyDocuments, OwnInv, TypeOK
<1> QED
  BY <1>6, RestingStep DEF CopyDocuments

\* A handler that loads a session of its own holds what the session has.
LEMMA LoadOwn ==
  ASSUME OwnInv, NEW p \in Procs, NEW s \in Sessions, NEW prepares \in BOOLEAN,
         orderly' \in BOOLEAN, Open(s), ~prepares => drafts[s].editing = None,
         GoOn(p, Loaded(s, prepares)),
         UNCHANGED <<drafts, printed, requests, lastCode, lastToken>>
  PROVE  OwnInv'
<1> DEFINE job == Loaded(s, prepares)
<1>1. /\ job \in WorkJob /\ job.stage = "code" /\ job.session = s /\ job.prepares = prepares
      /\ job.reserved = drafts[s].reserved /\ job.token = drafts[s].token
  BY Numbers DEF Loaded, WorkJob, Working, OwnInv, TypeOK, Draft
<1> HIDE DEF job
<1>2. running'[p] = job
  BY DEF GoOn, OwnInv, TypeOK, job
<1>3. /\ drafts[s].state # "NEW" /\ drafts[s].reserved <= lastCode /\ drafts[s].token <= lastToken
      /\ drafts[s].editing # None => drafts[s].reserved = drafts[s].editing
  BY DEF Open, OwnInv, Drawn, SessionsOK
<1>4. JobOK(p)'
  <2>1. ~job.prepares => drafts[s].editing = None
    BY <1>1, Zenon
  <2>2. job.stage \in Working /\ job.stage \notin {"open", "copy", "print", "prepared", "find",
                                                 "make", "finish", "attach", "drop"}
    BY <1>1 DEF Working
  <2>3. job.session = s /\ job.reserved = drafts[s].reserved /\ job.token = drafts[s].token
    BY <1>1
  <2> QED
    BY <1>2, <1>3, <2>1, <2>2, <2>3 DEF JobOK, Works
<1>5. drafts[s].editing = None => MayHold(job.session, job.reserved, job.token, s)
  BY <1>1, SameSession
<1>6. job \in Job /\ printed' \in [Sessions -> Printed] /\ GoOn(p, job)
  BY <1>1, JobTypes DEF OwnInv, TypeOK, job
<1> QED
  BY <1>1, <1>4, <1>5, <1>6, QuietStep

LEMMA BeginWorkOwn ==
  ASSUME OwnInv, NEW p \in Procs, NEW s \in Sessions, orderly' \in BOOLEAN,
         BeginPrepare(p, s) \/ BeginSubmit(p, s)
  PROVE  OwnInv'
<1>1. CASE BeginPrepare(p, s)
  BY <1>1, LoadOwn DEF BeginPrepare
<1>2. CASE BeginSubmit(p, s)
  BY <1>2, LoadOwn DEF BeginSubmit
<1> QED
  BY <1>1, <1>2

\* The request that is found by a token or a code is one of the session.
LEMMA FoundIsOwn ==
  ASSUME OwnInv, NEW p \in Procs, running[p].stage = "find", NEW c \in CreatedFrom(running[p])
  PROVE  c \in Codes /\ IsRequestCodeTaken(c) /\ requests[c].from = running[p].session
<1> DEFINE job == running[p]
           byToken == {d \in Codes : /\ job.token # None
                                     /\ IsRequestCodeTaken(d)
                                     /\ requests[d].token = job.token}
<1>1. Works(p) /\ JobOK(p) /\ job \in WorkJob
  BY JobForms DEF Works, Working, OwnInv, TypeOK
<1>2. job.session \in Sessions /\ job.token \in Token /\ job.reserved \in Codes
  BY <1>1, Numbers DEF WorkJob, JobOK
<1>3. drafts[job.session].editing = None
  BY <1>1 DEF JobOK
<1>4. HoldsCode(job.session, job.reserved) /\ HoldsToken(job.session, job.token)
  BY <1>1, <1>3 DEF HoldsCode, HoldsToken
<1>5. c \in byToken \/ (c = job.reserved /\ IsRequestCodeTaken(c))
  BY DEF CreatedFrom
<1>6. CASE c \in byToken
  BY <1>2, <1>4, <1>6 DEF OwnInv, TokensApart
<1>7. CASE c = job.reserved /\ IsRequestCodeTaken(c)
  BY <1>2, <1>4, <1>7 DEF OwnInv, CodesApart
<1> QED
  BY <1>5, <1>6, <1>7

LEMMA FindOwn ==
  ASSUME OwnInv, NEW p \in Procs, orderly' \in BOOLEAN, FindCreated(p)
  PROVE  OwnInv'
<1> DEFINE old == running[p]
<1>1. Works(p) /\ JobOK(p) /\ old \in WorkJob /\ old.stage = "find"
  BY JobForms DEF FindCreated, Works, Working, OwnInv, TypeOK
<1>2. UNCHANGED <<drafts, printed, requests, lastCode, lastToken>>
  BY DEF FindCreated
<1>3. \A job \in WorkJob :
        /\ job.session = old.session /\ job.reserved = old.reserved /\ job.token = old.token
        /\ job.prepares = old.prepares
        /\ job.stage \in {"make", "attach", "drop"}
        /\ job.stage = "attach" => /\ job.target \in Codes /\ IsRequestCodeTaken(job.target)
                                   /\ requests[job.target].from = job.session
        /\ job.stage = "drop" => HasDocuments(job.session)
        /\ GoOn(p, job)
        => OwnInv'
  <2> SUFFICES ASSUME NEW job \in WorkJob,
                 job.session = old.session, job.reserved = old.reserved, job.token = old.token,
                 job.prepares = old.prepares,
                 job.stage \in {"make", "attach", "drop"},
                 job.stage = "attach" => /\ job.target \in Codes /\ IsRequestCodeTaken(job.target)
                                         /\ requests[job.target].from = job.session,
                 job.stage = "drop" => HasDocuments(job.session),
                 GoOn(p, job)
               PROVE  OwnInv'
    OBVIOUS
  <2>1. running'[p] = job
    BY DEF GoOn, OwnInv, TypeOK
  <2>2. job.stage = "drop" => HasDocuments(running[p].session)'
    BY <1>2, <2>1 DEF HasDocuments
  <2>3. JobOK(p)'
    <3>1. job.stage \notin {"open", "copy", "print", "prepared"}
      OBVIOUS
    <3>2. /\ drafts[old.session].state # "NEW"
          /\ old.reserved <= lastCode /\ old.token <= lastToken
          /\ ~old.prepares /\ old.reserved # None
          /\ drafts[old.session].editing = None
      BY <1>1 DEF JobOK
    <3>3. job.stage \in {"finish", "attach"} =>
            /\ job.target \in Codes /\ IsRequestCodeTaken(job.target)
            /\ requests[job.target].from = job.session
      OBVIOUS
    <3> HIDE DEF old
    <3> QED
      BY <1>2, <2>1, <2>2, <3>1, <3>2, <3>3 DEF JobOK, IsRequestCodeTaken
  <2>4. drafts[job.session].editing = None => MayHold(job.session, job.reserved, job.token, job)
    BY <1>1, SameJob
  <2>5. job \in Job /\ printed' \in [Sessions -> Printed]
    BY <1>2, JobTypes DEF OwnInv, TypeOK
  <2> QED
    BY <1>2, <2>3, <2>4, <2>5, QuietStep
<1>4. CASE GoOn(p, [old EXCEPT !.stage = "make"])
  <2> DEFINE job == [old EXCEPT !.stage = "make"]
  <2>1. /\ job \in WorkJob /\ job.stage = "make" /\ job.session = old.session
        /\ job.reserved = old.reserved /\ job.token = old.token /\ job.prepares = old.prepares
    BY <1>1 DEF WorkJob, Working
  <2> HIDE DEF job
  <2>2. GoOn(p, job)
    BY <1>4 DEF job
  <2> QED
    BY <1>3, <2>1, <2>2
<1>5. ASSUME NEW c \in CreatedFrom(old),
             GoOn(p, [old EXCEPT !.target = c,
                        !.stage = IF requests[c].documents = NoDocuments
                                  THEN "attach" ELSE "drop"])
      PROVE  OwnInv'
  <2> DEFINE stage == IF requests[c].documents = NoDocuments THEN "attach" ELSE "drop"
             job == [old EXCEPT !.target = c, !.stage = stage]
  <2>1. c \in Codes /\ c \in Code /\ IsRequestCodeTaken(c) /\ requests[c].from = old.session
    BY <1>1, FoundIsOwn, Numbers
  <2>2. /\ job \in WorkJob /\ job.stage = stage /\ job.session = old.session
        /\ job.reserved = old.reserved /\ job.token = old.token /\ job.prepares = old.prepares
        /\ job.target = c
    BY <1>1, <2>1 DEF WorkJob, Working
  <2>3. GoOn(p, job)
    BY <1>5
  <2> HIDE DEF job
  <2>4. job.stage = "drop" => HasDocuments(job.session)
    BY <2>1, <2>2 DEF HasDocuments
  <2> QED
    BY <1>3, <2>1, <2>2, <2>3, <2>4
<1> QED
  BY <1>4, <1>5 DEF FindCreated

-----------------------------------------------------------------------------
(* Steps that write a session. *)

LEMMA DraftsStep ==
  ASSUME OwnInv, NEW s \in Sessions, NEW d \in Draft, drafts' = [drafts EXCEPT ![s] = d],
         UNCHANGED requests, printed' \in [Sessions -> Printed], orderly' \in BOOLEAN,
         running' \in [Procs -> Job],
         lastCode' \in Code, lastToken' \in Token, lastCode <= lastCode', lastToken <= lastToken',
         d.state # "NEW",
         d.editing = drafts[s].editing \/ drafts[s].state = "NEW",
         d.editing # None => d.reserved = d.editing /\ IsRequestCodeTaken(d.editing),
         d.reserved <= lastCode', d.token <= lastToken',
         d.editing = None => MayHold(s, d.reserved, d.token, s),
         d.state = "SENT" => drafts[s].state = "SENT" \/ HasDocuments(s),
         \A p \in Procs :
           \/ running'[p] = running[p]
           \/ /\ JobOK(p)'
              /\ Works(p)' /\ drafts[running'[p].session].editing = None =>
                   MayHold(running'[p].session, running'[p].reserved, running'[p].token, s)
  PROVE  OwnInv'
<1>1. /\ drafts \in [Sessions -> Draft] /\ drafts' \in [Sessions -> Draft] /\ drafts'[s] = d
      /\ \A r \in Sessions : r # s => drafts'[r] = drafts[r]
  BY DEF OwnInv, TypeOK
<1>2. TypeOK'
  BY <1>1 DEF OwnInv, TypeOK
<1>3. SessionsOK'
  BY <1>1 DEF OwnInv, SessionsOK, IsRequestCodeTaken
<1>4. /\ lastCode \in Nat /\ lastCode' \in Nat /\ lastToken \in Nat /\ lastToken' \in Nat
      /\ \A c \in Codes : c \in Nat
      /\ \A c \in Codes : IsRequestCodeTaken(c) => requests[c].token \in Nat
      /\ \A r \in Sessions : drafts[r].reserved \in Nat /\ drafts[r].token \in Nat
  BY Numbers, RequestForms DEF OwnInv, TypeOK, IsRequestCodeTaken, Draft
<1>5. Drawn'
  <2>1. \A c \in Codes : IsRequestCodeTaken(c) => c <= lastCode' /\ requests[c].token <= lastToken'
    BY <1>4 DEF OwnInv, Drawn
  <2>2. \A r \in Sessions : r # s => /\ drafts[r].reserved <= lastCode'
                                    /\ drafts[r].token <= lastToken'
    BY <1>4 DEF OwnInv, Drawn
  <2> QED
    BY <1>1, <2>1, <2>2 DEF Drawn, IsRequestCodeTaken
<1>6. Grows
  BY <1>1 DEF Grows, IsRequestCodeTaken
<1>7. \A r \in Sessions : drafts'[r].editing = None =>
        /\ drafts[r].editing = None
        /\ MayHold(r, drafts'[r].reserved, drafts'[r].token, s)
  <2>1. drafts[s].state = "NEW" => drafts[s].editing = None
    BY DEF OwnInv, SessionsOK, NewDraft
  <2> QED
    BY <1>1, <2>1, SameSession
<1>8. \A c \in Codes : MayBe(c)
  BY SameRequest
<1>9. \A r \in Sessions : drafts'[r].state = "SENT" => drafts[r].state = "SENT" \/ HasDocuments(r)
  BY <1>1
<1> QED
  BY <1>2, <1>3, <1>5, <1>6, <1>7, <1>8, <1>9, OwnStep

\* The same for a handler that ends with the step.
LEMMA LastDraftStep ==
  ASSUME OwnInv, NEW p \in Procs, NEW s \in Sessions, NEW d \in Draft, GoOn(p, Idle),
         drafts' = [drafts EXCEPT ![s] = d],
         UNCHANGED <<printed, requests>>, orderly' \in BOOLEAN,
         lastCode' \in Code, lastToken' \in Token, lastCode <= lastCode', lastToken <= lastToken',
         d.state # "NEW",
         d.editing = drafts[s].editing,
         d.editing # None => d.reserved = d.editing,
         d.reserved <= lastCode', d.token <= lastToken',
         d.editing = None => MayHold(s, d.reserved, d.token, s),
         d.state = "SENT" => drafts[s].state = "SENT" \/ HasDocuments(s)
  PROVE  OwnInv'
<1>1. running \in [Procs -> Job] /\ printed' \in [Sessions -> Printed]
  BY DEF OwnInv, TypeOK
<1>2. /\ running' \in [Procs -> Job] /\ running'[p] = Idle
      /\ \A q \in Procs : q # p => running'[q] = running[q]
  BY <1>1, IdleJob DEF GoOn
<1>3. JobOK(p)' /\ ~Works(p)'
  BY <1>2, IdleJob, IdleOK
<1>4. \A q \in Procs :
        \/ running'[q] = running[q]
        \/ /\ JobOK(q)'
           /\ Works(q)' /\ drafts[running'[q].session].editing = None =>
                MayHold(running'[q].session, running'[q].reserved, running'[q].token, s)
  BY <1>2, <1>3
<1>5. d.editing # None => IsRequestCodeTaken(d.editing)
  BY DEF OwnInv, SessionsOK
<1> QED
  BY <1>1, <1>2, <1>4, <1>5, DraftsStep

LEMMA CreateActiveOwn ==
  ASSUME OwnInv, NEW p \in Procs, NEW s \in Sessions, orderly' \in BOOLEAN,
         CreateActiveSession(p, s)
  PROVE  OwnInv'
<1> DEFINE d == [drafts[s] EXCEPT !.state = "OPEN"]
<1>1. /\ drafts[s] = NewDraft /\ drafts[s] \in Draft
  BY DEF CreateActiveSession, OwnInv, SessionsOK, TypeOK
<1>2. /\ d \in Draft /\ d.state = "OPEN" /\ d.editing = None /\ d.reserved = None
      /\ d.token = None /\ drafts[s].editing = None
  BY <1>1 DEF Draft, NewDraft
<1>3. /\ drafts' = [drafts EXCEPT ![s] = d] /\ GoOn(p, Idle)
      /\ UNCHANGED <<printed, requests, lastCode, lastToken>>
  BY DEF CreateActiveSession
<1> HIDE DEF d
<1>4. /\ lastCode \in Code /\ lastToken \in Token /\ 0 <= lastCode /\ 0 <= lastToken
      /\ lastCode <= lastCode /\ lastToken <= lastToken
  BY Numbers DEF OwnInv, TypeOK
<1>5. MayHold(s, None, None, s)
  BY Numbers DEF MayHold
<1> QED
  BY <1>2, <1>3, <1>4, <1>5, Numbers, LastDraftStep

LEMMA DeleteActiveOwn ==
  ASSUME OwnInv, NEW s \in Sessions, orderly' \in BOOLEAN, DeleteActiveSession(s)
  PROVE  OwnInv'
<1> DEFINE d == [drafts[s] EXCEPT !.state = "DELETED"]
<1>1. drafts[s] \in Draft /\ drafts[s].state = "OPEN"
  BY DEF DeleteActiveSession, Open, OwnInv, TypeOK
<1>2. /\ d \in Draft /\ d.state = "DELETED" /\ d.editing = drafts[s].editing
      /\ d.reserved = drafts[s].reserved /\ d.token = drafts[s].token
  BY <1>1 DEF Draft
<1>3. /\ drafts' = [drafts EXCEPT ![s] = d]
      /\ UNCHANGED <<printed, requests, lastCode, lastToken, running>>
  BY DEF DeleteActiveSession
<1> HIDE DEF d
<1>4. /\ lastCode \in Code /\ lastToken \in Token
      /\ lastCode <= lastCode /\ lastToken <= lastToken
      /\ running \in [Procs -> Job] /\ printed \in [Sessions -> Printed]
  BY Numbers DEF OwnInv, TypeOK
<1>5. /\ drafts[s].editing # None => /\ drafts[s].reserved = drafts[s].editing
                                    /\ IsRequestCodeTaken(drafts[s].editing)
      /\ drafts[s].reserved <= lastCode /\ drafts[s].token <= lastToken
  BY DEF OwnInv, SessionsOK, Drawn
<1>6. drafts[s].editing = None => MayHold(s, drafts[s].reserved, drafts[s].token, s)
  BY SameSession
<1> QED
  BY <1>2, <1>3, <1>4, <1>5, <1>6, DraftsStep

LEMMA DropOwn ==
  ASSUME OwnInv, NEW p \in Procs, orderly' \in BOOLEAN, DropSession(p)
  PROVE  OwnInv'
<1> DEFINE s == running[p].session
           d == [drafts[s] EXCEPT !.state = "SENT"]
<1>1. running[p] \in WorkJob /\ Works(p) /\ JobOK(p) /\ running[p].stage = "drop"
  BY JobForms DEF DropSession, OwnInv, TypeOK, Working, Works
<1>2. s \in Sessions /\ HasDocuments(s)
  BY <1>1 DEF WorkJob, JobOK
<1>3. drafts' = (IF Open(s) THEN [drafts EXCEPT ![s].state = "SENT"] ELSE drafts)
      /\ GoOn(p, Idle) /\ UNCHANGED <<printed, requests, lastCode, lastToken>>
  BY DEF DropSession
<1>4. CASE ~Open(s)
  BY <1>3, <1>4, RestingStep DEF OwnInv, TypeOK
<1>5. CASE Open(s)
  <2>1. drafts[s] \in Draft
    BY <1>2 DEF OwnInv, TypeOK
  <2>2. /\ d \in Draft /\ d.state = "SENT" /\ d.editing = drafts[s].editing
        /\ d.reserved = drafts[s].reserved /\ d.token = drafts[s].token
    BY <2>1 DEF Draft
  <2>3. drafts' = [drafts EXCEPT ![s] = d]
    BY <1>3, <1>5
  <2> HIDE DEF d, s
  <2>4. /\ lastCode \in Code /\ lastToken \in Token
        /\ lastCode <= lastCode /\ lastToken <= lastToken
    BY Numbers DEF OwnInv, TypeOK
  <2>5. /\ drafts[s].editing # None => drafts[s].reserved = drafts[s].editing
        /\ drafts[s].reserved <= lastCode /\ drafts[s].token <= lastToken
    BY <1>2 DEF OwnInv, SessionsOK, Drawn
  <2>6. drafts[s].editing = None => MayHold(s, drafts[s].reserved, drafts[s].token, s)
    BY <1>2, SameSession
  <2> QED
    BY <1>2, <1>3, <2>2, <2>3, <2>4, <2>5, <2>6, LastDraftStep
<1> QED
  BY <1>4, <1>5

LEMMA SavePreparedOwn ==
  ASSUME OwnInv, NEW p \in Procs, orderly' \in BOOLEAN, SavePrepared(p)
  PROVE  OwnInv'
<1> DEFINE s == running[p].session
           t == running[p].token
           d == [drafts[s] EXCEPT !.token = t]
<1>1. running[p] \in WorkJob /\ Works(p) /\ JobOK(p) /\ running[p].stage = "prepared"
  BY JobForms DEF SavePrepared, OwnInv, TypeOK, Working, Works
<1>2. s \in Sessions /\ t \in Token /\ t <= lastToken
  BY <1>1 DEF WorkJob, JobOK
<1>3. /\ \/ drafts' = drafts
         \/ Open(s) /\ drafts' = [drafts EXCEPT ![s].token = t]
      /\ GoOn(p, Idle) /\ UNCHANGED <<printed, requests, lastCode, lastToken>>
  BY DEF SavePrepared
<1>4. CASE drafts' = drafts
  BY <1>3, <1>4, RestingStep DEF OwnInv, TypeOK
<1>5. CASE Open(s) /\ drafts' = [drafts EXCEPT ![s].token = t]
  <2>1. drafts[s] \in Draft /\ drafts[s].state = "OPEN"
    BY <1>2, <1>5 DEF OwnInv, TypeOK, Open
  <2>2. /\ d \in Draft /\ d.state = "OPEN" /\ d.editing = drafts[s].editing
        /\ d.reserved = drafts[s].reserved /\ d.token = t
    BY <1>2, <2>1 DEF Draft
  <2>3. drafts' = [drafts EXCEPT ![s] = d]
    BY <1>5
  <2>4. drafts[s].editing = None => HoldsToken(s, t) /\ HoldsCode(s, drafts[s].reserved)
    BY <1>1 DEF HoldsToken, HoldsCode
  <2> HIDE DEF d, s, t
  <2>5. /\ lastCode \in Code /\ lastToken \in Token
        /\ lastCode <= lastCode /\ lastToken <= lastToken
    BY Numbers DEF OwnInv, TypeOK
  <2>6. /\ drafts[s].editing # None => drafts[s].reserved = drafts[s].editing
        /\ drafts[s].reserved <= lastCode
    BY <1>2 DEF OwnInv, SessionsOK, Drawn
  <2>7. drafts[s].editing = None => MayHold(s, drafts[s].reserved, t, s)
    BY <2>4 DEF MayHold
  <2> QED
    BY <1>2, <1>3, <2>2, <2>3, <2>5, <2>6, <2>7, LastDraftStep
<1> QED
  BY <1>3, <1>4, <1>5

LEMMA CreateEditOwn ==
  ASSUME OwnInv, NEW p \in Procs, NEW s \in Sessions, orderly' \in BOOLEAN,
         CreateEditSession(p, s)
  PROVE  OwnInv'
<1> DEFINE c == running[p].target
           draws == running[p].token = None
           token == IF draws THEN lastToken + 1 ELSE running[p].token
           d == [state |-> "OPEN", reserved |-> c, token |-> token, editing |-> c]
           job == [stage |-> "copy", target |-> c, session |-> s]
<1>1. running[p] \in OpenJob /\ JobOK(p) /\ running[p].stage = "open"
  BY JobForms DEF CreateEditSession, OwnInv, TypeOK
<1>2. c \in Codes /\ IsRequestCodeTaken(c) /\ running[p].token \in Token
      /\ running[p].token <= lastToken
  BY <1>1 DEF OpenJob, JobOK
<1>3. /\ drafts[s].state = "NEW" /\ (draws => lastToken < MaxToken)
      /\ drafts' = [drafts EXCEPT ![s] = d] /\ lastToken' = (IF draws THEN token ELSE lastToken)
      /\ GoOn(p, job) /\ UNCHANGED <<printed, requests, lastCode>>
  BY DEF CreateEditSession
<1>4. /\ lastCode \in Nat /\ lastCode \in Code /\ lastToken \in Nat /\ MaxToken \in Nat
      /\ running[p].token \in Nat /\ c <= lastCode /\ c \in Code /\ c # None
  BY <1>2, Numbers DEF OwnInv, TypeOK, Drawn
<1>5. token \in Token /\ token <= lastToken' /\ lastToken' \in Token /\ lastToken <= lastToken'
  <2>1. CASE draws
    <3>1. token = lastToken + 1 /\ lastToken' = token /\ lastToken < MaxToken
      BY <1>3, <2>1
    <3> QED
      BY <1>4, <3>1 DEF Token
  <2>2. CASE ~draws
    <3>1. token = running[p].token /\ lastToken' = lastToken
      BY <1>3, <2>2
    <3>2. lastToken \in Token
      BY DEF OwnInv, TypeOK
    <3> QED
      BY <1>2, <1>4, <3>1, <3>2
  <2> QED
    BY <2>1, <2>2
<1> HIDE DEF token, draws
<1>6. /\ d \in Draft /\ d.state = "OPEN" /\ d.reserved = c /\ d.token = token /\ d.editing = c
      /\ d.editing # None
  BY <1>4, <1>5 DEF Draft
<1>7. job \in Job /\ job.stage = "copy" /\ job.target = c /\ job.session = s
  BY <1>2, JobTypes DEF CopyJob
<1> HIDE DEF d, job, c
<1>8. /\ running' \in [Procs -> Job] /\ running'[p] = job
      /\ \A q \in Procs : q # p => running'[q] = running[q]
  BY <1>3, <1>7 DEF GoOn, OwnInv, TypeOK
<1>9. drafts'[s] = d
  BY <1>3 DEF OwnInv, TypeOK
<1>10. JobOK(p)' /\ ~Works(p)'
  BY <1>6, <1>7, <1>8, <1>9 DEF JobOK, Works, Working
<1>11. \A q \in Procs :
         \/ running'[q] = running[q]
         \/ /\ JobOK(q)'
            /\ Works(q)' /\ drafts[running'[q].session].editing = None =>
                 MayHold(running'[q].session, running'[q].reserved, running'[q].token, s)
  BY <1>8, <1>10
<1>12. lastCode' \in Code /\ lastCode <= lastCode' /\ printed' \in [Sessions -> Printed]
       /\ d.reserved <= lastCode'
  BY <1>3, <1>4, <1>6 DEF OwnInv, TypeOK
<1>13. UNCHANGED requests /\ d.token <= lastToken'
       /\ (d.editing # None => d.reserved = d.editing /\ IsRequestCodeTaken(d.editing))
       /\ (d.editing = None => MayHold(s, d.reserved, d.token, s))
       /\ d.state # "NEW" /\ d.state # "SENT"
  BY <1>2, <1>3, <1>5, <1>6
<1> QED
  BY <1>3, <1>5, <1>6, <1>8, <1>11, <1>12, <1>13, DraftsStep

\* A working handler goes on, with a code or a token that is new or its own.
LEMMA WorkGoesOn ==
  ASSUME OwnInv, NEW p \in Procs, Works(p), NEW job \in WorkJob, GoOn(p, job),
         job.session = running[p].session, job.prepares = running[p].prepares,
         job.stage \in {"print", "prepared", "find"},
         IF running[p].prepares THEN job.stage \in {"print", "prepared"}
                                ELSE job.stage = "find",
         UNCHANGED requests, printed' \in [Sessions -> Printed], orderly' \in BOOLEAN,
         lastCode' \in Code, lastToken' \in Token, lastCode <= lastCode', lastToken <= lastToken',
         job.reserved <= lastCode', job.token <= lastToken',
         ~running[p].prepares => job.reserved # None,
         drafts[running[p].session].editing # None => job.reserved = running[p].reserved,
         drafts[running[p].session].editing = None =>
           MayHold(job.session, job.reserved, job.token, job.session),
         NEW d \in Draft, drafts' = [drafts EXCEPT ![running[p].session] = d],
         \/ d = drafts[running[p].session]
         \/ /\ Open(running[p].session) /\ drafts[running[p].session].editing = None
            /\ d = [drafts[running[p].session] EXCEPT !.reserved = job.reserved]
  PROVE  OwnInv'
<1> DEFINE s == running[p].session
<1>1. running[p] \in WorkJob /\ JobOK(p)
  BY JobForms DEF Works, OwnInv, TypeOK
<1>2. s \in Sessions /\ drafts[s] \in Draft /\ drafts[s].state # "NEW"
      /\ (~running[p].prepares => drafts[s].editing = None)
      /\ (drafts[s].editing # None => running[p].reserved = drafts[s].editing)
  BY <1>1 DEF WorkJob, OwnInv, TypeOK, JobOK
<1>3. /\ running' \in [Procs -> Job] /\ running'[p] = job
      /\ \A q \in Procs : q # p => running'[q] = running[q]
  BY JobTypes DEF GoOn, OwnInv, TypeOK
<1>4. /\ d.state = drafts[s].state /\ d.editing = drafts[s].editing /\ d.token = drafts[s].token
      /\ (d.reserved = drafts[s].reserved
            \/ (d.reserved = job.reserved /\ drafts[s].editing = None))
  BY <1>2 DEF Draft
<1>5. drafts'[s] = d
  BY <1>2 DEF OwnInv, TypeOK
<1>6. JobOK(p)'
  <2>1. job.stage \in Working
        /\ job.stage \notin {"open", "copy", "make", "finish", "attach", "drop"}
    BY DEF Working
  <2>2. job.stage \in {"print", "prepared"} => running[p].prepares
    OBVIOUS
  <2>3. job.stage = "find" => ~running[p].prepares /\ job.reserved # None
    OBVIOUS
  <2>4. /\ job.stage \in {"print", "prepared"} => job.prepares
        /\ job.stage = "find" => ~job.prepares /\ job.reserved # None
        /\ ~job.prepares => drafts[s].editing = None
    BY <1>2, <2>2, <2>3, Zenon
  <2>5. drafts[s].editing # None => job.reserved = drafts[s].editing
    BY <1>2
  <2> QED
    BY <1>2, <1>3, <1>4, <1>5, <2>1, <2>4, <2>5 DEF JobOK, Works
<1>7. \A q \in Procs :
        \/ running'[q] = running[q]
        \/ /\ JobOK(q)'
           /\ Works(q)' /\ drafts[running'[q].session].editing = None =>
                MayHold(running'[q].session, running'[q].reserved, running'[q].token, s)
  BY <1>3, <1>6
<1>8. /\ lastCode \in Nat /\ lastCode' \in Nat /\ lastToken \in Nat /\ lastToken' \in Nat
      /\ drafts[s].reserved \in Nat /\ drafts[s].token \in Nat
  BY <1>2, Numbers DEF OwnInv, TypeOK, Draft
<1>9. drafts[s].reserved <= lastCode /\ drafts[s].token <= lastToken
      /\ (drafts[s].editing # None => /\ drafts[s].reserved = drafts[s].editing
                                      /\ IsRequestCodeTaken(drafts[s].editing))
  BY <1>2 DEF OwnInv, Drawn, SessionsOK
<1>10. d.reserved <= lastCode' /\ d.token <= lastToken'
  BY <1>4, <1>8, <1>9
<1>11. d.editing # None => d.reserved = d.editing /\ IsRequestCodeTaken(d.editing)
  BY <1>4, <1>9
<1>12. d.editing = None => MayHold(s, d.reserved, d.token, s)
  <2>1. drafts[s].editing = None =>
          MayHold(s, drafts[s].reserved, drafts[s].token, s) /\ MayHold(s, job.reserved, job.token, s)
    BY <1>2, SameSession
  <2> QED
    BY <1>4, <2>1 DEF MayHold
<1>13. d.state # "NEW" /\ (d.state = "SENT" => drafts[s].state = "SENT")
       /\ drafts' = [drafts EXCEPT ![s] = d]
  BY <1>2, <1>4
<1> HIDE DEF s
<1> QED
  BY <1>2, <1>3, <1>4, <1>7, <1>10, <1>11, <1>12, <1>13, DraftsStep

LEMMA EnsureOwn ==
  ASSUME OwnInv, NEW p \in Procs, orderly' \in BOOLEAN, EnsureSessionRequestCode(p)
  PROVE  OwnInv'
<1> DEFINE old == running[p]
           s == old.session
           keeps == \/ drafts[s].editing # None
                    \/ old.reserved # None /\ ~IsRequestCodeTaken(old.reserved)
           code == IF keeps THEN old.reserved ELSE lastCode + 1
           stage == IF old.prepares THEN "print" ELSE "find"
           job == [old EXCEPT !.stage = stage, !.reserved = code]
<1>1. old \in WorkJob /\ Works(p) /\ JobOK(p) /\ old.stage = "code"
  BY JobForms DEF EnsureSessionRequestCode, OwnInv, TypeOK, Working, Works
<1>2. /\ s \in Sessions /\ old.reserved \in Code /\ old.token \in Token
      /\ old.reserved <= lastCode /\ old.token <= lastToken
      /\ (~old.prepares => drafts[s].editing = None)
      /\ drafts[s] \in Draft /\ drafts[s].state # "NEW"
  BY <1>1 DEF WorkJob, JobOK, OwnInv, TypeOK
<1>3. /\ (keeps \/ lastCode < MaxCode) /\ lastCode' = (IF keeps THEN lastCode ELSE code)
      /\ IF keeps \/ Open(s) THEN GoOn(p, job) ELSE GoOn(p, Idle)
      /\ drafts' = (IF ~keeps /\ Open(s) THEN [drafts EXCEPT ![s].reserved = code] ELSE drafts)
      /\ UNCHANGED <<printed, requests, lastToken>>
  BY DEF EnsureSessionRequestCode
<1>4. /\ lastCode \in Nat /\ lastToken \in Nat /\ MaxCode \in Nat /\ old.reserved \in Nat
      /\ old.token \in Nat /\ lastToken \in Token /\ lastCode \in Code
  BY <1>2, Numbers DEF OwnInv, TypeOK
<1>5. code \in Code /\ lastCode' \in Code /\ lastCode <= lastCode' /\ code <= lastCode'
  <2>1. CASE keeps
    BY <1>2, <1>3, <1>4, <2>1
  <2>2. CASE ~keeps
    <3>1. code = lastCode + 1 /\ lastCode' = code /\ lastCode < MaxCode
      BY <1>3, <2>2
    <3> QED
      BY <1>4, <3>1 DEF Code, Codes
  <2> QED
    BY <2>1, <2>2
<1>6. /\ ~keeps => code > lastCode
      /\ keeps => code = old.reserved
      /\ drafts[s].editing # None => keeps
      /\ drafts[s].editing = None => code # None
  BY <1>4 DEF None
<1>7. drafts[s].editing = None => MayHold(s, code, old.token, s)
  <2>1. drafts[s].editing = None => HoldsCode(s, old.reserved) /\ HoldsToken(s, old.token)
    BY <1>1 DEF HoldsCode, HoldsToken
  <2> QED
    BY <1>6, <2>1 DEF MayHold
<1> HIDE DEF keeps, code
<1>8. /\ job \in WorkJob /\ job.session = s /\ job.prepares = old.prepares
      /\ job.stage = stage /\ job.reserved = code /\ job.token = old.token
  BY <1>1, <1>5 DEF WorkJob, Working
<1>9. /\ stage \in {"print", "prepared", "find"}
      /\ IF old.prepares THEN stage \in {"print", "prepared"} ELSE stage = "find"
  OBVIOUS
<1>10. printed' \in [Sessions -> Printed] /\ lastToken' \in Token /\ lastToken <= lastToken'
       /\ old.token <= lastToken'
  BY <1>2, <1>3, <1>4 DEF OwnInv, TypeOK
<1>11. CASE ~keeps /\ ~Open(s)
  <2>1. GoOn(p, Idle) /\ drafts' = drafts
    BY <1>3, <1>11
  <2>2. drafts' = [drafts EXCEPT ![s] = drafts[s]]
    BY <2>1 DEF OwnInv, TypeOK
  <2>3. /\ drafts[s].editing # None => drafts[s].reserved = drafts[s].editing
        /\ drafts[s].reserved <= lastCode /\ drafts[s].token <= lastToken
        /\ drafts[s].reserved \in Nat /\ lastCode' \in Nat
    BY <1>2, <1>5, Numbers DEF OwnInv, SessionsOK, Drawn, Draft
  <2>4. drafts[s].reserved <= lastCode' /\ drafts[s].token <= lastToken'
    BY <1>3, <1>4, <1>5, <2>3
  <2>5. drafts[s].editing = None => MayHold(s, drafts[s].reserved, drafts[s].token, s)
    BY <1>2, SameSession
  <2> HIDE DEF s
  <2> QED
    BY <1>2, <1>3, <1>5, <1>10, <2>1, <2>2, <2>3, <2>4, <2>5, LastDraftStep
<1>12. CASE keeps
  <2>1. GoOn(p, job) /\ drafts' = drafts
    BY <1>3, <1>12
  <2>2. drafts' = [drafts EXCEPT ![s] = drafts[s]]
    BY <2>1 DEF OwnInv, TypeOK
  <2> HIDE DEF job, stage
  <2> QED
    BY <1>1, <1>2, <1>3, <1>5, <1>6, <1>7, <1>8, <1>9, <1>10, <1>12, <2>1, <2>2, WorkGoesOn
<1>13. CASE ~keeps /\ Open(s)
  <2> DEFINE d == [drafts[s] EXCEPT !.reserved = code]
  <2>1. GoOn(p, job) /\ drafts' = [drafts EXCEPT ![s] = d]
    BY <1>3, <1>13
  <2>2. d \in Draft
    BY <1>2, <1>5 DEF Draft
  <2>3. d = [drafts[s] EXCEPT !.reserved = job.reserved] /\ drafts[s].editing = None
    BY <1>6, <1>8, <1>13
  <2> HIDE DEF job, stage, d
  <2> QED
    BY <1>1, <1>2, <1>3, <1>5, <1>6, <1>7, <1>8, <1>9, <1>10, <1>13, <2>1, <2>2, <2>3, WorkGoesOn
<1> QED
  BY <1>11, <1>12, <1>13

LEMMA PrintOwn ==
  ASSUME OwnInv, NEW p \in Procs, orderly' \in BOOLEAN, PrintDocuments(p)
  PROVE  OwnInv'
<1> DEFINE old == running[p]
           s == old.session
           draws == old.token = None
           token == IF draws THEN lastToken + 1 ELSE old.token
           job == [old EXCEPT !.stage = "prepared", !.token = token, !.draws = draws]
<1>1. old \in WorkJob /\ Works(p) /\ JobOK(p) /\ old.stage = "print"
  BY JobForms DEF PrintDocuments, OwnInv, TypeOK, Working, Works
<1>2. /\ s \in Sessions /\ old.reserved \in Code /\ old.token \in Token
      /\ old.reserved <= lastCode /\ old.token <= lastToken /\ old.prepares
      /\ drafts[s] \in Draft
  BY <1>1 DEF WorkJob, JobOK, OwnInv, TypeOK
<1>3. /\ (draws => lastToken < MaxToken) /\ lastToken' = (IF draws THEN token ELSE lastToken)
      /\ printed' = [printed EXCEPT ![s] = [code |-> old.reserved, token |-> token]]
      /\ GoOn(p, job) /\ UNCHANGED <<drafts, requests, lastCode>>
  BY DEF PrintDocuments
<1>4. /\ lastCode \in Nat /\ lastToken \in Nat /\ MaxToken \in Nat /\ old.token \in Nat
      /\ lastCode \in Code
  BY <1>2, Numbers DEF OwnInv, TypeOK
<1>5. token \in Token /\ lastToken' \in Token /\ lastToken <= lastToken' /\ token <= lastToken'
  <2>1. CASE draws
    <3>1. token = lastToken + 1 /\ lastToken' = token /\ lastToken < MaxToken
      BY <1>3, <2>1
    <3> QED
      BY <1>4, <3>1 DEF Token
  <2>2. CASE ~draws
    <3>1. token = old.token /\ lastToken' = lastToken
      BY <1>3, <2>2
    <3>2. lastToken \in Token
      BY DEF OwnInv, TypeOK
    <3> QED
      BY <1>2, <1>4, <3>1, <3>2
  <2> QED
    BY <2>1, <2>2
<1>6. /\ draws => token > lastToken
      /\ ~draws => token = old.token
  BY <1>4
<1>7. drafts[s].editing = None => MayHold(s, old.reserved, token, s)
  <2>1. drafts[s].editing = None => HoldsCode(s, old.reserved) /\ HoldsToken(s, old.token)
    BY <1>1 DEF HoldsCode, HoldsToken
  <2> QED
    BY <1>6, <2>1 DEF MayHold
<1>8. printed' \in [Sessions -> Printed]
  <2>1. [code |-> old.reserved, token |-> token] \in Printed
    BY <1>2, <1>5 DEF Printed
  <2> QED
    BY <1>2, <1>3, <2>1 DEF OwnInv, TypeOK
<1>9. draws \in BOOLEAN
  OBVIOUS
<1> HIDE DEF draws, token
<1>10. /\ job \in WorkJob /\ job.session = s /\ job.prepares = old.prepares
       /\ job.stage = "prepared" /\ job.reserved = old.reserved /\ job.token = token
  BY <1>1, <1>5, <1>9 DEF WorkJob, Working
<1>11. drafts' = [drafts EXCEPT ![s] = drafts[s]]
  BY <1>3 DEF OwnInv, TypeOK
<1>12. lastCode' \in Code /\ lastCode <= lastCode' /\ old.reserved <= lastCode'
  BY <1>2, <1>3, <1>4
<1> HIDE DEF job
<1> QED
  BY <1>1, <1>2, <1>3, <1>5, <1>7, <1>8, <1>10, <1>11, <1>12, WorkGoesOn

-----------------------------------------------------------------------------
(* Steps that write a request. *)

LEMMA RequestsStep ==
  ASSUME OwnInv, NEW c \in Codes, NEW r \in Request, requests' = [requests EXCEPT ![c] = r],
         UNCHANGED <<drafts, printed, lastToken>>, orderly' \in BOOLEAN,
         running' \in [Procs -> Job],
         lastCode' \in Code, lastCode <= lastCode', c <= lastCode', r.token <= lastToken,
         IsRequestCodeTaken(c) =>
           /\ r.from = requests[c].from
           /\ requests[c].documents # NoDocuments => r.documents # NoDocuments,
         MayBe(c), NEW s0,
         \A p \in Procs :
           \/ running'[p] = running[p]
           \/ /\ JobOK(p)'
              /\ Works(p)' /\ drafts[running'[p].session].editing = None =>
                   MayHold(running'[p].session, running'[p].reserved, running'[p].token, s0)
  PROVE  OwnInv'
<1>1. /\ requests \in [Codes -> Request \cup {NoRequest}] /\ requests'[c] = r
      /\ requests' \in [Codes -> Request \cup {NoRequest}]
      /\ \A d \in Codes : d # c => requests'[d] = requests[d]
      /\ r # NoRequest
  BY NoRequestApart DEF OwnInv, TypeOK
<1>2. TypeOK'
  BY <1>1 DEF OwnInv, TypeOK
<1>3. \A d \in Codes : IsRequestCodeTaken(d) => IsRequestCodeTaken(d)'
  BY <1>1 DEF IsRequestCodeTaken
<1>4. \A s \in Sessions : drafts[s].editing # None => drafts[s].editing \in Codes
  BY Numbers DEF OwnInv, TypeOK, Draft
<1>5. SessionsOK'
  BY <1>3, <1>4 DEF OwnInv, SessionsOK
<1>6. /\ lastCode \in Nat /\ lastCode' \in Nat /\ lastToken \in Nat
      /\ \A d \in Codes : d \in Nat
      /\ \A s \in Sessions : drafts[s].reserved \in Nat
  BY Numbers DEF OwnInv, TypeOK, Draft
<1>7. Drawn'
  <2>1. \A d \in Codes : IsRequestCodeTaken(d)' =>
          d <= lastCode' /\ requests'[d].token <= lastToken
    BY <1>1, <1>6 DEF OwnInv, Drawn, IsRequestCodeTaken
  <2>2. \A s \in Sessions : drafts[s].reserved <= lastCode' /\ drafts[s].token <= lastToken
    BY <1>6 DEF OwnInv, Drawn
  <2> QED
    BY <2>1, <2>2 DEF Drawn
<1>8. Grows
  <2>1. \A d \in Codes : IsRequestCodeTaken(d) =>
          /\ requests'[d].from = requests[d].from
          /\ requests[d].documents # NoDocuments => requests'[d].documents # NoDocuments
    BY <1>1
  <2> QED
    BY <1>3, <1>6, <2>1 DEF Grows
<1>9. \A s \in Sessions : drafts'[s].editing = None =>
        /\ drafts[s].editing = None
        /\ MayHold(s, drafts'[s].reserved, drafts'[s].token, s0)
  BY SameSession
<1>10. \A d \in Codes : MayBe(d)
  BY <1>1, SameRequest
<1> QED
  BY <1>2, <1>5, <1>7, <1>8, <1>9, <1>10, OwnStep

\* The next code of the sequence is free, and nobody's.
LEMMA NextIsFree ==
  ASSUME OwnInv, lastCode < MaxCode
  PROVE  /\ lastCode + 1 \in Codes /\ lastCode + 1 \in Code /\ lastCode + 1 > lastCode
         /\ lastCode <= lastCode + 1 /\ ~IsRequestCodeTaken(lastCode + 1)
         /\ \A s \in Sessions : ~HoldsCode(s, lastCode + 1)
<1>1. lastCode \in Nat /\ MaxCode \in Nat
  BY Numbers DEF OwnInv, TypeOK
<1>2. lastCode + 1 \in Codes /\ ~ (lastCode + 1 <= lastCode)
  BY <1>1 DEF Codes
<1> QED
  BY <1>1, <1>2, HeldIsDrawn, Numbers DEF OwnInv, Drawn

\* A code nobody holds is still nobody's when no session changes and no handler
\* gets another code.
LEMMA StillNobodys ==
  ASSUME NEW c, drafts' = drafts, \A s \in Sessions : ~HoldsCode(s, c),
         \A p \in Procs : Works(p)' => /\ Works(p)
                                      /\ running'[p].session = running[p].session
                                      /\ running'[p].reserved = running[p].reserved
  PROVE  \A s \in Sessions : ~HoldsCode(s, c)'
BY DEF HoldsCode

LEMMA CreateDirectlyOwn ==
  ASSUME OwnInv, orderly' \in BOOLEAN, CreateDirectly
  PROVE  OwnInv'
<1> DEFINE c == lastCode + 1
           r == [from |-> "DIRECT", token |-> None, documents |-> NoDocuments]
<1>1. /\ lastCode' = c /\ requests' = [requests EXCEPT ![c] = r]
      /\ UNCHANGED <<drafts, printed, lastToken, running>> /\ lastCode < MaxCode
  BY DEF CreateDirectly
<1>2. /\ c \in Codes /\ c \in Code /\ c > lastCode /\ lastCode <= c /\ c <= c
      /\ ~IsRequestCodeTaken(c) /\ \A s \in Sessions : ~HoldsCode(s, c)
  BY <1>1, NextIsFree, Numbers
<1>3. r \in Request /\ r.token = None /\ r.token <= lastToken
  BY Numbers DEF Request, OwnInv, TypeOK
<1> HIDE DEF c, r
<1>4. PICK k \in Codes : k = c
  BY <1>2
<1>5. requests'[k] = r
  BY <1>1, <1>4 DEF OwnInv, TypeOK
<1>6. \A s \in Sessions : ~HoldsCode(s, k)
  BY <1>2, <1>4
<1>7. \A p \in Procs : running'[p] = running[p]
  BY <1>1
<1>8. \A p \in Procs : Works(p)' => Works(p)
  BY <1>7 DEF Works
<1>9. \A s \in Sessions : ~HoldsCode(s, k)'
  BY <1>1, <1>6, <1>7, <1>8, StillNobodys
<1>10. MayBe(k)
  BY <1>2, <1>3, <1>4, <1>5, <1>9 DEF MayBe
<1>11. running' \in [Procs -> Job]
  BY <1>1 DEF OwnInv, TypeOK
<1> QED
  BY <1>1, <1>2, <1>3, <1>4, <1>7, <1>10, <1>11, RequestsStep

LEMMA CreateRecordOwn ==
  ASSUME OwnInv, NEW p \in Procs, orderly' \in BOOLEAN, CreatePurchaseRequestRecord(p)
  PROVE  OwnInv'
<1> DEFINE old == running[p]
           taken == IsRequestCodeTaken(old.reserved)
           c == IF taken THEN lastCode + 1 ELSE old.reserved
           r == [from |-> old.session, token |-> None, documents |-> NoDocuments]
           job == [old EXCEPT !.stage = "finish", !.target = c]
<1>1. old \in WorkJob /\ Works(p) /\ JobOK(p) /\ old.stage = "make"
  BY JobForms DEF CreatePurchaseRequestRecord, OwnInv, TypeOK, Working, Works
<1>2. /\ old.session \in Sessions /\ old.reserved \in Codes /\ old.reserved <= lastCode
      /\ old.token <= lastToken /\ ~old.prepares
      /\ drafts[old.session].editing = None /\ drafts[old.session].state # "NEW"
  BY <1>1, Numbers DEF WorkJob, JobOK
<1>3. /\ (taken => lastCode < MaxCode) /\ lastCode' = (IF taken THEN c ELSE lastCode)
      /\ requests' = [requests EXCEPT ![c] = r] /\ GoOn(p, job)
      /\ UNCHANGED <<drafts, printed, lastToken>>
  BY DEF CreatePurchaseRequestRecord
<1>4. lastCode \in Nat /\ lastCode \in Code /\ old.reserved \in Nat
  BY <1>2, Numbers DEF OwnInv, TypeOK
<1>5. /\ c \in Codes /\ c \in Code /\ ~IsRequestCodeTaken(c)
      /\ lastCode' \in Code /\ lastCode <= lastCode' /\ c <= lastCode'
      /\ old.reserved <= lastCode'
      /\ \/ c = old.reserved
         \/ c > lastCode /\ \A s \in Sessions : ~HoldsCode(s, c)
  <2>1. CASE taken
    <3>1. c = lastCode + 1 /\ lastCode' = c /\ lastCode < MaxCode
      BY <1>3, <2>1
    <3> HIDE DEF c
    <3>2. /\ c \in Codes /\ c \in Code /\ ~IsRequestCodeTaken(c) /\ c > lastCode
          /\ \A s \in Sessions : ~HoldsCode(s, c)
      BY <3>1, NextIsFree
    <3> QED
      BY <1>2, <1>4, <3>1, <3>2
  <2>2. CASE ~taken
    BY <1>2, <1>3, <1>4, <2>2, Numbers
  <2> QED
    BY <2>1, <2>2
<1>6. /\ r \in Request /\ r.token = None /\ r.token <= lastToken /\ r.from = old.session
      /\ r # NoRequest
  BY <1>2, Numbers, NoRequestApart DEF Request, OwnInv, TypeOK
<1> HIDE DEF c, r, taken
<1>7. /\ job \in WorkJob /\ job.session = old.session /\ job.prepares = old.prepares
      /\ job.stage = "finish" /\ job.reserved = old.reserved /\ job.token = old.token
      /\ job.target = c
  BY <1>1, <1>5 DEF WorkJob, Working
<1> HIDE DEF job
<1>8. /\ running' \in [Procs -> Job] /\ running'[p] = job
      /\ \A q \in Procs : q # p => running'[q] = running[q]
  BY <1>3, <1>7, JobTypes DEF GoOn, OwnInv, TypeOK
<1>9. requests'[c] = r
  BY <1>3, <1>5 DEF OwnInv, TypeOK
<1>10. JobOK(p)'
  <2>1. job.stage \notin {"open", "copy", "print", "prepared", "drop"}
    BY <1>7
  <2>2. ~job.prepares
    BY <1>2, <1>7, Zenon
  <2>3. job.reserved # None
    BY <1>2, <1>7, Numbers
  <2> QED
    BY <1>2, <1>3, <1>5, <1>6, <1>7, <1>8, <1>9, <2>1, <2>2, <2>3 DEF JobOK, IsRequestCodeTaken
<1>11. HoldsCode(old.session, old.reserved)
  BY <1>1, <1>2 DEF HoldsCode
<1> PICK k \in Codes : k = c
  BY <1>5
<1>12. MayBe(k)
  <2>1. CASE k = old.reserved
    BY <1>2, <1>6, <1>9, <1>11, <2>1 DEF MayBe
  <2>2. CASE k > lastCode /\ \A s \in Sessions : ~HoldsCode(s, k)
    <3>1. \A q \in Procs : Works(q)' => /\ Works(q)
                                       /\ running'[q].session = running[q].session
                                       /\ running'[q].reserved = running[q].reserved
      BY <1>1, <1>7, <1>8 DEF Works
    <3>2. \A s \in Sessions : ~HoldsCode(s, k)'
      BY <1>3, <2>2, <3>1, StillNobodys
    <3> QED
      BY <1>6, <1>9, <2>2, <3>2 DEF MayBe
  <2> QED
    BY <1>5, <2>1, <2>2
<1>13. MayHold(job.session, job.reserved, job.token, job)
  BY <1>1, <1>2, <1>7, SameJob
<1>14. \A q \in Procs :
         \/ running'[q] = running[q]
         \/ /\ JobOK(q)'
            /\ Works(q)' /\ drafts[running'[q].session].editing = None =>
                 MayHold(running'[q].session, running'[q].reserved, running'[q].token, job)
  BY <1>8, <1>10, <1>13
<1> QED
  BY <1>3, <1>5, <1>6, <1>8, <1>12, <1>14, RequestsStep

LEMMA SaveSubmittedOwn ==
  ASSUME OwnInv, NEW p \in Procs, orderly' \in BOOLEAN, SaveSubmitted(p)
  PROVE  OwnInv'
<1> DEFINE old == running[p]
           c == old.target
           keeps == \/ old.token = None
                    \/ old.stage = "attach" /\ requests[c].token # None
           token == IF keeps THEN requests[c].token ELSE old.token
           r == [requests[c] EXCEPT !.documents = old.files, !.token = token]
           job == [old EXCEPT !.stage = "drop"]
<1>1. old \in WorkJob /\ Works(p) /\ JobOK(p) /\ old.stage \in {"finish", "attach"}
  BY JobForms DEF SaveSubmitted, OwnInv, TypeOK, Working, Works
<1>2. /\ old.session \in Sessions /\ old.reserved \in Codes /\ old.reserved <= lastCode
      /\ old.token <= lastToken /\ ~old.prepares /\ old.token \in Token /\ old.files \in Printed
      /\ drafts[old.session].editing = None /\ drafts[old.session].state # "NEW"
      /\ c \in Codes /\ IsRequestCodeTaken(c) /\ requests[c].from = old.session
  BY <1>1, Numbers DEF WorkJob, JobOK
<1>3. requests[c] \in Request /\ requests[c].token \in Token /\ requests[c].token <= lastToken
  BY <1>2, RequestForms DEF IsRequestCodeTaken, OwnInv, TypeOK, Drawn
<1>4. token \in Token /\ token <= lastToken
  BY <1>2, <1>3
<1>5. /\ GoOn(p, job) /\ UNCHANGED <<drafts, printed, lastCode, lastToken>>
      /\ requests' = [requests EXCEPT ![c] = r]
  BY DEF SaveSubmitted
<1>6. /\ \/ token = requests[c].token \/ token = old.token
  OBVIOUS
<1> HIDE DEF token, keeps
<1>7. /\ r \in Request /\ r.token = token /\ r.from = requests[c].from
      /\ r.documents # NoDocuments /\ r # NoRequest
  BY <1>2, <1>3, <1>4, PrintedApart, NoRequestApart DEF Request
<1>8. /\ job \in WorkJob /\ job.session = old.session /\ job.prepares = old.prepares
      /\ job.stage = "drop" /\ job.reserved = old.reserved /\ job.token = old.token
  BY <1>1 DEF WorkJob, Working
<1> HIDE DEF c, r, job
<1>9. /\ running' \in [Procs -> Job] /\ running'[p] = job
      /\ \A q \in Procs : q # p => running'[q] = running[q]
  BY <1>5, <1>8, JobTypes DEF GoOn, OwnInv, TypeOK
<1>10. requests'[c] = r
  BY <1>2, <1>5 DEF OwnInv, TypeOK
<1>11. JobOK(p)'
  <2>1. job.stage \notin {"open", "copy", "print", "prepared", "finish", "attach"}
    BY <1>8
  <2>2. ~job.prepares
    BY <1>2, <1>8, Zenon
  <2>3. job.reserved # None
    BY <1>2, <1>8, Numbers
  <2>4. HasDocuments(running[p].session)'
    BY <1>2, <1>7, <1>8, <1>9, <1>10 DEF HasDocuments
  <2> QED
    BY <1>2, <1>5, <1>8, <1>9, <2>1, <2>2, <2>3, <2>4 DEF JobOK
<1>12. HoldsToken(old.session, old.token)
  BY <1>1, <1>2 DEF HoldsToken
<1> PICK k \in Codes : k = c
  BY <1>2
<1>13. MayBe(k)
  BY <1>2, <1>6, <1>7, <1>10, <1>12 DEF MayBe
<1>14. MayHold(job.session, job.reserved, job.token, job)
  BY <1>1, <1>2, <1>8, SameJob
<1>15. \A q \in Procs :
         \/ running'[q] = running[q]
         \/ /\ JobOK(q)'
            /\ Works(q)' /\ drafts[running'[q].session].editing = None =>
                 MayHold(running'[q].session, running'[q].reserved, running'[q].token, job)
  BY <1>9, <1>11, <1>14
<1>16. lastCode' \in Code /\ lastCode <= lastCode' /\ c <= lastCode'
  BY <1>2, <1>5, Numbers DEF OwnInv, TypeOK, Drawn
<1> QED
  BY <1>2, <1>4, <1>5, <1>7, <1>9, <1>13, <1>15, <1>16, RequestsStep

LEMMA UpdateOwn ==
  ASSUME OwnInv, NEW s \in Sessions, orderly' \in BOOLEAN, UpdateWithDocuments(s)
  PROVE  OwnInv'
<1> DEFINE c == drafts[s].editing
           r == [requests[c] EXCEPT !.documents = printed[s]]
<1>1. /\ c # None /\ requests' = [requests EXCEPT ![c] = r]
      /\ UNCHANGED <<drafts, printed, lastCode, lastToken, running>>
  BY DEF UpdateWithDocuments
<1>2. c \in Codes /\ IsRequestCodeTaken(c)
  BY <1>1, Numbers DEF OwnInv, SessionsOK, TypeOK, Draft
<1>3. requests[c] \in Request /\ requests[c].token <= lastToken /\ printed[s] \in Printed
  BY <1>2, RequestForms DEF IsRequestCodeTaken, OwnInv, TypeOK, Drawn
<1>4. /\ r \in Request /\ r.token = requests[c].token /\ r.from = requests[c].from
      /\ r.documents # NoDocuments
  BY <1>3, PrintedApart DEF Request
<1> HIDE DEF c, r
<1>5. requests'[c] = r
  BY <1>1, <1>2 DEF OwnInv, TypeOK
<1> PICK k \in Codes : k = c
  BY <1>2
<1>6. MayBe(k)
  BY <1>2, <1>4, <1>5 DEF MayBe
<1>7. running' \in [Procs -> Job] /\ \A p \in Procs : running'[p] = running[p]
  BY <1>1 DEF OwnInv, TypeOK
<1>8. lastCode' \in Code /\ lastCode <= lastCode' /\ c <= lastCode'
  BY <1>1, <1>2, Numbers DEF OwnInv, TypeOK, Drawn
<1> QED
  BY <1>1, <1>2, <1>3, <1>4, <1>6, <1>7, <1>8, RequestsStep

LEMMA OwnNext == OwnInv /\ [Next]_vars => OwnInv'
<1> SUFFICES ASSUME OwnInv, [Next]_vars  PROVE OwnInv'
  OBVIOUS
<1>1. CASE UNCHANGED vars
  <2>1. OwnInv' <=> OwnInv
    BY <1>1
    DEF vars, OwnInv, TypeOK, SessionsOK, Drawn, JobOK, Works, HasDocuments, IsRequestCodeTaken,
        CodesApart, TokensApart, HoldsCode, HoldsToken, SentIsSubmitted
  <2> QED
    BY <2>1
<1>2. ASSUME NEW p \in Procs, Begin(p) \/ Continue(p),
             orderly' = (orderly /\ \A q \in Procs \ {p} : running[q] = Idle)
      PROVE  OwnInv'
  <2>1. orderly' \in BOOLEAN
    BY <1>2
  <2>2. CASE Begin(p)
    BY <2>1, <2>2, BeginActiveOwn, BeginEditOwn, BeginWorkOwn DEF Begin
  <2>3. CASE Continue(p)
    BY <2>1, <2>3, CreateActiveOwn, CreateEditOwn, CopyOwn, EnsureOwn, PrintOwn,
       SavePreparedOwn, FindOwn, CreateRecordOwn, SaveSubmittedOwn, DropOwn
    DEF Continue
  <2> QED
    BY <1>2, <2>2, <2>3
<1>3. CASE AtOnce /\ orderly' = (orderly /\ \A q \in Procs : running[q] = Idle)
  <2>1. orderly' \in BOOLEAN
    BY <1>3
  <2> QED
    BY <1>3, <2>1, DeleteActiveOwn, UpdateOwn, CreateDirectlyOwn DEF AtOnce
<1>4. CASE (\E p \in Procs : Crash(p)) /\ orderly' = FALSE
  BY <1>4, CrashOwn
<1> QED
  BY <1>1, <1>2, <1>3, <1>4 DEF Next

-----------------------------------------------------------------------------
(* One handler at a time. *)

\* What p's session has made, when only p moves.
LEMMA AloneMade ==
  ASSUME OrderlyInv, NEW p \in Procs, OnlyMoves(p), NEW c \in Codes,
         requests[c].from \in Sessions
  PROVE  drafts[requests[c].from].state = "SENT" \/ Hands(p, requests[c].from)
BY IdleJob DEF OrderlyInv, MadeIsSent, Hands, Works, Working, OnlyMoves

\* A handler that is alone and has not made the request of its session knows that
\* there is none, so its code is free and it finds nothing.
LEMMA NoneMade ==
  ASSUME OwnInv, OrderlyInv, NEW p \in Procs, OnlyMoves(p), Works(p),
         running[p].stage \notin {"finish", "drop"}
  PROVE  \A c \in Codes : requests[c].from # running[p].session
<1>1. running[p] \in WorkJob /\ Open(running[p].session)
  BY JobForms DEF Works, OwnInv, TypeOK, OrderlyInv, WorkOK
<1>2. running[p].session \in Sessions /\ drafts[running[p].session].state # "SENT"
  BY <1>1 DEF WorkJob, Open
<1> QED
  BY <1>2, AloneMade DEF Hands

LEMMA CodeIsFree ==
  ASSUME OwnInv, OrderlyInv, NEW p \in Procs, OnlyMoves(p), Works(p),
         running[p].stage \notin {"finish", "drop"}, drafts[running[p].session].editing = None,
         running[p].reserved # None
  PROVE  ~IsRequestCodeTaken(running[p].reserved)
<1>1. running[p] \in WorkJob
  BY JobForms DEF Works, OwnInv, TypeOK
<1>2. running[p].session \in Sessions /\ running[p].reserved \in Codes
  BY <1>1, Numbers DEF WorkJob
<1>3. HoldsCode(running[p].session, running[p].reserved)
  BY DEF HoldsCode
<1> QED
  BY <1>2, <1>3, NoneMade DEF OwnInv, CodesApart

LEMMA OrderlyStep ==
  ASSUME OwnInv, NEW p \in Procs, OnlyMoves(p), NEW job \in Job, GoOn(p, job),
         OneEach', CodeMatchesDocuments', PrintedOK',
         \A c \in Codes : requests'[c].from \in Sessions =>
           \/ drafts'[requests'[c].from].state = "SENT"
           \/ job.stage \in {"finish", "drop"} /\ job.session = requests'[c].from,
         job.stage \in Working =>
           /\ drafts'[job.session].state = "OPEN"
           /\ job.stage # "attach"
           /\ job.reserved = drafts'[job.session].reserved
           /\ ~job.prepares => job.files.code \in {None, job.reserved}
           /\ job.stage = "finish" => job.target = job.reserved
  PROVE  OrderlyInv'
<1>1. running'[p] = job /\ \A q \in Procs : q # p => running'[q] = Idle
  BY DEF GoOn, OnlyMoves, OwnInv, TypeOK
<1>2. \A q, r \in Procs : running'[q] # Idle /\ running'[r] # Idle => q = r
  BY <1>1
<1>3. MadeIsSent'
  BY <1>1 DEF MadeIsSent, Hands, Works, Working
<1>4. \A q \in Procs : WorkOK(q)'
  BY <1>1, IdleJob DEF WorkOK, Works, Working, Open
<1> QED
  BY <1>2, <1>3, <1>4 DEF OrderlyInv

\* A step that leaves the requests alone, and every session but s.
LEMMA OrderlySession ==
  ASSUME OwnInv, OrderlyInv, NEW p \in Procs, OnlyMoves(p), NEW job \in Job, GoOn(p, job),
         UNCHANGED requests, PrintedOK',
         \A c \in Codes :
           requests[c].from \in Sessions /\ drafts[requests[c].from].state = "SENT"
             => drafts'[requests[c].from].state = "SENT",
         \A s \in Sessions : Hands(p, s) =>
           \/ drafts'[s].state = "SENT"
           \/ job.stage \in {"finish", "drop"} /\ job.session = s,
         job.stage \in Working =>
           /\ drafts'[job.session].state = "OPEN"
           /\ job.stage # "attach"
           /\ job.reserved = drafts'[job.session].reserved
           /\ ~job.prepares => job.files.code \in {None, job.reserved}
           /\ job.stage = "finish" => job.target = job.reserved
  PROVE  OrderlyInv'
<1>1. OneEach' /\ CodeMatchesDocuments'
  BY DEF OrderlyInv, OneEach, CodeMatchesDocuments, IsRequestCodeTaken
<1>2. \A c \in Codes : requests'[c].from \in Sessions =>
        \/ drafts'[requests'[c].from].state = "SENT"
        \/ job.stage \in {"finish", "drop"} /\ job.session = requests'[c].from
  BY AloneMade
<1> QED
  BY <1>1, <1>2, OrderlyStep

\* A handler that rests, or starts, and changes no row.
LEMMA OrderlyRest ==
  ASSUME OwnInv, OrderlyInv, NEW p \in Procs, OnlyMoves(p), NEW job \in Job, GoOn(p, job),
         UNCHANGED <<drafts, printed, requests>>, job.stage \notin Working,
         \A s \in Sessions : ~Hands(p, s)
  PROVE  OrderlyInv'
<1>1. PrintedOK'
  BY DEF OrderlyInv, PrintedOK
<1> QED
  BY <1>1, OrderlySession

LEMMA BeginOrderly ==
  ASSUME OwnInv, OrderlyInv, NEW p \in Procs, OnlyMoves(p), Begin(p)
  PROVE  OrderlyInv'
<1>1. running[p] = Idle /\ UNCHANGED <<drafts, printed, requests>>
  BY DEF Begin, BeginActiveSession, BeginEditSession, BeginPrepare, BeginSubmit
<1>2. \A s \in Sessions : ~Hands(p, s)
  BY <1>1, IdleJob DEF Hands
<1>3. CASE BeginActiveSession(p)
  <2>1. GoOn(p, [stage |-> "start"])
    BY <1>3 DEF BeginActiveSession
  <2> QED
    BY <1>1, <1>2, <2>1, IdleJob, OrderlyRest DEF Working
<1>4. ASSUME NEW c \in Codes, BeginEditSession(p, c)  PROVE OrderlyInv'
  <2> DEFINE job == [stage |-> "open", target |-> c, token |-> requests[c].token]
  <2>1. IsRequestCodeTaken(c) /\ requests[c].token \in Token /\ GoOn(p, job)
    BY <1>4, RequestForms DEF BeginEditSession, IsRequestCodeTaken, OwnInv, TypeOK
  <2>2. job \in Job /\ job.stage \notin Working
    BY <2>1, JobTypes DEF OpenJob, Working
  <2> HIDE DEF job
  <2> QED
    BY <1>1, <1>2, <2>1, <2>2, OrderlyRest
<1>5. ASSUME NEW s \in Sessions, NEW prepares \in BOOLEAN, Open(s), GoOn(p, Loaded(s, prepares))
      PROVE  OrderlyInv'
  <2> DEFINE job == Loaded(s, prepares)
  <2>1. /\ job \in WorkJob /\ job.stage = "code" /\ job.session = s
        /\ job.reserved = drafts[s].reserved /\ job.files = printed[s]
    BY Numbers DEF Loaded, WorkJob, Working, OwnInv, TypeOK, Draft
  <2>2. job.files.code \in {None, job.reserved}
    BY <2>1 DEF OrderlyInv, PrintedOK
  <2>3. job \in Job /\ GoOn(p, job) /\ drafts'[s].state = "OPEN" /\ PrintedOK'
    BY <1>1, <1>5, <2>1, JobTypes DEF Open, OrderlyInv, PrintedOK
  <2> HIDE DEF job
  <2> QED
    BY <1>1, <1>2, <2>1, <2>2, <2>3, OrderlySession
<1> QED
  BY <1>3, <1>4, <1>5 DEF Begin, BeginPrepare, BeginSubmit

LEMMA CreateActiveOrderly ==
  ASSUME OwnInv, OrderlyInv, NEW p \in Procs, OnlyMoves(p), NEW s \in Sessions,
         CreateActiveSession(p, s)
  PROVE  OrderlyInv'
<1>1. /\ running[p].stage = "start" /\ drafts[s].state = "NEW" /\ GoOn(p, Idle)
      /\ drafts' = [drafts EXCEPT ![s].state = "OPEN"] /\ UNCHANGED <<printed, requests>>
  BY DEF CreateActiveSession
<1>2. \A r \in Sessions : drafts[r] \in Draft
  BY DEF OwnInv, TypeOK
<1>3. \A r \in Sessions : /\ drafts'[r].reserved = drafts[r].reserved
                          /\ drafts[r].state = "SENT" => drafts'[r].state = "SENT"
  BY <1>1, <1>2 DEF OwnInv, TypeOK, Draft
<1>4. PrintedOK' /\ \A r \in Sessions : ~Hands(p, r)
  BY <1>1, <1>3 DEF OrderlyInv, PrintedOK, Hands
<1> QED
  BY <1>1, <1>3, <1>4, IdleJob, OrderlySession DEF Working

LEMMA CreateEditOrderly ==
  ASSUME OwnInv, OrderlyInv, NEW p \in Procs, OnlyMoves(p), NEW s \in Sessions,
         CreateEditSession(p, s)
  PROVE  OrderlyInv'
<1> DEFINE c == running[p].target
           job == [stage |-> "copy", target |-> c, session |-> s]
<1>1. running[p] \in OpenJob /\ running[p].stage = "open"
  BY JobForms DEF CreateEditSession, OwnInv, TypeOK
<1>2. c \in Codes
  BY <1>1 DEF OpenJob
<1>3. /\ drafts[s].state = "NEW" /\ GoOn(p, job) /\ UNCHANGED <<printed, requests>>
      /\ \A r \in Sessions : r # s => drafts'[r] = drafts[r]
  BY DEF CreateEditSession, OwnInv, TypeOK
<1>4. drafts[s] = NewDraft
  BY <1>3 DEF OwnInv, SessionsOK
<1>5. printed[s].code = None
  BY <1>4 DEF OrderlyInv, PrintedOK, NewDraft
<1>6. PrintedOK' /\ \A r \in Sessions : ~Hands(p, r)
  BY <1>1, <1>3, <1>5 DEF OrderlyInv, PrintedOK, Hands
<1>7. job \in Job /\ job.stage \notin Working
  BY <1>2, JobTypes DEF CopyJob, Working
<1> HIDE DEF job
<1> QED
  BY <1>3, <1>6, <1>7, OrderlySession

LEMMA CopyOrderly ==
  ASSUME OwnInv, OrderlyInv, NEW p \in Procs, OnlyMoves(p), CopyDocuments(p)
  PROVE  OrderlyInv'
<1> DEFINE job == running[p]
           documents == requests[job.target].documents
<1>1. job \in CopyJob /\ JobOK(p) /\ job.stage = "copy"
  BY JobForms DEF CopyDocuments, OwnInv, TypeOK
<1>2. /\ job.target \in Codes /\ job.session \in Sessions
      /\ drafts[job.session].editing = job.target
  BY <1>1 DEF CopyJob, JobOK
<1>3. drafts[job.session].reserved = job.target /\ IsRequestCodeTaken(job.target)
  BY <1>2, Numbers DEF OwnInv, SessionsOK
<1>4. documents # NoDocuments => documents.code \in {None, job.target}
  BY <1>2, <1>3 DEF OrderlyInv, CodeMatchesDocuments
<1>5. UNCHANGED <<drafts, requests>> /\ GoOn(p, Idle)
  BY DEF CopyDocuments
<1>6. PICK file \in ({documents} \ {NoDocuments}) \cup
                    {[code |-> job.target, token |-> drafts[job.session].token]} :
        printed' = [printed EXCEPT ![job.session] = file]
  BY DEF CopyDocuments
<1>7. file.code \in {None, job.target}
  BY <1>4, <1>6
<1>8. PrintedOK' /\ \A r \in Sessions : ~Hands(p, r)
  BY <1>1, <1>2, <1>3, <1>5, <1>6, <1>7 DEF OrderlyInv, PrintedOK, Hands, OwnInv, TypeOK
<1> QED
  BY <1>5, <1>8, IdleJob, OrderlySession DEF Working

LEMMA EnsureOrderly ==
  ASSUME OwnInv, OrderlyInv, NEW p \in Procs, OnlyMoves(p), EnsureSessionRequestCode(p)
  PROVE  OrderlyInv'
<1> DEFINE old == running[p]
           s == old.session
           keeps == \/ drafts[s].editing # None
                    \/ old.reserved # None /\ ~IsRequestCodeTaken(old.reserved)
           code == IF keeps THEN old.reserved ELSE lastCode + 1
           stage == IF old.prepares THEN "print" ELSE "find"
           job == [old EXCEPT !.stage = stage, !.reserved = code]
<1>1. old \in WorkJob /\ Works(p) /\ WorkOK(p) /\ old.stage = "code"
  BY JobForms DEF EnsureSessionRequestCode, OwnInv, TypeOK, Working, Works, OrderlyInv
<1>2. /\ s \in Sessions /\ Open(s) /\ old.reserved = drafts[s].reserved
      /\ drafts[s] \in Draft /\ old.reserved \in Code
  BY <1>1 DEF WorkJob, WorkOK, OwnInv, TypeOK
<1>3. /\ keeps \/ lastCode < MaxCode
      /\ GoOn(p, job) /\ UNCHANGED <<printed, requests>>
      /\ drafts' = (IF ~keeps THEN [drafts EXCEPT ![s].reserved = code] ELSE drafts)
  BY <1>2 DEF EnsureSessionRequestCode
<1>4. code \in Code
  <2>1. CASE keeps
    BY <1>2, <2>1
  <2>2. CASE ~keeps
    <3>1. lastCode + 1 \in Code
      BY <1>3, <2>2, NextIsFree
    <3> QED
      BY <2>2, <3>1
  <2> QED
    BY <2>1, <2>2
<1>5. ~keeps => old.reserved = None
  BY <1>1, CodeIsFree
<1>6. ~keeps => printed[s].code = None
  BY <1>2, <1>5 DEF OrderlyInv, PrintedOK
<1>7. keeps => code = old.reserved
  OBVIOUS
<1> HIDE DEF keeps, code
<1>8. /\ job \in WorkJob /\ job.stage = stage /\ job.session = s /\ job.reserved = code
      /\ job.prepares = old.prepares /\ job.files = old.files
  BY <1>1, <1>4 DEF WorkJob, Working
<1>9. ~old.prepares => old.files.code \in {None, old.reserved}
  BY <1>1 DEF WorkOK
<1>10. stage \in {"print", "find"}
  OBVIOUS
<1> HIDE DEF job, stage, s
<1>11. /\ drafts'[s].state = "OPEN" /\ drafts'[s].reserved = code
       /\ \A r \in Sessions : r # s => drafts'[r] = drafts[r]
  BY <1>2, <1>3, <1>7 DEF OwnInv, TypeOK, Open, Draft
<1>12. ~job.prepares => job.files.code \in {None, job.reserved}
  <2>1. ~job.prepares => ~old.prepares
    BY <1>8, Zenon
  <2>2. old.files.code \in {None, old.reserved} => old.files.code \in {None, code}
    BY <1>5, <1>7
  <2> QED
    BY <1>8, <1>9, <2>1, <2>2
<1>13. PrintedOK'
  BY <1>2, <1>3, <1>6, <1>7, <1>11 DEF OrderlyInv, PrintedOK
<1>14. \A r \in Sessions : ~Hands(p, r)
  BY <1>1 DEF Hands
<1>15. \A r \in Sessions : drafts[r].state = "SENT" => drafts'[r].state = "SENT"
  BY <1>2, <1>11 DEF Open
<1> QED
  BY <1>3, <1>8, <1>10, <1>11, <1>12, <1>13, <1>14, <1>15, JobTypes, OrderlySession

LEMMA PrintOrderly ==
  ASSUME OwnInv, OrderlyInv, NEW p \in Procs, OnlyMoves(p), PrintDocuments(p)
  PROVE  OrderlyInv'
<1> DEFINE old == running[p]
           s == old.session
           draws == old.token = None
           token == IF draws THEN lastToken + 1 ELSE old.token
           job == [old EXCEPT !.stage = "prepared", !.token = token, !.draws = draws]
<1>1. old \in WorkJob /\ Works(p) /\ JobOK(p) /\ WorkOK(p) /\ old.stage = "print"
  BY JobForms DEF PrintDocuments, OwnInv, TypeOK, Working, Works, OrderlyInv
<1>2. /\ s \in Sessions /\ Open(s) /\ old.reserved = drafts[s].reserved /\ old.prepares
      /\ old.token \in Token
  BY <1>1 DEF WorkJob, WorkOK, JobOK
<1>3. /\ draws => lastToken < MaxToken
      /\ printed' = [printed EXCEPT ![s] = [code |-> old.reserved, token |-> token]]
      /\ GoOn(p, job) /\ UNCHANGED <<drafts, requests>>
  BY DEF PrintDocuments
<1>4. token \in Token /\ draws \in BOOLEAN
  BY <1>2, <1>3, Numbers DEF OwnInv, TypeOK, Token
<1> HIDE DEF token, draws
<1>5. /\ job \in WorkJob /\ job.stage = "prepared" /\ job.session = s
      /\ job.reserved = old.reserved /\ job.prepares = old.prepares
  BY <1>1, <1>4 DEF WorkJob, Working
<1>6. job.prepares
  BY <1>2, <1>5, Zenon
<1> HIDE DEF job, s
<1>7. PrintedOK' /\ drafts'[s].state = "OPEN"
  BY <1>2, <1>3 DEF OrderlyInv, PrintedOK, OwnInv, TypeOK, Open
<1>8. \A r \in Sessions : ~Hands(p, r)
  BY <1>1 DEF Hands
<1> QED
  BY <1>2, <1>3, <1>5, <1>6, <1>7, <1>8, JobTypes, OrderlySession

LEMMA SavePreparedOrderly ==
  ASSUME OwnInv, OrderlyInv, NEW p \in Procs, OnlyMoves(p), SavePrepared(p)
  PROVE  OrderlyInv'
<1> DEFINE s == running[p].session
           t == running[p].token
<1>1. running[p] \in WorkJob /\ running[p].stage = "prepared"
  BY JobForms DEF SavePrepared, OwnInv, TypeOK, Working
<1>2. s \in Sessions /\ \A r \in Sessions : drafts[r] \in Draft
  BY <1>1 DEF WorkJob, OwnInv, TypeOK
<1>3. /\ drafts' = drafts \/ drafts' = [drafts EXCEPT ![s].token = t]
      /\ GoOn(p, Idle) /\ UNCHANGED <<printed, requests>>
  BY DEF SavePrepared
<1>4. \A r \in Sessions : drafts'[r].state = drafts[r].state /\ drafts'[r].reserved = drafts[r].reserved
  BY <1>2, <1>3 DEF Draft, OwnInv, TypeOK
<1>5. PrintedOK' /\ \A r \in Sessions : ~Hands(p, r)
  BY <1>1, <1>3, <1>4 DEF OrderlyInv, PrintedOK, Hands
<1> QED
  BY <1>3, <1>4, <1>5, IdleJob, OrderlySession DEF Working

LEMMA FindOrderly ==
  ASSUME OwnInv, OrderlyInv, NEW p \in Procs, OnlyMoves(p), FindCreated(p)
  PROVE  OrderlyInv'
<1> DEFINE old == running[p]
           job == [old EXCEPT !.stage = "make"]
<1>1. old \in WorkJob /\ Works(p) /\ WorkOK(p) /\ old.stage = "find"
  BY JobForms DEF FindCreated, OwnInv, TypeOK, Working, Works, OrderlyInv
<1>2. \A c \in CreatedFrom(old) : FALSE
  BY <1>1, FoundIsOwn, NoneMade
<1>3. GoOn(p, job) /\ UNCHANGED <<drafts, printed, requests>>
  BY <1>2 DEF FindCreated
<1>4. /\ job \in WorkJob /\ job.stage = "make" /\ job.session = old.session
      /\ job.reserved = old.reserved /\ job.files = old.files /\ job.prepares = old.prepares
  BY <1>1 DEF WorkJob, Working
<1>5. ~job.prepares => ~old.prepares
  BY <1>4, Zenon
<1> HIDE DEF job
<1>6. PrintedOK' /\ \A r \in Sessions : ~Hands(p, r)
  BY <1>1, <1>3 DEF OrderlyInv, PrintedOK, Hands
<1>7. /\ drafts'[job.session].state = "OPEN"
      /\ job.reserved = drafts'[job.session].reserved
      /\ ~job.prepares => job.files.code \in {None, job.reserved}
  BY <1>1, <1>3, <1>4, <1>5 DEF WorkOK, Open
<1> QED
  BY <1>3, <1>4, <1>6, <1>7, JobTypes, OrderlySession

LEMMA DropOrderly ==
  ASSUME OwnInv, OrderlyInv, NEW p \in Procs, OnlyMoves(p), DropSession(p)
  PROVE  OrderlyInv'
<1> DEFINE s == running[p].session
<1>1. running[p] \in WorkJob /\ WorkOK(p) /\ Works(p)
  BY JobForms DEF DropSession, OwnInv, TypeOK, Working, Works, OrderlyInv
<1>2. s \in Sessions /\ Open(s) /\ \A r \in Sessions : drafts[r] \in Draft
  BY <1>1 DEF WorkJob, WorkOK, OwnInv, TypeOK
<1>3. /\ drafts' = [drafts EXCEPT ![s].state = "SENT"]
      /\ GoOn(p, Idle) /\ UNCHANGED <<printed, requests>>
  BY <1>2 DEF DropSession
<1>4. /\ drafts'[s].state = "SENT"
      /\ \A r \in Sessions : /\ drafts'[r].reserved = drafts[r].reserved
                             /\ r # s => drafts'[r].state = drafts[r].state
  BY <1>2, <1>3 DEF Draft, OwnInv, TypeOK
<1>5. PrintedOK' /\ \A r \in Sessions : Hands(p, r) => r = s
  BY <1>3, <1>4 DEF OrderlyInv, PrintedOK, Hands
<1> HIDE DEF s
<1> QED
  BY <1>3, <1>4, <1>5, IdleJob, OrderlySession DEF Working

LEMMA CreateRecordOrderly ==
  ASSUME OwnInv, OrderlyInv, NEW p \in Procs, OnlyMoves(p), CreatePurchaseRequestRecord(p)
  PROVE  OrderlyInv'
<1> DEFINE old == running[p]
           s == old.session
           c == old.reserved
           r == [from |-> s, token |-> None, documents |-> NoDocuments]
           job == [old EXCEPT !.stage = "finish", !.target = c]
<1>1. old \in WorkJob /\ Works(p) /\ JobOK(p) /\ WorkOK(p) /\ old.stage = "make"
  BY JobForms DEF CreatePurchaseRequestRecord, OwnInv, TypeOK, Working, Works, OrderlyInv
<1>2. /\ s \in Sessions /\ c \in Codes /\ c \in Code /\ Open(s) /\ drafts[s].editing = None
      /\ c = drafts[s].reserved /\ ~old.prepares
  BY <1>1, Numbers DEF WorkJob, WorkOK, JobOK
<1>3. ~IsRequestCodeTaken(c)
  BY <1>1, <1>2, Numbers, CodeIsFree
<1>4. /\ requests' = [requests EXCEPT ![c] = r] /\ GoOn(p, job) /\ UNCHANGED <<drafts, printed>>
  BY <1>3 DEF CreatePurchaseRequestRecord
<1>5. \A d \in Codes : requests[d].from # s
  BY <1>1, NoneMade
<1>6. r.from = s /\ r.documents = NoDocuments
  OBVIOUS
<1>7. /\ job \in WorkJob /\ job.stage = "finish" /\ job.session = s /\ job.reserved = c
      /\ job.files = old.files /\ job.prepares = old.prepares /\ job.target = c
  BY <1>1, <1>2 DEF WorkJob, Working
<1> HIDE DEF r, job
<1>8. requests'[c] = r /\ \A d \in Codes : d # c => requests'[d] = requests[d]
  BY <1>2, <1>4 DEF OwnInv, TypeOK
<1>9. OneEach'
  BY <1>5, <1>6, <1>8 DEF OrderlyInv, OneEach
<1>10. CodeMatchesDocuments' /\ PrintedOK'
  BY <1>4, <1>6, <1>8 DEF OrderlyInv, CodeMatchesDocuments, PrintedOK, IsRequestCodeTaken
<1>11. \A d \in Codes : requests'[d].from \in Sessions =>
         \/ drafts'[requests'[d].from].state = "SENT"
         \/ job.stage \in {"finish", "drop"} /\ job.session = requests'[d].from
  <2>1. \A q \in Sessions : ~Hands(p, q)
    BY <1>1 DEF Hands
  <2> QED
    BY <1>4, <1>6, <1>7, <1>8, <2>1, AloneMade
<1>12. ~job.prepares => job.files.code \in {None, job.reserved}
  <2>1. ~old.prepares => old.files.code \in {None, old.reserved}
    BY <1>1 DEF WorkOK
  <2>2. old.files.code \in {None, old.reserved}
    BY <1>2, <2>1
  <2> QED
    BY <1>7, <2>2
<1>13. drafts'[s].state = "OPEN" /\ drafts'[s].reserved = c
  BY <1>2, <1>4 DEF Open
<1> QED
  BY <1>4, <1>7, <1>9, <1>10, <1>11, <1>12, <1>13, JobTypes, OrderlyStep

LEMMA SaveSubmittedOrderly ==
  ASSUME OwnInv, OrderlyInv, NEW p \in Procs, OnlyMoves(p), SaveSubmitted(p)
  PROVE  OrderlyInv'
<1> DEFINE old == running[p]
           s == old.session
           c == old.target
           keeps == \/ old.token = None
                    \/ old.stage = "attach" /\ requests[c].token # None
           token == IF keeps THEN requests[c].token ELSE old.token
           r == [requests[c] EXCEPT !.documents = old.files, !.token = token]
           job == [old EXCEPT !.stage = "drop"]
<1>1. old \in WorkJob /\ Works(p) /\ JobOK(p) /\ WorkOK(p) /\ old.stage = "finish"
  BY JobForms DEF SaveSubmitted, OwnInv, TypeOK, Working, Works, OrderlyInv, WorkOK
<1>2. /\ s \in Sessions /\ c \in Codes /\ Open(s) /\ IsRequestCodeTaken(c)
      /\ old.reserved = drafts[s].reserved /\ ~old.prepares /\ c = old.reserved
  BY <1>1 DEF WorkJob, WorkOK, JobOK
<1>3. requests[c] \in Request
  BY <1>2, RequestForms DEF IsRequestCodeTaken, OwnInv, TypeOK
<1>4. old.files.code \in {None, c}
  BY <1>1, <1>2 DEF WorkOK
<1>5. /\ requests' = [requests EXCEPT ![c] = r] /\ GoOn(p, job) /\ UNCHANGED <<drafts, printed>>
  BY DEF SaveSubmitted
<1> HIDE DEF token, keeps
<1>6. r.from = requests[c].from /\ r.documents = old.files
  BY <1>3 DEF Request
<1>7. /\ job \in WorkJob /\ job.stage = "drop" /\ job.session = s /\ job.reserved = c
      /\ job.files = old.files /\ job.prepares = old.prepares
  BY <1>1, <1>2 DEF WorkJob, Working
<1> HIDE DEF r, job
<1>8. requests'[c] = r /\ \A d \in Codes : d # c => requests'[d] = requests[d]
  BY <1>2, <1>5 DEF OwnInv, TypeOK
<1>9. \A d \in Codes : requests'[d].from = requests[d].from
  BY <1>6, <1>8
<1>10. OneEach'
  BY <1>9 DEF OrderlyInv, OneEach
<1>11. CodeMatchesDocuments' /\ PrintedOK'
  BY <1>4, <1>5, <1>6, <1>8 DEF OrderlyInv, CodeMatchesDocuments, PrintedOK, IsRequestCodeTaken
<1>12. \A d \in Codes : requests'[d].from \in Sessions =>
         \/ drafts'[requests'[d].from].state = "SENT"
         \/ job.stage \in {"finish", "drop"} /\ job.session = requests'[d].from
  BY <1>5, <1>7, <1>9, AloneMade DEF Hands
<1>13. drafts'[s].state = "OPEN" /\ drafts'[s].reserved = c
  BY <1>2, <1>5 DEF Open
<1>14. job.files.code \in {None, job.reserved}
  BY <1>4, <1>7
<1> QED
  BY <1>5, <1>7, <1>10, <1>11, <1>12, <1>13, <1>14, JobTypes, OrderlyStep

LEMMA AtOnceOrderly ==
  ASSUME OwnInv, OrderlyInv, \A p \in Procs : running[p] = Idle, AtOnce
  PROVE  OrderlyInv'
<1>1. UNCHANGED <<printed, running>>
  BY DEF AtOnce, DeleteActiveSession, UpdateWithDocuments, CreateDirectly
<1>2. \A p \in Procs : ~Works(p) /\ ~Works(p)' /\ running'[p] = Idle
  BY <1>1, IdleJob DEF Works, Working
<1>3. \A c \in Codes : requests[c].from \in Sessions => drafts[requests[c].from].state = "SENT"
  BY <1>2 DEF OrderlyInv, MadeIsSent, Hands
<1>4. \A r \in Sessions : drafts[r] \in Draft
  BY DEF OwnInv, TypeOK
<1>5. (\A p \in Procs : WorkOK(p)')
      /\ \A p, q \in Procs : running'[p] # Idle /\ running'[q] # Idle => p = q
  BY <1>2 DEF WorkOK
<1>6. ASSUME NEW s \in Sessions, DeleteActiveSession(s)  PROVE OrderlyInv'
  <2>1. /\ Open(s) /\ drafts' = [drafts EXCEPT ![s].state = "DELETED"] /\ UNCHANGED requests
    BY <1>6 DEF DeleteActiveSession
  <2>2. \A r \in Sessions : /\ drafts'[r].reserved = drafts[r].reserved
                            /\ drafts[r].state = "SENT" => drafts'[r].state = "SENT"
    BY <1>4, <2>1 DEF Open, Draft, OwnInv, TypeOK
  <2>3. PrintedOK' /\ MadeIsSent' /\ OneEach' /\ CodeMatchesDocuments'
    BY <1>1, <1>3, <2>1, <2>2
    DEF OrderlyInv, PrintedOK, MadeIsSent, OneEach, CodeMatchesDocuments, IsRequestCodeTaken
  <2> QED
    BY <1>5, <2>3 DEF OrderlyInv
<1>7. ASSUME NEW s \in Sessions, UpdateWithDocuments(s)  PROVE OrderlyInv'
  <2> DEFINE c == drafts[s].editing
             r == [requests[c] EXCEPT !.documents = printed[s]]
  <2>1. c # None /\ requests' = [requests EXCEPT ![c] = r] /\ UNCHANGED drafts
    BY <1>7 DEF UpdateWithDocuments
  <2>2. c \in Codes /\ IsRequestCodeTaken(c) /\ drafts[s].reserved = c
    BY <2>1, Numbers DEF OwnInv, SessionsOK, TypeOK, Draft
  <2>3. requests[c] \in Request
    BY <2>2, RequestForms DEF IsRequestCodeTaken, OwnInv, TypeOK
  <2>4. r.from = requests[c].from /\ r.documents = printed[s]
    BY <2>3 DEF Request
  <2>5. printed[s].code \in {None, c}
    BY <2>2 DEF OrderlyInv, PrintedOK
  <2> HIDE DEF r
  <2>6. requests'[c] = r /\ \A d \in Codes : d # c => requests'[d] = requests[d]
    BY <2>1, <2>2 DEF OwnInv, TypeOK
  <2> HIDE DEF c
  <2>7. \A d \in Codes : requests'[d].from = requests[d].from
    BY <2>4, <2>6
  <2>8. PrintedOK' /\ MadeIsSent' /\ OneEach'
    BY <1>1, <1>3, <2>1, <2>7 DEF OrderlyInv, PrintedOK, MadeIsSent, OneEach
  <2>9. CodeMatchesDocuments'
    BY <2>4, <2>5, <2>6 DEF OrderlyInv, CodeMatchesDocuments, IsRequestCodeTaken
  <2> QED
    BY <1>5, <2>8, <2>9 DEF OrderlyInv
<1>8. CASE CreateDirectly
  <2> DEFINE c == lastCode + 1
             r == [from |-> "DIRECT", token |-> None, documents |-> NoDocuments]
  <2>1. requests' = [requests EXCEPT ![c] = r] /\ UNCHANGED drafts /\ lastCode < MaxCode
    BY <1>8 DEF CreateDirectly
  <2>2. c \in Codes
    BY <2>1, NextIsFree
  <2>3. r.from \notin Sessions /\ r.documents = NoDocuments
    BY DraftAssumption
  <2> HIDE DEF r, c
  <2>4. requests'[c] = r /\ \A d \in Codes : d # c => requests'[d] = requests[d]
    BY <2>1, <2>2 DEF OwnInv, TypeOK
  <2>5. PrintedOK' /\ MadeIsSent' /\ OneEach' /\ CodeMatchesDocuments'
    BY <1>1, <1>3, <2>1, <2>3, <2>4
    DEF OrderlyInv, PrintedOK, MadeIsSent, OneEach, CodeMatchesDocuments, IsRequestCodeTaken
  <2> QED
    BY <1>5, <2>5 DEF OrderlyInv
<1> QED
  BY <1>6, <1>7, <1>8 DEF AtOnce

SessionsInv == OwnInv /\ (orderly => OrderlyInv)

LEMMA SessionsInit == Init => SessionsInv
<1> SUFFICES ASSUME Init  PROVE OrderlyInv
  BY OwnInit DEF SessionsInv
<1>1. \A p \in Procs : running[p] = Idle /\ ~Works(p)
  BY IdleJob DEF Init, Works, Working
<1>2. \A c \in Codes : requests[c] = NoRequest /\ requests[c].from \notin Sessions
  BY NoRequestApart DEF Init
<1>3. OneEach /\ MadeIsSent /\ CodeMatchesDocuments
  BY <1>2 DEF OneEach, MadeIsSent, CodeMatchesDocuments, IsRequestCodeTaken
<1>4. PrintedOK
  BY DEF Init, PrintedOK, Plain
<1> QED
  BY <1>1, <1>3, <1>4 DEF OrderlyInv, WorkOK

LEMMA SessionsNext == SessionsInv /\ [Next]_vars => SessionsInv'
<1> SUFFICES ASSUME SessionsInv, [Next]_vars, orderly'  PROVE OrderlyInv'
  BY OwnNext DEF SessionsInv
<1>1. CASE UNCHANGED vars
  <2>1. OrderlyInv' <=> OrderlyInv
    BY <1>1
    DEF vars, OrderlyInv, OneEach, MadeIsSent, Hands, PrintedOK, CodeMatchesDocuments,
        IsRequestCodeTaken, WorkOK, Works, Open
  <2> QED
    BY <1>1, <2>1 DEF vars, SessionsInv
<1>2. ASSUME NEW p \in Procs, Begin(p) \/ Continue(p),
             orderly' = (orderly /\ \A q \in Procs \ {p} : running[q] = Idle)
      PROVE  OrderlyInv'
  <2>1. OwnInv /\ OrderlyInv /\ OnlyMoves(p)
    BY <1>2 DEF SessionsInv, OnlyMoves
  <2>2. CASE Begin(p)
    BY <2>1, <2>2, BeginOrderly
  <2>3. CASE Continue(p)
    BY <2>1, <2>3, CreateActiveOrderly, CreateEditOrderly, CopyOrderly, EnsureOrderly,
       PrintOrderly, SavePreparedOrderly, FindOrderly, CreateRecordOrderly,
       SaveSubmittedOrderly, DropOrderly
    DEF Continue
  <2> QED
    BY <1>2, <2>2, <2>3
<1>3. CASE AtOnce /\ orderly' = (orderly /\ \A q \in Procs : running[q] = Idle)
  BY <1>3, AtOnceOrderly DEF SessionsInv
<1> QED
  BY <1>1, <1>2, <1>3 DEF Next

-----------------------------------------------------------------------------
\* A session ends by being submitted only when there is a request made from it
\* with its documents, for any sessions and handlers, whatever overlaps or stops
\* on the way (submitActiveSession and findRequestCreatedFromSession of
\* PurchaseRequestsService).
THEOREM NothingHandedInIsLost == Spec => []SentIsSubmitted
<1>1. OwnInv => SentIsSubmitted
  BY DEF OwnInv
<1> QED
  BY <1>1, OwnInit, OwnNext, PTL DEF Spec

\* As long as handlers did not overlap and none stopped, a session makes one
\* request, for any sessions and handlers (submitActiveSession creates only when
\* findRequestCreatedFromSession finds nothing).
THEOREM OneRequestFromEach == Spec => []OneRequestPerSession
<1>1. SessionsInv => OneRequestPerSession
  BY DEF SessionsInv, OrderlyInv, OneEach, OneRequestPerSession
<1> QED
  BY <1>1, SessionsInit, SessionsNext, PTL DEF Spec

\* And that request has the code its documents bear, for any sessions and handlers
\* (ensureSessionRequestCode).
THEOREM ReservedCodeIsKept == Spec => []CodeIsKept
<1>1. SessionsInv => CodeIsKept
  BY DEF SessionsInv, OrderlyInv, CodeIsKept
<1> QED
  BY <1>1, SessionsInit, SessionsNext, PTL DEF Spec

=============================================================================
