---------------------------- MODULE SessionStore ----------------------------
(***************************************************************************)
(* What the JSON programs promise of their file.  It keeps one document.   *)
(* A session begins with that document, or is told that it is lost; when   *)
(* the file cannot be read, it begins without looking at it.  The session  *)
(* changes its own copy, and saves that copy whole; a program of the batch *)
(* kind saves once, as it ends.  The document is lost only by a save that  *)
(* has begun and does not finish, and replaced only by one that finishes.  *)
(***************************************************************************)
CONSTANTS Empty, Lost, NoSession, Broken

VARIABLES
  durable,  \* the document on file
  session,  \* the session's copy; Broken: a session without a document
  saving,   \* a save has begun
  failed,   \* the session's latest load or save failed
  batch     \* the program saves as it ends

svars == <<durable, session, saving, failed, batch>>
Working == session \notin {NoSession, Broken}

SInit ==
  /\ durable = Empty /\ session = NoSession /\ saving = FALSE /\ failed = FALSE
  /\ batch \in BOOLEAN

SBegin ==
  /\ session = NoSession
  /\ session' = IF durable = Lost THEN Broken ELSE durable
  /\ failed' = FALSE
  /\ UNCHANGED <<durable, saving, batch>>

SBeginBlind ==
  /\ session = NoSession
  /\ session' \in {Empty, Broken} /\ failed' = TRUE
  /\ UNCHANGED <<durable, saving, batch>>

SEdit ==
  /\ Working /\ ~saving /\ session' \notin {NoSession, Broken}
  /\ UNCHANGED <<durable, saving, failed, batch>>

SSave ==
  /\ session # NoSession /\ ~saving
  /\ saving' = TRUE
  /\ UNCHANGED <<durable, session, failed, batch>>

(* A session that goes on, with or without a failure to its name, or ends.  *)
GoesOn(f) == ~batch /\ session' = session /\ failed' = f
Ends == session' = NoSession /\ failed' = FALSE

SCommit ==
  /\ saving /\ saving' = FALSE
  /\ durable' = IF session = Broken THEN Lost ELSE session
  /\ GoesOn(FALSE) \/ Ends
  /\ UNCHANGED batch

SLose ==
  /\ saving /\ saving' = FALSE
  /\ durable' = Lost
  /\ GoesOn(TRUE) \/ Ends
  /\ UNCHANGED batch

SFail ==
  /\ session # NoSession /\ ~saving
  /\ GoesOn(TRUE)
  /\ UNCHANGED <<durable, saving, batch>>

SEnd ==
  /\ session # NoSession /\ ~saving
  /\ Ends
  /\ UNCHANGED <<durable, saving, batch>>

SNext == SBegin \/ SBeginBlind \/ SEdit \/ SSave \/ SCommit \/ SLose \/ SFail \/ SEnd

SSpec == SInit /\ [][SNext]_svars
=============================================================================
