-------------------------------- MODULE Auth --------------------------------
(***************************************************************************)
(* Authentication: the AuthClient of one unlock dialog and the PAM helper  *)
(* processes it starts, one after another.  A helper that is told to go    *)
(* may still be running, and writing, when its successor is started.       *)
(*                                                                         *)
(* A helper has three threads: its main thread, which runs main loops      *)
(* nested in one another, PAM's, for which the main thread waits in such a *)
(* loop, and the one that reads passwords from stdin.                      *)
(***************************************************************************)
EXTENDS Naturals, Sequences

CONSTANTS
  Helpers,        \* the helper processes that may be started
  None,           \* self.proc is None
  MAX_FAILURES,   \* failures after which a helper gives up
  StartMayFail,   \* Gio.Subprocess may raise
  InitMayFail,    \* the initialization of a helper may fail
  HelperMayDie,   \* a helper may be killed by something else
  MaxUnread       \* bound: passwords waiting in the pipe of a helper

ASSUME AuthAssumption ==
  /\ None \notin Helpers
  /\ MAX_FAILURES \in Nat \ {0}
  /\ StartMayFail \in BOOLEAN
  /\ InitMayFail \in BOOLEAN
  /\ HelperMayDie \in BOOLEAN
  /\ MaxUnread \in Nat \ {0}

VARIABLES
  (* AuthClient *)
  proc,          \* the current helper
  cancellable,   \* self.cancellable is not None
  pipe,          \* what the client does with the output of each helper
  idles,         \* queued emissions of results
  unlocked,      \* auth-success has been emitted, and the dialog destroyed
  (* each helper *)
  state,         \* what its main thread does
  given,         \* what PAM has been given in answer to its prompts
  slot,          \* password_ptr
  failures,      \* loop_counter
  stdinCancel,   \* stdin_cancellable; shutdown() clears the pointer
  (* between them *)
  stdin,         \* passwords written and not read
  stdout,        \* results written and not read
  told           \* the helper has been sent SIGTERM

clientVars == <<proc, cancellable, idles, unlocked>>
pamVars    == <<given, failures>>
inputVars  == <<slot, stdin>>
vars == <<clientVars, pipe, state, pamVars, inputVars, stdinCancel, stdout, told>>

Passwords == {"right", "wrong"}
Results   == {"success", "failure", "cancelled"}

\* The first read of a helper's output can be cancelled, the later ones cannot; when
\* none is under way the pipe waits for on_proc_completed to close it.
PipeStates == {"unused", "first", "next", "unread", "closed"}
Open       == {"first", "next", "unread"}

\* "prompt": auth_message_handler waits for a password; "pam": PAM works.
\* "aborted": its initialization failed.
Ended   == {"exited", "aborted"}
Running == {"boot", "idle", "pam", "prompt", "done"}

Init ==
  /\ proc = None /\ cancellable = FALSE
  /\ pipe = [h \in Helpers |-> "unused"]
  /\ idles = <<>> /\ unlocked = FALSE
  /\ state = [h \in Helpers |-> "new"]
  /\ given = [h \in Helpers |-> "nothing"]
  /\ slot = [h \in Helpers |-> "none"]
  /\ failures = [h \in Helpers |-> 0]
  /\ stdinCancel = [h \in Helpers |-> "live"]
  /\ stdin = [h \in Helpers |-> <<>>]
  /\ stdout = [h \in Helpers |-> <<>>]
  /\ told = [h \in Helpers |-> FALSE]

-----------------------------------------------------------------------------
(* AuthClient. *)

\* initialize().
Start(h) ==
  /\ ~unlocked /\ proc = None
  /\ state[h] = "new"
  /\ proc' = h
  /\ cancellable' = TRUE
  /\ pipe' = [pipe EXCEPT ![h] = "first"]
  /\ state' = [state EXCEPT ![h] = "boot"]
  /\ UNCHANGED <<idles, unlocked, pamVars, inputVars, stdinCancel, stdout, told>>

\* initialize() when the helper cannot be started: the cancellable is left behind.
StartFails ==
  /\ StartMayFail
  /\ ~unlocked /\ proc = None
  /\ cancellable' = TRUE
  /\ UNCHANGED <<proc, idles, unlocked, pipe, state, pamVars, inputVars, stdinCancel,
                 stdout, told>>

\* Mutant of EndProc: the helper is forgotten without being told.
ForgetProc ==
  /\ proc' = None /\ cancellable' = FALSE
  /\ UNCHANGED told

\* end_proc(), but for the pipes.
EndProc ==
  /\ proc' = None /\ cancellable' = FALSE
  /\ told' = [h \in Helpers |-> told[h] \/ (h = proc /\ state[h] \in Running)]

\* The pipes once self.cancellable is cancelled.
FirstReadCancelled ==
  [h \in Helpers |-> IF h = proc /\ pipe[h] = "first" THEN "unread" ELSE pipe[h]]

\* cancel().
Cancel ==
  /\ ~unlocked /\ cancellable
  /\ EndProc
  /\ pipe' = FirstReadCancelled
  /\ UNCHANGED <<idles, unlocked, state, pamVars, inputVars, stdinCancel, stdout>>

\* message_to_child(); writing to a helper that has ended only fails.
Submit(password) ==
  /\ ~unlocked /\ proc # None
  /\ state[proc] \in Running
  /\ Len(stdin[proc]) < MaxUnread
  /\ stdin' = [stdin EXCEPT ![proc] = Append(@, password)]
  /\ UNCHANGED <<clientVars, pipe, state, pamVars, slot, stdinCancel, stdout, told>>

EndsHelper(results) == \E i \in DOMAIN results : results[i] \in {"success", "cancelled"}

\* Mutant of MessageFromChild: no further read after a result that ends nothing.
MessageFromChildOnce(h) ==
  /\ pipe[h] \in {"first", "next"}
  /\ stdout[h] # <<>>
  /\ stdout' = [stdout EXCEPT ![h] = <<>>]
  /\ pipe' = [pipe EXCEPT ![h] = "unread"]
  /\ idles' = IF cancellable THEN idles \o stdout[h] ELSE idles
  /\ UNCHANGED <<proc, cancellable, told>>
  /\ UNCHANGED <<unlocked, state, pamVars, inputVars, stdinCancel>>

\* Mutant of MessageFromChild: what is read is reported, whether or not there is a
\* current helper.
MessageFromChildAlways(h) ==
  /\ pipe[h] \in {"first", "next"}
  /\ stdout[h] # <<>>
  /\ stdout' = [stdout EXCEPT ![h] = <<>>]
  /\ idles' = idles \o stdout[h]
  /\ IF EndsHelper(stdout[h])
       THEN EndProc /\ pipe' = [FirstReadCancelled EXCEPT ![h] = "unread"]
       ELSE /\ pipe' = [pipe EXCEPT ![h] = "next"]
            /\ UNCHANGED <<proc, cancellable, told>>
  /\ UNCHANGED <<unlocked, state, pamVars, inputVars, stdinCancel>>

\* message_from_child(): whatever can be read is read at once, and taken for output of
\* the current helper if only there is a cancellable.
MessageFromChild(h) ==
  /\ pipe[h] \in {"first", "next"}
  /\ stdout[h] # <<>>
  /\ stdout' = [stdout EXCEPT ![h] = <<>>]
  /\ IF cancellable
       THEN /\ idles' = idles \o stdout[h]
            /\ IF EndsHelper(stdout[h])
                 THEN EndProc /\ pipe' = [FirstReadCancelled EXCEPT ![h] = "unread"]
                 ELSE /\ pipe' = [pipe EXCEPT ![h] = "next"]
                      /\ UNCHANGED <<proc, cancellable, told>>
       ELSE /\ pipe' = [pipe EXCEPT ![h] = "unread"]
            /\ UNCHANGED <<proc, cancellable, idles, told>>
  /\ UNCHANGED <<unlocked, state, pamVars, inputVars, stdinCancel>>

\* Mutant of ProcCompleted: the client is reset whichever helper has completed.
ProcCompletedResets(h) ==
  /\ pipe[h] \in Open
  /\ state[h] \in Ended \/ told[h]
  /\ pipe' = [pipe EXCEPT ![h] = "closed"]
  /\ proc' = None /\ cancellable' = FALSE
  /\ UNCHANGED <<idles, unlocked, state, pamVars, inputVars, stdinCancel, stdout, told>>

\* on_proc_completed(), because the helper has exited or the wait was cancelled.
ProcCompleted(h) ==
  /\ pipe[h] \in Open
  /\ state[h] \in Ended \/ told[h]
  /\ pipe' = [pipe EXCEPT ![h] = "closed"]
  /\ IF proc = h THEN proc' = None /\ cancellable' = FALSE
                 ELSE UNCHANGED <<proc, cancellable>>
  /\ UNCHANGED <<idles, unlocked, state, pamVars, inputVars, stdinCancel, stdout, told>>

\* A queued result is emitted.  The dialog answers success by unlocking, which destroys
\* it, and a cancellation by cancel().
Emit ==
  /\ idles # <<>>
  /\ idles' = IF Head(idles) = "success" THEN <<>> ELSE Tail(idles)
  /\ unlocked' = (Head(idles) = "success")
  /\ IF Head(idles) # "failure" /\ cancellable
       THEN EndProc /\ pipe' = FirstReadCancelled
       ELSE UNCHANGED <<proc, cancellable, pipe, told>>
  /\ UNCHANGED <<state, pamVars, inputVars, stdinCancel, stdout>>

-----------------------------------------------------------------------------
(* A helper. *)

StdinCancelled(h) ==
  [stdinCancel EXCEPT ![h] = IF @ = "gone" THEN @ ELSE "cancelled"]

\* send_success and its like write unless the cancellable says otherwise; once
\* shutdown() has cleared the pointer they write again.
Writes(h) == stdinCancel[h] # "cancelled"

\* Where the main thread gets after writing: a pipe that the client has closed kills it.
AfterWriting(h, next) == IF Writes(h) /\ pipe[h] = "closed" THEN "exited" ELSE next

Send(h, result, next) ==
  /\ state' = [state EXCEPT ![h] = AfterWriting(h, next)]
  /\ stdout' = IF Writes(h) /\ pipe[h] # "closed"
                 THEN [stdout EXCEPT ![h] = Append(@, result)] ELSE stdout

\* The process ends, and with it what it had read or not.
Ends(h, how) ==
  /\ state' = [state EXCEPT ![h] = how]
  /\ slot' = [slot EXCEPT ![h] = "none"]
  /\ stdin' = [stdin EXCEPT ![h] = <<>>]

\* main() up to its main loop.
Boot(h) ==
  /\ state[h] = "boot"
  /\ state' = [state EXCEPT ![h] = "idle"]
  /\ UNCHANGED <<clientVars, pipe, pamVars, inputVars, stdinCancel, stdout, told>>

\* response_lock_init_failed(): a helper that cannot lock reports success.
BootFails(h) ==
  /\ InitMayFail
  /\ state[h] = "boot"
  /\ Ends(h, IF pipe[h] = "closed" THEN "exited" ELSE "aborted")
  /\ stdout' = [stdout EXCEPT ![h] = IF pipe[h] = "closed" THEN @ ELSE Append(@, "success")]
  /\ UNCHANGED <<clientVars, pipe, pamVars, stdinCancel, told>>

\* auth_check_idle: PAM is started.
BeginAuth(h) ==
  /\ state[h] = "idle" /\ stdinCancel[h] # "gone"
  /\ state' = [state EXCEPT ![h] = "pam"]
  /\ UNCHANGED <<clientVars, pipe, pamVars, inputVars, stdinCancel, stdout, told>>

\* PAM asks, and auth_message_handler shows the prompt.
Prompt(h) ==
  /\ state[h] = "pam"
  /\ given[h] = "nothing"
  /\ state' = [state EXCEPT ![h] = AfterWriting(h, "prompt")]
  /\ UNCHANGED <<clientVars, pipe, pamVars, inputVars, stdinCancel, stdout, told>>

\* auth_message_handler finds a password in the slot.
TakePassword(h) ==
  /\ state[h] = "prompt" /\ slot[h] # "none"
  /\ given' = [given EXCEPT ![h] = slot[h]]
  /\ slot' = [slot EXCEPT ![h] = "none"]
  /\ state' = [state EXCEPT ![h] = AfterWriting(h, "pam")]
  /\ UNCHANGED <<clientVars, pipe, failures, stdin, stdinCancel, stdout, told>>

\* auth_message_handler finds stdin cancelled, and interrupts the conversation.
GiveUpPrompt(h) ==
  /\ state[h] = "prompt" /\ slot[h] = "none"
  /\ stdinCancel[h] = "cancelled"
  /\ given' = [given EXCEPT ![h] = "wrong"]
  /\ state' = [state EXCEPT ![h] = "pam"]
  /\ UNCHANGED <<clientVars, pipe, failures, inputVars, stdinCancel, stdout, told>>

\* Mutant of PamAccepts: any answer will do.
PamAcceptsAny(h) ==
  /\ state[h] = "pam" /\ given[h] # "nothing"
  /\ Send(h, "success", "done")
  /\ stdinCancel' = StdinCancelled(h)
  /\ UNCHANGED <<clientVars, pipe, pamVars, inputVars, told>>

\* The rest of auth_check_idle when the password was accepted.
PamAccepts(h) ==
  /\ state[h] = "pam" /\ given[h] = "right"
  /\ Send(h, "success", "done")
  /\ stdinCancel' = StdinCancelled(h)
  /\ UNCHANGED <<clientVars, pipe, pamVars, inputVars, told>>

\* Mutant of PamRejects: one attempt too many.
PamRejectsOnceMore(h) ==
  /\ state[h] = "pam" /\ given[h] # "nothing"
  /\ failures' = [failures EXCEPT ![h] = @ + 1]
  /\ given' = [given EXCEPT ![h] = "nothing"]
  /\ IF failures[h] < MAX_FAILURES
       THEN Send(h, "failure", "idle") /\ UNCHANGED stdinCancel
       ELSE Send(h, "cancelled", "done") /\ stdinCancel' = StdinCancelled(h)
  /\ UNCHANGED <<clientVars, pipe, inputVars, told>>

\* The rest of auth_check_idle when it was not; the last failure is a cancellation.
PamRejects(h) ==
  /\ state[h] = "pam" /\ given[h] # "nothing"
  /\ failures' = [failures EXCEPT ![h] = @ + 1]
  /\ given' = [given EXCEPT ![h] = "nothing"]
  /\ IF failures[h] + 1 < MAX_FAILURES
       THEN /\ Send(h, "failure", "idle")
            /\ UNCHANGED stdinCancel
       ELSE /\ Send(h, "cancelled", "done")
            /\ stdinCancel' = StdinCancelled(h)
  /\ UNCHANGED <<clientVars, pipe, inputVars, told>>

\* stdin_monitor_task_thread reads all there is; two lines read at once are one wrong
\* password.  The slot is overwritten, whether or not its password was used.
ReadStdin(h) ==
  /\ state[h] \in Running \ {"boot"}
  /\ stdin[h] # <<>> /\ stdinCancel[h] # "gone"
  /\ slot' = [slot EXCEPT ![h] = IF Len(stdin[h]) = 1 THEN Head(stdin[h]) ELSE "wrong"]
  /\ stdin' = [stdin EXCEPT ![h] = <<>>]
  /\ UNCHANGED <<clientVars, pipe, state, pamVars, stdinCancel, stdout, told>>

\* Mutant of Sigterm: the handler does nothing.
SigtermIgnored(h) ==
  /\ told[h] /\ state[h] \in Running /\ stdinCancel[h] = "live"
  /\ UNCHANGED vars

\* handle_sigterm; before main() installs it the signal kills.
Sigterm(h) ==
  /\ told[h] /\ state[h] \in Running /\ stdinCancel[h] = "live"
  /\ IF state[h] = "boot"
       THEN Ends(h, "exited") /\ UNCHANGED stdinCancel
       ELSE stdinCancel' = StdinCancelled(h) /\ UNCHANGED <<state, inputVars>>
  /\ UNCHANGED <<clientVars, pipe, pamVars, stdout, told>>

\* The cancelled reader has ended: stdin_monitor_task_finished and shutdown().  A
\* handler that waits for a password sees the cancellation first.
Shutdown(h) ==
  /\ state[h] \in {"idle", "pam", "done"}
  /\ stdinCancel[h] = "cancelled"
  /\ stdinCancel' = [stdinCancel EXCEPT ![h] = "gone"]
  /\ slot' = [slot EXCEPT ![h] = "none"]
  /\ UNCHANGED <<clientVars, pipe, state, pamVars, stdin, stdout, told>>

\* The main loop ends once it is the only one left.
Exit(h) ==
  /\ state[h] \in {"idle", "done"} /\ stdinCancel[h] = "gone"
  /\ Ends(h, "exited")
  /\ UNCHANGED <<clientVars, pipe, pamVars, stdinCancel, stdout, told>>

\* Something kills the helper.
Die(h) ==
  /\ HelperMayDie
  /\ state[h] \in Running
  /\ Ends(h, "exited")
  /\ UNCHANGED <<clientVars, pipe, pamVars, stdinCancel, stdout, told>>

-----------------------------------------------------------------------------
User == Cancel \/ \E password \in Passwords : Submit(password)

\* What the main loop of the screensaver dispatches about helper h.
Dispatch(h) == MessageFromChild(h) \/ ProcCompleted(h)

MainThread(h) ==
  \/ Boot(h) \/ BootFails(h) \/ BeginAuth(h) \/ Prompt(h) \/ TakePassword(h)
  \/ GiveUpPrompt(h) \/ PamAccepts(h) \/ PamRejects(h) \/ Exit(h)

Next ==
  \/ User \/ StartFails \/ Emit
  \/ \E h \in Helpers :
       \/ Start(h) \/ Dispatch(h)
       \/ MainThread(h) \/ ReadStdin(h) \/ Sigterm(h) \/ Shutdown(h) \/ Die(h)

Spec == Init /\ [][Next]_vars

\* The threads of a helper run, its main loops dispatch what is pending, and so does
\* the screensaver's.  PAM comes to an end, either way, once it has an answer.
Fairness ==
  /\ WF_vars(Emit)
  /\ \A h \in Helpers :
       /\ WF_vars(MessageFromChild(h)) /\ WF_vars(ProcCompleted(h))
       /\ WF_vars(MainThread(h)) /\ WF_vars(ReadStdin(h))
       /\ WF_vars(Sigterm(h)) /\ WF_vars(Shutdown(h))

FairSpec == Spec /\ Fairness

-----------------------------------------------------------------------------
(* Properties. *)

\* The type of every variable; a helper counts no further than MAX_FAILURES.
TypeOK ==
  /\ proc \in Helpers \cup {None}
  /\ cancellable \in BOOLEAN
  /\ pipe \in [Helpers -> PipeStates]
  /\ idles \in Seq(Results)
  /\ unlocked \in BOOLEAN
  /\ state \in [Helpers -> {"new"} \cup Running \cup Ended]
  /\ given \in [Helpers -> {"nothing"} \cup Passwords]
  /\ slot \in [Helpers -> {"none"} \cup Passwords]
  /\ failures \in [Helpers -> 0 .. MAX_FAILURES]
  /\ stdinCancel \in [Helpers -> {"live", "cancelled", "gone"}]
  /\ stdin \in [Helpers -> Seq(Passwords)]
  /\ stdout \in [Helpers -> Seq(Results)]
  /\ told \in [Helpers -> BOOLEAN]

\* Of the helpers that run, exactly the one the client talks to has not been told to
\* go, however ends, completions and starts of successive helpers interleave
\* (end_proc, on_proc_completed, initialize).
ToldUnlessCurrent ==
  \A h \in Helpers : state[h] \in Running => (told[h] <=> proc # h)

\* The client always listens to its current helper: no result of an earlier one, nor
\* a failed start, leaves it without a read under way (message_from_child).
CurrentIsHeard ==
  proc # None => cancellable /\ pipe[proc] \in {"first", "next"}

\* What may count as success: PAM was given the right password, or a helper could not
\* initialize locking and dropped the dialog.
Earned(h) == state[h] = "aborted" \/ (state[h] \in {"done", "exited"} /\ given[h] = "right")

\* Success is reported to the dialog only if some helper came to it, whatever passwords
\* were overwritten in the slot, joined in the pipe or left to a helper that was told
\* to go (auth_check_idle, message_from_child).
SuccessEarned ==
  unlocked \/ (\E i \in DOMAIN idles : idles[i] = "success") =>
    \E h \in Helpers : Earned(h)

\* Once a result has unlocked the screen there is no current helper, also when a second
\* one was started before the result of the first was emitted.
NoHelperOnceUnlocked == unlocked => proc = None

\* A helper has a password while it is in its pipe, in its slot or with PAM.
Has(h, password) ==
  \/ \E i \in DOMAIN stdin[h] : stdin[h][i] = password
  \/ slot[h] = password \/ given[h] = password

Best(h) ==
  IF Has(h, "right") THEN "right" ELSE IF Has(h, "wrong") THEN "wrong" ELSE "nothing"

Life(h) ==
  IF state[h] = "new" THEN "new" ELSE IF state[h] \in Running \ {"done"} THEN "works" ELSE "over"

\* The client and its helpers, of which several may run at once, amount to the promise of
\* Authenticator: who may say success and when, how often a helper answers, in which order
\* the answers come, and which of them may be lost (auth_client.py, and the helper's main,
\* reader and PAM threads).
Promise ==
  INSTANCE Authenticator WITH
    current <- proc,
    hears <- cancellable,
    life <- [h \in Helpers |-> Life(h)],
    holds <- [h \in Helpers |-> Best(h)],
    rejections <- failures,
    unread <- stdout,
    news <- idles
KeepsPromise == Promise!Spec

\* A password written to the helper leads to a result, unless its helper is ended.
PasswordIsAnswered ==
  \A h \in Helpers :
    proc = h /\ stdin[h] # <<>> ~> proc # h \/ idles # <<>>

\* A helper that is told to go ends, unless PAM asks for a password only after
\* shutdown() has cleared the pointer through which the wait is interrupted.
ToldHelperEnds ==
  \A h \in Helpers :
    told[h] ~>
      state[h] \in Ended \/ (state[h] = "prompt" /\ stdinCancel[h] = "gone")
=============================================================================
