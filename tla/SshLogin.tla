------------------------------ MODULE SshLogin ------------------------------
(***************************************************************************)
(* The login of an SSH session: the user name, the check of the host key   *)
(* against known_hosts, and the ladder of authentication methods           *)
(* (ssh-channel-connection.cpp:240-295, 580-625, 774-1109, 1511-1590).     *)
(*                                                                         *)
(* Several logins to one host share the user's known_hosts file.  A server *)
(* accepts any of a set of sequences of methods, as sshd's                 *)
(* AuthenticationMethods says it; it offers what can come next.            *)
(***************************************************************************)
EXTENDS Integers, Sequences, FiniteSets

CONSTANTS
    Logins,    \* the logins under way
    Keys,      \* host keys
    TypeOf,    \* key -> its type
    Policies,  \* what servers may require: sets of sequences of methods
    Identities \* what the configured identity file may be

ASSUME LoginAssumption ==
    /\ TypeOf \in [Keys -> STRING]
    /\ \A s \in Policies : s \subseteq Seq({"publickey", "password", "interactive"})
    /\ Identities \subseteq {"none", "plain", "locked"}

VARIABLES
    step,    \* login -> where it stands
    status,   \* login -> what ssh_session_is_known_server returned
    plan,     \* login -> the file found to hold the conflicting entry
    left,     \* login -> the sequences of methods the server still requires
    methods,  \* login -> the methods it was told of last
    attempt,  \* login -> the number of the attempt under way
    key,      \* login -> the server's host key
    identity, \* login -> the identity file
    known,    \* keys saved for the host in the user's known_hosts
    global,   \* keys saved for the host in the system's known_hosts
    agreed,   \* history: keys a user was shown and agreed to
    asked,    \* history: login -> method -> prompts shown
    blame     \* history: login -> the user, a file or the network failed it

login == <<step, status, plan, left, methods, attempt, key, identity, known, global, agreed, asked, blame>>
MaximumAttempts == 3
Methods == {"publickey", "password", "interactive"}

Phases == {"name", "verify", "planUser", "planGlobal", "ask", "remove", "save", "none",
           "passphrase", "import", "auto", "refresh", "password", "interactive",
           "answer", "in", "failed"}
HostPhases == {"name", "verify", "planUser", "planGlobal", "ask", "remove", "save"}

LoginTypeOK ==
    /\ step \in [Logins -> Phases]
    /\ status \in [Logins -> {"ok", "unknown", "changed", "other", "error"}]
    /\ plan \in [Logins -> {"none", "user", "global"}]
    /\ \A p \in Logins : left[p] \subseteq Seq(Methods)
    /\ methods \in [Logins -> SUBSET Methods]
    /\ attempt \in [Logins -> 1 .. MaximumAttempts + 1]
    /\ key \in [Logins -> Keys] /\ identity \in [Logins -> Identities]
    /\ known \subseteq Keys /\ global \subseteq Keys /\ agreed \subseteq Keys
    /\ asked \in [Logins -> [Methods -> 0 .. MaximumAttempts]]
    /\ blame \in [Logins -> BOOLEAN]

LoginInit ==
    /\ step = [p \in Logins |-> "name"] /\ status = [p \in Logins |-> "ok"]
    /\ plan = [p \in Logins |-> "none"]
    /\ left \in [Logins -> Policies] /\ methods = [p \in Logins |-> {}]
    /\ attempt = [p \in Logins |-> 1]
    /\ key \in [Logins -> Keys] /\ identity \in [Logins -> Identities]
    /\ known \in SUBSET Keys /\ global \in SUBSET Keys /\ agreed = {}
    /\ asked = [p \in Logins |-> [m \in Methods |-> 0]]
    /\ blame = [p \in Logins |-> FALSE]

Goto(p, next) == step' = [step EXCEPT ![p] = next]
Blame(p, failed) == blame' = [blame EXCEPT ![p] = @ \/ failed]

hostKeys == <<status, plan, known, agreed>>
given    == <<key, identity, global>>
answers  == <<left, methods, attempt, asked>>

-----------------------------------------------------------------------------
(* The user name and the host key. *)

\* request_ssh_username_async: a blank name is asked for again, a refused
\* prompt ends the login; then the connection is made.
Name(p) ==
    /\ step[p] = "name"
    /\ \E next \in {"name", "verify", "failed"} : Goto(p, next) /\ Blame(p, next = "failed")
    /\ UNCHANGED <<hostKeys, answers, given>>

\* ssh_session_is_known_server
Known(p) ==
    LET saved == known \cup global IN
    IF key[p] \in saved THEN "ok"
    ELSE IF saved = {} THEN "unknown"
    ELSE IF \E k \in saved : TypeOf[k] = TypeOf[key[p]] THEN "changed" ELSE "other"

\* Fault: a check that fails counts as a known key.
FaultVerdict(s) ==
    CASE s \in {"ok", "error"} -> "none" [] s = "unknown" -> "ask" [] OTHER -> "planUser"

Verdict(s) ==
    CASE s = "ok" -> "none" [] s = "error" -> "failed" [] s = "unknown" -> "ask" [] OTHER -> "planUser"

Verify(p) ==
    /\ step[p] = "verify"
    /\ \E s \in {Known(p), "error"} :
         /\ status' = [status EXCEPT ![p] = s]
         /\ Goto(p, Verdict(s)) /\ Blame(p, s = "error")
    /\ UNCHANGED <<plan, known, agreed, answers, given>>

\* changed_host_key_plan_async: ssh-keygen -F looks for the host in the user's
\* file, then in the system's.
PlanUser(p) ==
    /\ step[p] = "planUser"
    /\ plan' = [plan EXCEPT ![p] = IF known # {} THEN "user" ELSE "none"]
    /\ Goto(p, IF known # {} THEN "ask" ELSE "planGlobal")
    /\ UNCHANGED <<status, known, agreed, answers, given, blame>>

PlanGlobal(p) ==
    /\ step[p] = "planGlobal"
    /\ plan' = [plan EXCEPT ![p] = IF global # {} THEN "global" ELSE "none"]
    /\ Goto(p, "ask")
    /\ UNCHANGED <<status, known, agreed, answers, given, blame>>

Changed(p) == status[p] \in {"changed", "other"}

\* Fault: a conflicting key can be accepted like an unknown one.
FaultProceeds(p, response) ==
    CASE response = "accept" -> "save"
      [] Changed(p) /\ response = "reset" /\ plan[p] = "user" -> "remove"
      [] OTHER -> "failed"

\* What verify_host_key_async does with the user's answer: an unknown key may
\* be accepted, a conflicting one only replaced, and only in the user's file.
Proceeds(p, response) ==
    CASE ~Changed(p) /\ response = "accept" -> "save"
      [] Changed(p) /\ response = "reset" /\ plan[p] = "user" -> "remove"
      [] OTHER -> "failed"

AnswerHostKey(p) ==
    /\ step[p] = "ask"
    /\ \E response \in {"accept", "reset", "refuse"} :
         /\ Goto(p, Proceeds(p, response)) /\ Blame(p, Proceeds(p, response) = "failed")
         /\ agreed' = IF Proceeds(p, response) = "failed" THEN agreed ELSE agreed \cup {key[p]}
    /\ UNCHANGED <<status, plan, known, answers, given>>

\* ssh-keygen -R removes every key of the host, or fails.
Remove(p) ==
    /\ step[p] = "remove"
    /\ \/ known' = {} /\ Goto(p, "save") /\ Blame(p, FALSE)
       \/ known' = known /\ Goto(p, "failed") /\ Blame(p, TRUE)
    /\ UNCHANGED <<status, plan, agreed, answers, given>>

\* ssh_session_update_known_hosts adds the key, or fails.
Save(p) ==
    /\ step[p] = "save"
    /\ \/ known' = known \cup {key[p]} /\ Goto(p, "none") /\ Blame(p, FALSE)
       \/ known' = known /\ Goto(p, "failed") /\ Blame(p, TRUE)
    /\ UNCHANGED <<status, plan, agreed, answers, given>>

-----------------------------------------------------------------------------
(* The authentication. *)

Offered(p) == {Head(s) : s \in left[p] \ {<<>>}}

\* SSH_AUTH_SUCCESS: a sequence the server accepts is complete; otherwise it
\* is SSH_AUTH_PARTIAL.
Accepted(l) == <<>> \in l

\* The server's answer to method m with a right or a wrong credential: the
\* login is over, or it goes on in step next.
Try(p, m, right, next) ==
    LET rest == IF right /\ m \in Offered(p) THEN {Tail(s) : s \in {t \in left[p] \ {<<>>} : Head(t) = m}}
                ELSE left[p]
        passed == rest # left[p] /\ Accepted(rest)
    IN
    /\ left' = [left EXCEPT ![p] = rest]
    /\ Goto(p, IF passed THEN "in" ELSE next)
    /\ Blame(p, ~right /\ m \in Offered(p))

\* SSH_AUTH_ERROR
Breaks(p) == Goto(p, "failed") /\ Blame(p, TRUE) /\ UNCHANGED left

\* authenticate_session_async asks for nothing first, and learns the methods.
None(p) ==
    /\ step[p] = "none"
    /\ \/ /\ Goto(p, IF <<>> \in left[p] THEN "in"
                     ELSE IF "publickey" \notin Offered(p) THEN "refresh"
                     ELSE IF identity[p] = "none" THEN "auto"
                     ELSE IF identity[p] = "locked" THEN "passphrase" ELSE "import")
          /\ methods' = [methods EXCEPT ![p] = Offered(p)]
          /\ UNCHANGED <<blame, left>>
       \/ Breaks(p) /\ UNCHANGED methods
    /\ attempt' = [attempt EXCEPT ![p] = 1]
    /\ UNCHANGED <<hostKeys, asked, given>>

Ask(p, m) == asked' = [asked EXCEPT ![p][m] = @ + 1]

\* The loop of a prompt goes on for MaximumAttempts attempts.
Again(p, loop, next) == IF attempt[p] < MaximumAttempts THEN loop ELSE next

\* authenticate_private_key_async: the passphrase of a locked identity file.
Passphrase(p) ==
    /\ step[p] = "passphrase"
    /\ Ask(p, "publickey")
    /\ \E response \in {"right", "wrong", "refuse"} :
         /\ Blame(p, response # "right")
         /\ Goto(p, CASE response = "right" -> "import" [] response = "refuse" -> "auto"
                      [] OTHER -> Again(p, "passphrase", "auto"))
    /\ attempt' = [attempt EXCEPT ![p] = @ + 1]
    /\ UNCHANGED <<hostKeys, left, methods, given>>

Import(p) ==
    /\ step[p] = "import"
    /\ (\E right \in BOOLEAN : Try(p, "publickey", right, "auto")) \/ Breaks(p)
    /\ UNCHANGED <<hostKeys, methods, attempt, asked, given>>

\* The agent and the default identities; an error here is not an end.
Automatic(p) ==
    /\ step[p] = "auto"
    /\ \E right \in BOOLEAN : Try(p, "publickey", right, "refresh")
    /\ UNCHANGED <<hostKeys, methods, attempt, asked, given>>

Ladder(p, offered) ==
    IF "password" \in offered THEN "password"
    ELSE IF "interactive" \in offered THEN "interactive" ELSE "failed"

\* Fault: the methods listed at first are used to the end.
FaultListed(p) == methods[p]

Listed(p) == Offered(p)

Refresh(p) ==
    /\ step[p] = "refresh"
    /\ methods' = [methods EXCEPT ![p] = Listed(p)]
    /\ attempt' = [attempt EXCEPT ![p] = 1]
    /\ Goto(p, Ladder(p, Listed(p)))
    /\ UNCHANGED <<hostKeys, left, asked, given, blame>>

\* What follows the password, by the methods listed before it.
AfterPassword(p) == Ladder(p, methods[p] \ {"password"})

\* authenticate_password_async
Password(p) ==
    /\ step[p] = "password"
    /\ Ask(p, "password")
    /\ LET next == Again(p, "password", AfterPassword(p)) IN
       /\ \/ (\E right \in BOOLEAN : Try(p, "password", right, next)) \/ Breaks(p)
          \/ Goto(p, AfterPassword(p)) /\ Blame(p, TRUE) /\ UNCHANGED left
       /\ attempt' = [attempt EXCEPT ![p] = IF step'[p] = "password" THEN @ + 1 ELSE 1]
    /\ UNCHANGED <<hostKeys, methods, given>>

\* authenticate_keyboard_interactive_async: a round begins, with questions or
\* with a refusal.
Interactive(p) ==
    /\ step[p] = "interactive"
    /\ \/ /\ "interactive" \in Offered(p)
          /\ Goto(p, "answer") /\ UNCHANGED <<blame, left, attempt>>
       \/ /\ "interactive" \notin Offered(p)
          /\ Goto(p, Again(p, "interactive", "failed"))
          /\ attempt' = [attempt EXCEPT ![p] = @ + 1]
          /\ UNCHANGED <<blame, left>>
       \/ Breaks(p) /\ UNCHANGED attempt
    /\ UNCHANGED <<hostKeys, methods, asked, given>>

Answer(p) ==
    /\ step[p] = "answer"
    /\ Ask(p, "interactive")
    /\ \/ \E right \in BOOLEAN : Try(p, "interactive", right, Again(p, "interactive", "failed"))
       \/ Breaks(p)
    /\ attempt' = [attempt EXCEPT ![p] = @ + 1]
    /\ UNCHANGED <<hostKeys, methods, given>>

-----------------------------------------------------------------------------
LoginNext == \E p \in Logins :
    \/ Name(p) \/ Verify(p) \/ PlanUser(p) \/ PlanGlobal(p) \/ AnswerHostKey(p) \/ Remove(p) \/ Save(p)
    \/ None(p) \/ Passphrase(p) \/ Import(p) \/ Automatic(p) \/ Refresh(p)
    \/ Password(p) \/ Interactive(p) \/ Answer(p)

LoginSpec == LoginInit /\ [][LoginNext]_login

-----------------------------------------------------------------------------
\* Nothing is authenticated to a server whose key was neither saved when it was
\* checked nor agreed to (ssh-channel-connection.cpp:810-853, 1573-1588).
TrustFirst ==
    \A p \in Logins : step[p] \notin HostPhases \cup {"failed"} =>
        status[p] = "ok" \/ key[p] \in agreed

\* A login that saves a key, unknown or replaced, leaves no other one for the
\* host in the user's file but one that a user agreed to in a login beside it: the
\* next login is not told that the key changed (ssh-channel-connection.cpp:777-806, 840-852).
SavesAlone == \A p \in Logins :
    step[p] = "save" /\ step'[p] = "none" => key[p] \in known' /\ known' \subseteq agreed'
SavedAlone == [][SavesAlone]_login

\* A login that is through has passed every method a policy of the server requires.
InComplete == \A p \in Logins : step[p] = "in" => <<>> \in left[p]

\* A second factor that the server only names once a secret was accepted: the methods are
\* listed once, before the first secret (ssh-channel-connection.cpp:1087).
UnlistedFactor(p) ==
    /\ \E m \in {"password", "interactive"} : asked[p][m] > 0
    /\ \E m \in Offered(p) : m \notin methods[p]

\* A login fails only when the user, a file or the network failed it, with one exception: the
\* server asks, behind a secret it accepted, for a factor that was not in the list made before
\* that secret.  Such a login fails although every answer was right; in any other order of
\* factors, whoever answers every question right gets in
\* (ssh-channel-connection.cpp:1040-1109).
FailsForCause == \A p \in Logins : step[p] = "failed" => blame[p] \/ UnlistedFactor(p)

\* The host is trusted before any secret, a login gets in with every factor, and the user's
\* known hosts hold only what was agreed to after a key was saved.
LoginTrue == [](LoginTypeOK /\ TrustFirst /\ InComplete) /\ SavedAlone

=============================================================================
