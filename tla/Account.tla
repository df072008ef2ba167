------------------------------ MODULE Account ------------------------------
(***************************************************************************)
(* Accounts at the Gate server: verification codes, registration, the      *)
(* reset of a password and the sign-in that hands out a chat token         *)
(* (server/gate/src/service/Service.cc and VerificationService.cc), with   *)
(* the Redis scripts and SQL statements they run (Redis.h, Mysql.h).       *)
(*                                                                         *)
(* A request runs on a thread of its own.  Each Redis script and each SQL  *)
(* statement is one step, so that requests interleave between them, and    *)
(* each may fail (module Database).  Passwords, tokens and user ids are    *)
(* named by the request that chose them.                                   *)
(***************************************************************************)
EXTENDS Database

CONSTANTS
    Emails, Usernames,
    MaxRequests,   \* bound: HTTP requests
    MaxCodes,      \* bound: codes generated
    MaxAttempts    \* maxAttempts_

ASSUME AccountBounds ==
    {MaxRequests, MaxCodes} \subseteq Nat /\ MaxAttempts \in Nat \ {0}

Requests == 1..MaxRequests
NoCode == 0

VARIABLES
    users,      \* rows of the table users
    stored,     \* per email, the key im:verify:{email}:code
    cooldown,   \* per email, whether the cooldown key exists
    tries,      \* per email, the attempts key
    token,      \* per username, the chat token in Redis
    issued,     \* number of codes generated
    req,        \* the requests
    spent,      \* codes consumed, replaced, expired or out of attempts
    used,       \* per code, how often it let a request pass
    wrong       \* per code, how often another one was tried against it

accountTables == <<users, stored, cooldown, tries, token, issued, req, spent, used, wrong>>
accountVars == <<accountTables, dbFaults>>

NoRequest == [op |-> "", email |-> "", name |-> "", code |-> NoCode,
              pc |-> "idle", answer |-> ""]

AccountInit ==
    /\ users = {}
    /\ stored = [e \in Emails |-> NoCode]
    /\ cooldown = [e \in Emails |-> FALSE]
    /\ tries = [e \in Emails |-> 0]
    /\ token = [u \in Usernames |-> 0]
    /\ issued = 0
    /\ req = [r \in Requests |-> NoRequest]
    /\ dbFaults = 0
    /\ spent = {}
    /\ used = [k \in 1..MaxCodes |-> 0]
    /\ wrong = [k \in 1..MaxCodes |-> 0]

At(r, pc) == req[r].pc = pc

\* Requests take the numbers in order.
Fresh(r) == At(r, "idle") /\ \A q \in 1..(r - 1) : ~ At(q, "idle")

Start(r, args, pc) ==
    req' = [req EXCEPT ![r] = [op |-> args.op, email |-> args.email, name |-> args.name,
                               code |-> args.code, pc |-> pc, answer |-> ""]]

Goto(r, pc) == req' = [req EXCEPT ![r].pc = pc]

\* The answer; only a confirmed code is of interest afterwards.
Finish(r, answer) ==
    req' = [req EXCEPT ![r] =
               IF answer = "issued" THEN [@ EXCEPT !.pc = "done", !.answer = answer]
               ELSE [NoRequest EXCEPT !.pc = "done", !.answer = answer]]

codeVars == <<stored, cooldown, tries, issued, spent, used, wrong>>

-----------------------------------------------------------------------------
(* RequestEmailCode                                                        *)

\* issueVerificationCode: nothing during the cooldown; else the new code takes
\* the old one's place, the cooldown starts and the attempts are forgotten.
RequestEmailCode(r, e, out) ==
    LET code   == issued + 1
        issues == ~ cooldown[e] /\ out # "failed"
    IN  /\ Fresh(r)
        /\ issued < MaxCodes
        /\ Calls(out)
        /\ issued' = code
        /\ stored' = IF issues THEN [stored EXCEPT ![e] = code] ELSE stored
        /\ cooldown' = IF issues THEN [cooldown EXCEPT ![e] = TRUE] ELSE cooldown
        /\ tries' = IF issues THEN [tries EXCEPT ![e] = 0] ELSE tries
        /\ spent' = IF issues THEN spent \cup ({stored[e]} \ {NoCode}) ELSE spent
        /\ IF issues /\ out = "ok"
           THEN Start(r, [op |-> "code", email |-> e, name |-> "", code |-> code], "send")
           ELSE Finish(r, "refused")
        /\ UNCHANGED <<users, token, used, wrong>>

\* The mail goes out, or the code it carries has to be withdrawn.
SendEmail(r, sent) ==
    /\ At(r, "send")
    /\ IF sent THEN Finish(r, "issued") ELSE Goto(r, "clear")
    /\ UNCHANGED <<users, token, dbFaults, codeVars>>

\* Mutant: the keys are deleted without a look at the code they hold.
ClearCodeUnchecked(r, out) ==
    LET e == req[r].email
    IN  /\ At(r, "clear")
        /\ Calls(out)
        /\ stored' = IF out # "failed" THEN [stored EXCEPT ![e] = NoCode] ELSE stored
        /\ cooldown' = IF out # "failed" THEN [cooldown EXCEPT ![e] = FALSE] ELSE cooldown
        /\ tries' = IF out # "failed" THEN [tries EXCEPT ![e] = 0] ELSE tries
        /\ Finish(r, "refused")
        /\ UNCHANGED <<users, token, issued, spent, used, wrong>>

\* clearVerificationCode: the three keys go if they still hold this code.
ClearCode(r, out) ==
    LET e      == req[r].email
        clears == out # "failed" /\ stored[e] = req[r].code
    IN  /\ At(r, "clear")
        /\ Calls(out)
        /\ stored' = IF clears THEN [stored EXCEPT ![e] = NoCode] ELSE stored
        /\ cooldown' = IF clears THEN [cooldown EXCEPT ![e] = FALSE] ELSE cooldown
        /\ tries' = IF clears THEN [tries EXCEPT ![e] = 0] ELSE tries
        /\ Finish(r, "refused")
        /\ UNCHANGED <<users, token, issued, spent, used, wrong>>

\* The TTL of the code passes; the attempts key shares it, unless it was set
\* in the code's last second, when TTL answers 0 and EXPIRE is skipped.
CodeExpires(e) ==
    /\ stored[e] # NoCode
    /\ stored' = [stored EXCEPT ![e] = NoCode]
    /\ spent' = spent \cup {stored[e]}
    /\ \E left \in {0, tries[e]} : tries' = [tries EXCEPT ![e] = left]
    /\ UNCHANGED <<users, cooldown, token, issued, req, dbFaults, used, wrong>>

CooldownExpires(e) ==
    /\ cooldown[e]
    /\ cooldown' = [cooldown EXCEPT ![e] = FALSE]
    /\ UNCHANGED <<users, stored, tries, token, issued, req, dbFaults, spent,
                   used, wrong>>

-----------------------------------------------------------------------------
(* VerifyAndConsume, for a registration or a reset                         *)

\* Mutant: the code that let a request pass is kept.
DeletesLast(right, last) == last

\* Both the right code and the last wrong try delete the code.
Deletes(right, last) == right \/ last

LastAttempt(n) == n >= MaxAttempts

\* consumeVerificationCode: the right code is deleted with its keys and lets
\* the request pass; a wrong one counts, and the last one deletes the code.
VerifyAndConsume(r, out) ==
    LET e       == req[r].email
        current == stored[e]
        runs    == out # "failed" /\ current # NoCode
        right   == runs /\ current = req[r].code
        count   == tries[e] + 1
        last    == runs /\ ~ right /\ LastAttempt(count)
        gone    == Deletes(right, last)
    IN  /\ At(r, "consume")
        /\ Calls(out)
        /\ stored' = IF gone THEN [stored EXCEPT ![e] = NoCode] ELSE stored
        /\ cooldown' = IF right THEN [cooldown EXCEPT ![e] = FALSE] ELSE cooldown
        /\ tries' = [tries EXCEPT ![e] = IF gone THEN 0 ELSE IF runs THEN count ELSE @]
        /\ spent' = IF gone THEN spent \cup {current} ELSE spent
        /\ used' = IF right THEN [used EXCEPT ![current] = @ + 1] ELSE used
        /\ wrong' = IF runs /\ ~ right THEN [wrong EXCEPT ![current] = @ + 1] ELSE wrong
        /\ IF right /\ out = "ok"
           THEN Goto(r, IF req[r].op = "signUp" THEN "count" ELSE "modify")
           ELSE Finish(r, "refused")
        /\ UNCHANGED <<users, token, issued>>

-----------------------------------------------------------------------------
(* signUp                                                                  *)

\* hasEmail, whose failure counts as "refused".
SignUp(r, e, u, code, out) ==
    LET taken == out # "ok" \/ \E row \in users : row.email = e
    IN  /\ Fresh(r)
        /\ Calls(out)
        /\ IF taken
           THEN Finish(r, "refused")
           ELSE Start(r, [op |-> "signUp", email |-> e, name |-> u, code |-> code], "name")
        /\ UNCHANGED <<users, token, codeVars>>

HasUsername(r, out) ==
    /\ At(r, "name")
    /\ Calls(out)
    /\ IF out # "ok" \/ \E row \in users : row.name = req[r].name
       THEN Finish(r, "refused")
       ELSE Goto(r, "consume")
    /\ UNCHANGED <<users, token, codeVars>>

\* userRegister: the count, then the insertion under the unique keys.
CountUsers(r, out) ==
    /\ At(r, "count")
    /\ Calls(out)
    /\ IF out # "ok" \/ \E row \in users : row.email = req[r].email
       THEN Finish(r, "refused")
       ELSE Goto(r, "insert")
    /\ UNCHANGED <<users, token, codeVars>>

\* generateUserId's -1 for a failure does not fit the unsigned column: the
\* insertion fails then.
InsertUser(r, out) ==
    LET free == \A row \in users : row.email # req[r].email /\ row.name # req[r].name
    IN  /\ At(r, "insert")
        /\ Calls(out)
        /\ users' = IF free /\ out # "failed"
                    THEN users \cup {[email |-> req[r].email, name |-> req[r].name,
                                      uid |-> r, password |-> r]}
                    ELSE users
        /\ Finish(r, IF free /\ out = "ok" THEN "registered" ELSE "refused")
        /\ UNCHANGED <<token, codeVars>>

-----------------------------------------------------------------------------
(* forgetPassword and signIn                                               *)

ForgetPassword(r, e, u, code, out) ==
    LET match == out = "ok" /\ \E row \in users : row.name = u /\ row.email = e
    IN  /\ Fresh(r)
        /\ Calls(out)
        /\ IF match
           THEN Start(r, [op |-> "forget", email |-> e, name |-> u, code |-> code], "consume")
           ELSE Finish(r, "refused")
        /\ UNCHANGED <<users, token, codeVars>>

\* userModifyPassword; rows are never deleted, so the row is still there.
ModifyPassword(r, out) ==
    /\ At(r, "modify")
    /\ Calls(out)
    /\ users' = IF out = "failed" THEN users
                ELSE {IF row.name = req[r].name THEN [row EXCEPT !.password = r] ELSE row
                         : row \in users}
    /\ Finish(r, IF out = "ok" THEN "changed" ELSE "refused")
    /\ UNCHANGED <<token, codeVars>>

\* getUser and the password; then a Connection Gateway has to be found.
SignIn(r, u, password, picked, out) ==
    LET match == /\ out = "ok" /\ picked
                 /\ \E row \in users : row.name = u /\ row.password = password
    IN  /\ Fresh(r)
        /\ Calls(out)
        /\ IF match
           THEN Start(r, [op |-> "signIn", email |-> "", name |-> u, code |-> NoCode], "token")
           ELSE Finish(r, "refused")
        /\ UNCHANGED <<users, token, codeVars>>

\* setChatAuthToken overwrites the user's token; without it, no sign-in.
SetChatAuthToken(r, out) ==
    /\ At(r, "token")
    /\ Calls(out)
    /\ token' = IF out = "failed" THEN token ELSE [token EXCEPT ![req[r].name] = r]
    /\ Finish(r, IF out = "ok" THEN "signedIn" ELSE "refused")
    /\ UNCHANGED <<users, codeVars>>

AccountNext ==
    \/ \E r \in Requests, out \in Outcomes :
           \/ \E e \in Emails : RequestEmailCode(r, e, out)
           \/ \E e \in Emails, u \in Usernames, code \in 1..MaxCodes :
                  SignUp(r, e, u, code, out) \/ ForgetPassword(r, e, u, code, out)
           \/ \E u \in Usernames, password \in Requests, picked \in BOOLEAN :
                  SignIn(r, u, password, picked, out)
           \/ ClearCode(r, out) \/ VerifyAndConsume(r, out)
           \/ HasUsername(r, out) \/ CountUsers(r, out) \/ InsertUser(r, out)
           \/ ModifyPassword(r, out) \/ SetChatAuthToken(r, out)
    \/ \E r \in Requests, sent \in BOOLEAN : SendEmail(r, sent)
    \/ \E e \in Emails : CodeExpires(e) \/ CooldownExpires(e)

AccountSpec == AccountInit /\ [][AccountNext]_accountVars

-----------------------------------------------------------------------------
(* Properties                                                              *)

\* A code that was mailed and confirmed stays good until it is consumed,
\* replaced, expired or out of attempts: the slow failure of an earlier mail,
\* whose clearVerificationCode comes late, never takes a newer code away.
IssuedCodeLive ==
    \A r \in Requests : req[r].answer = "issued" =>
        req[r].code \in {stored[req[r].email]} \cup spent

\* A code lets one request pass at most, and no more than maxAttempts wrong
\* codes are ever tried against it, over all interleavings of sign-ups,
\* resets, re-issues and expiries (consumeVerificationCode).
CodeLimits ==
    \A k \in 1..MaxCodes : used[k] <= 1 /\ wrong[k] <= MaxAttempts
=============================================================================
