-------------------------- MODULE GroupMembership --------------------------
(***************************************************************************)
(* Groups at a Message node (server/message/src/service/Group.cc): they    *)
(* are created, people ask to join and managers answer.  Each SQL          *)
(* statement (Mysql.h) is one step; there is no transaction around the two *)
(* or three statements of a command, so commands interleave between them.  *)
(* A group is named by the command that created it.  The notifications to  *)
(* managers and members change no state here.                              *)
(***************************************************************************)
EXTENDS Integers, Database

CONSTANTS
    GroupUsers,
    MaxGroupCommands   \* bound: group commands

ASSUME GroupBounds == MaxGroupCommands \in Nat

VARIABLES
    groupInfo,      \* ids of the rows of groupInfo
    groupMembers,   \* rows of groupMembers
    groupApplys,    \* rows of groupApplys
    gcommand        \* the commands

groupTables == <<groupInfo, groupMembers, groupApplys, gcommand>>
groupVars == <<groupTables, dbFaults>>

GroupCommands == 1..MaxGroupCommands

NoGroupCommand == [op |-> "", gid |-> 0, uid |-> "", accept |-> FALSE,
                   pc |-> "idle", answer |-> ""]

GroupsInit ==
    /\ groupInfo = {}
    /\ groupMembers = {}
    /\ groupApplys = {}
    /\ gcommand = [c \in GroupCommands |-> NoGroupCommand]
    /\ dbFaults = 0

IsMember(g, u) == \E m \in groupMembers : m.gid = g /\ m.uid = u

HasApplied(g, u) == \E a \in groupApplys : a.gid = g /\ a.uid = u

\* Commands take the numbers in order.
NotBegun(c) ==
    /\ gcommand[c].pc = "idle"
    /\ \A d \in 1..(c - 1) : gcommand[d].pc # "idle"

Step(c, pc) == gcommand' = [gcommand EXCEPT ![c].pc = pc]

Enter(c, args, pc) ==
    gcommand' = [gcommand EXCEPT ![c] = [op |-> args.op, gid |-> args.gid, uid |-> args.uid,
                                         accept |-> args.accept, pc |-> pc, answer |-> ""]]

\* The answer; of a refused command only the group it may have created counts.
Answer(c, answer) ==
    gcommand' = [gcommand EXCEPT ![c].pc = "done", ![c].answer = answer]

Refuse(c, gid) ==
    gcommand' = [gcommand EXCEPT ![c] =
                    [NoGroupCommand EXCEPT !.gid = gid, !.pc = "done", !.answer = "refused"]]

\* insertGroupMember, whose primary key is (gid, uid).
InsertGroupMember(g, u, role, out) ==
    groupMembers' = IF IsMember(g, u) \/ out = "failed" THEN groupMembers
                    ELSE groupMembers \cup {[gid |-> g, uid |-> u, role |-> role]}

-----------------------------------------------------------------------------
(* Create                                                                  *)

\* insertGroup under a new id.  The -1 of a failed generateMsgId or
\* generateSessionId does not fit the unsigned columns: insertGroup fails then.
Create(c, u, out) ==
    /\ NotBegun(c)
    /\ Calls(out)
    /\ groupInfo' = IF out = "failed" THEN groupInfo ELSE groupInfo \cup {c}
    /\ IF out = "ok"
       THEN Enter(c, [op |-> "create", gid |-> c, uid |-> u, accept |-> FALSE], "master")
       ELSE Refuse(c, c)
    /\ UNCHANGED <<groupMembers, groupApplys>>

\* Mutant: the answer is Success although the master was not stored.
InsertMasterAnyway(c, out) ==
    LET g == gcommand[c].gid
        u == gcommand[c].uid
    IN  /\ gcommand[c].pc = "master"
        /\ Calls(out)
        /\ InsertGroupMember(g, u, "Master", out)
        /\ Answer(c, "created")
        /\ UNCHANGED <<groupInfo, groupApplys>>

InsertMaster(c, out) ==
    LET g == gcommand[c].gid
        u == gcommand[c].uid
    IN  /\ gcommand[c].pc = "master"
        /\ Calls(out)
        /\ InsertGroupMember(g, u, "Master", out)
        /\ IF out = "ok" /\ ~ IsMember(g, u) THEN Answer(c, "created") ELSE Refuse(c, g)
        /\ UNCHANGED <<groupInfo, groupApplys>>

-----------------------------------------------------------------------------
(* NotifyJoin                                                              *)

\* hasGroup: a missing group and a failure are both refused.
NotifyJoin(c, u, g, out) ==
    LET ok == g \in groupInfo /\ out = "ok"
    IN  /\ NotBegun(c)
        /\ Calls(out)
        /\ IF ok
           THEN Enter(c, [op |-> "join", gid |-> g, uid |-> u, accept |-> FALSE], "apply")
           ELSE Refuse(c, 0)
        /\ UNCHANGED <<groupInfo, groupMembers, groupApplys>>

\* insertGroupApply, whose primary key is (requestor, gid); then the managers
\* are told.
InsertGroupApply(c, out) ==
    LET g == gcommand[c].gid
        u == gcommand[c].uid
    IN  /\ gcommand[c].pc = "apply"
        /\ Calls(out)
        /\ groupApplys' = IF HasApplied(g, u) \/ out = "failed" THEN groupApplys
                          ELSE groupApplys \cup {[gid |-> g, uid |-> u, status |-> "Wait"]}
        /\ IF out = "ok" /\ ~ HasApplied(g, u) THEN Answer(c, "applied") ELSE Refuse(c, 0)
        /\ UNCHANGED <<groupInfo, groupMembers>>

-----------------------------------------------------------------------------
(* ReplyJoin                                                               *)

\* Only an answered "no such group" is refused; a failed hasGroup goes on.
ReplyJoin(c, u, g, accept, out) ==
    LET ok == g \in groupInfo \/ out # "ok"
    IN  /\ NotBegun(c)
        /\ Calls(out)
        /\ IF ok
           THEN Enter(c, [op |-> "reply", gid |-> g, uid |-> u, accept |-> accept], "update")
           ELSE Refuse(c, 0)
        /\ UNCHANGED <<groupInfo, groupMembers, groupApplys>>

\* updateGroupApply writes Agree whatever the reply, and may meet no row.
UpdateGroupApply(c, out) ==
    LET g == gcommand[c].gid
        u == gcommand[c].uid
    IN  /\ gcommand[c].pc = "update"
        /\ Calls(out)
        /\ groupApplys' = IF out = "failed" THEN groupApplys
                          ELSE {IF a.gid = g /\ a.uid = u THEN [a EXCEPT !.status = "Agree"]
                                ELSE a : a \in groupApplys}
        /\ IF out = "ok" THEN Step(c, "member") ELSE Refuse(c, 0)
        /\ UNCHANGED <<groupInfo, groupMembers>>

\* The requestor becomes a member whatever the reply; then the members are told.
InsertRequestor(c, out) ==
    LET g == gcommand[c].gid
        u == gcommand[c].uid
    IN  /\ gcommand[c].pc = "member"
        /\ Calls(out)
        /\ InsertGroupMember(g, u, "Member", out)
        /\ IF out # "ok" \/ IsMember(g, u) THEN Refuse(c, 0)
           ELSE Answer(c, IF gcommand[c].accept THEN "agreed" ELSE "declined")
        /\ UNCHANGED <<groupInfo, groupApplys>>

GroupsNext ==
    \E c \in GroupCommands, out \in Outcomes :
        \/ \E u \in GroupUsers : Create(c, u, out)
        \/ \E u \in GroupUsers, gid \in GroupCommands :
               \/ NotifyJoin(c, u, gid, out)
               \/ \E accept \in BOOLEAN : ReplyJoin(c, u, gid, accept, out)
        \/ InsertMaster(c, out) \/ InsertGroupApply(c, out)
        \/ UpdateGroupApply(c, out) \/ InsertRequestor(c, out)

GroupsSpec == GroupsInit /\ [][GroupsNext]_groupVars

-----------------------------------------------------------------------------
(* Properties                                                              *)

\* Success is answered once and for what was stored: a created group has its
\* master; a request that answers Success is on record; a person joins a group
\* by one reply only, also when managers answer at the same time; and a group
\* without master is one whose Create is still running or answered a failure.
GroupAnswersTruthful ==
    /\ \A c \in GroupCommands :
           LET g == gcommand[c].gid
               u == gcommand[c].uid
               a == gcommand[c].answer
           IN  /\ a = "created" => [gid |-> g, uid |-> u, role |-> "Master"] \in groupMembers
               /\ a = "applied" => HasApplied(g, u)
               /\ a \in {"agreed", "declined"} =>
                      /\ IsMember(g, u)
                      /\ \A d \in GroupCommands \ {c} :
                             gcommand[d].answer \in {"agreed", "declined", "created"}
                                 => <<gcommand[d].gid, gcommand[d].uid>> # <<g, u>>
    /\ \A g \in groupInfo :
           \/ \E m \in groupMembers : m.gid = g /\ m.role = "Master"
           \/ \E c \in GroupCommands : /\ gcommand[c].gid = g
                                       /\ \/ gcommand[c].pc = "master"
                                          \/ gcommand[c].answer = "refused"
=============================================================================
