--------------------------- MODULE MCMessageStore ---------------------------
EXTENDS MessageStore, TLC

CONSTANTS alice, bob, carol, chat, team, k1, k2, hi, ho

\* A direct conversation and a group that carol may join.
MCFounders == chat :> {alice, bob} @@ team :> {alice, bob}

Cmd(s, k, c, t) == [sender |-> s, cid |-> k, chat |-> c, content |-> t]

\* alice repeats k1 with the same text, with another text and in another
\* conversation; bob uses the same id; carol may not be a member yet.
MCCommands == {Cmd(alice, k1, chat, hi), Cmd(alice, k1, chat, ho), Cmd(alice, k1, team, hi),
               Cmd(bob, k1, team, hi), Cmd(carol, k2, team, hi)}

\* One id with two texts and in two conversations.
MCCollidingCommands == {Cmd(alice, k1, chat, hi), Cmd(alice, k1, chat, ho),
                        Cmd(alice, k1, team, hi)}

\* One command, sent again and again.
MCOneCommand == {Cmd(alice, k1, chat, hi)}

Symmetric == Permutations(Workers)
=============================================================================
