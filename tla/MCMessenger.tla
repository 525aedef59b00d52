---------------------------- MODULE MCMessenger -----------------------------
(* Small instances of Messenger: two rooms, one contact, two nicknames.    *)
EXTENDS Messenger

CONSTANTS r1, r2, u1, none, me, other

MCRooms == {r1, r2}
MCUsers == {u1}
MCNicks == {me, other}

To(u) == [type |-> "Normal", jid |-> [bare |-> u, resource |-> none]]
In(r, nick) == [type |-> "Groupchat", jid |-> [bare |-> r, resource |-> nick]]

\* One contact, one room, two rooms, both kinds, a room named twice, under
\* two nicknames and under one (main refuses to start without a destination).
MCLists ==
  { <<To(u1)>>,
    <<In(r1, none)>>,
    <<In(r1, none), In(r2, other)>>,
    <<In(r1, other), To(u1)>>,
    <<To(u1), In(r1, none), In(r1, other)>>,
    <<In(r1, none), In(r1, me)>> }
=============================================================================
