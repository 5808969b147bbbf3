------------------------------ MODULE Delivery ------------------------------
(***************************************************************************)
(* What becomes of a chat message: ChatService with two history variables, *)
(* and the delivery the cluster gives to a recipient that does not come or *)
(* go meanwhile.                                                           *)
(***************************************************************************)
EXTENDS ChatService

VARIABLES
  sent,       \* how often a handler set out to deliver each parcel: as often
              \* as the list of recipients has the user
  disturbed   \* those whose recipient came or went before they settled

hvars == <<vars, sent, disturbed>>

Occurrences(x, seq) == Cardinality({i \in 1..Len(seq) : seq[i] = x})

\* Where a parcel is while it is under way.
InHandlers(p) ==
  Cardinality(UNION {{c} \X {i \in 1..Len(todo[c]) :
                                msg[c] = p.msg /\ todo[c][i] = p.to} : c \in Conns})
InChannels(p) ==
  Cardinality(UNION {{s} \X {i \in 1..Len(pushed[s]) : pushed[s][i] = p} :
                       s \in Servers})
UnderWay == {p \in Parcel : InHandlers(p) + InChannels(p) > 0}

Rows(u) == {[to |-> u, msg |-> offline[u][i]] : i \in 1..Len(offline[u])}

\* User u is logging in or out, is leaving, or its channel is changing.
ComingOrGoing(u) ==
  \/ \E c \in Conns : /\ job[c] = u
                      /\ pc[c] \in LoginSteps \cup {"logout_unsub", "close_state"}
  \/ \E c \in gone : auth[c] = u
  \/ \E s \in Servers : \E i \in 1..Len(cmds[s]) : cmds[s][i].user = u

\* The client left before the login it asked for read its offline messages.
LeftWhileEntering(u) ==
  \E c \in gone : pc[c] = "login_fetch" /\ job[c] = u

Disturbed ==
  {p \in UnderWay : ComingOrGoing(p.to)}
    \cup UNION {Rows(u) : u \in {v \in Users : LeftWhileEntering(v)}}

HInit == Init /\ sent = [p \in Parcel |-> 0] /\ disturbed = {}

HNext ==
  /\ Next
  /\ sent' = [p \in Parcel |-> IF p.msg \in unsent \ unsent'
                                THEN InHandlers(p)' ELSE sent[p]]
  /\ disturbed' = disturbed \cup Disturbed'

HSpec == HInit /\ [][HNext]_hvars
HFairSpec == HSpec /\ Fairness

-----------------------------------------------------------------------------
\* Rows a login has pushed and is about to delete are no longer kept.
KeptRows(p) ==
  IF \E c \in Conns : pc[c] = "login_remove" /\ job[c] = p.to
    THEN 0 ELSE Occurrences(p.msg, offline[p.to])

Received(p) == Occurrences(p, received[p.to])

\* A message whose recipient neither comes nor goes while it is under way is
\* in exactly one place, once for each time the list of recipients has the
\* user: with its handler, in one server's channel, in t_offlineMessage or
\* handed over.  The handlers decide by the map of one server and then by the
\* state, and act on the answer later; the steps in between neither lose the
\* message nor copy it, and a later login hands the stored ones over once.
ExactlyOnce ==
  faults = {} =>
    \A p \in Parcel \ disturbed :
      InHandlers(p) + InChannels(p) + KeptRows(p) + Received(p) = sent[p]

\* The abstract mailbox, for those whose recipient stays put.
Fate(p, count) == IF p \in disturbed THEN 0 ELSE count

Mail == INSTANCE Mailbox WITH
  Parcels <- Parcel,
  open <- [p \in Parcel |-> Fate(p, InHandlers(p) + InChannels(p) + KeptRows(p))],
  handed <- [p \in Parcel |-> Fate(p, Received(p))],
  excused <- disturbed

\* The cluster is a mailbox: whatever the handlers, the channels and the logins
\* do to a message, each step takes it in, or hands it to its own user, or
\* leaves it where it is; none takes back what was handed over.
KeepsMail == Mail!MailboxSpec

\* With one server nobody is handed a message more often than its request
\* lists the user, coming and going or not: what was found in no map and
\* published comes back to the same map.
NeverTooOften == \A p \in Parcel : Received(p) <= sent[p]

\* Every message settles: it is handed over, or stored for the next login,
\* unless its recipient was coming or going.
EverySentSettles ==
  \A p \in Parcel :
    (sent[p] > 0) ~> (p \in disturbed \/ KeptRows(p) + Received(p) >= sent[p])
=============================================================================
