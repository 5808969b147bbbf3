------------------------------- MODULE Mailbox -------------------------------
(***************************************************************************)
(* What the cluster promises about chat messages, without handlers, tables *)
(* or channels: a message accepted for a user, once or several times, is   *)
(* open until it is handed to that user, and what was handed over is       *)
(* neither handed over again nor taken back.  Of a message whose recipient *)
(* was coming or going nothing is promised: it is excused.                 *)
(***************************************************************************)
EXTENDS Naturals

CONSTANT Parcels

VARIABLES
  open,      \* how often each parcel has yet to be handed over
  handed,    \* how often it was
  excused    \* the parcels nothing is promised of; their counts are zero

mailbox == <<open, handed, excused>>

MailboxInit ==
  /\ open = [p \in Parcels |-> 0]
  /\ handed = [p \in Parcels |-> 0]
  /\ excused = {}

Promised == Parcels \ excused'

\* One message comes in, for any of its recipients and any number of times.
Accept(m) ==
  \A p \in Promised :
    /\ handed'[p] = handed[p]
    /\ IF p.msg = m THEN open[p] + handed[p] = 0 ELSE open'[p] = open[p]

\* One user is handed some of its messages.
HandOver(u) ==
  \A p \in Promised :
    /\ open'[p] + handed'[p] = open[p] + handed[p]
    /\ IF p.to = u THEN handed'[p] >= handed[p] ELSE handed'[p] = handed[p]

\* What is excused stays excused, whatever happens to the others.
Excuse ==
  /\ excused \subseteq excused'
  /\ \A p \in excused' : open'[p] = 0 /\ handed'[p] = 0

MailboxNext == Excuse /\ \E p \in Parcels : Accept(p.msg) \/ HandOver(p.to)

MailboxSpec == MailboxInit /\ [][MailboxNext]_mailbox
=============================================================================
