-------------------------------- MODULE Mails --------------------------------
(***************************************************************************)
(* Who gets a mail and whom its headers show: create_email and send_async. *)
(* Mails are composed from a caller's lists, the support addresses and the *)
(* address they come from; a caller that gives no Bcc list has the default *)
(* argument of send, one list for all its calls.  Lists hold strings, and  *)
(* are compared as strings; the addresses are read off the headers at the  *)
(* end.  Of a list the order does not matter, only how often a string is   *)
(* in it.                                                                  *)
(***************************************************************************)
EXTENDS Naturals, FiniteSets

CONSTANTS
  Parts, Addresses, Reads,   \* the strings in lists, and the address each is read as: with
                             \* blanks around it, or a name before it, it is the same address
  NoAddress,                 \* what a string of blanks is read as
  Blank,                     \* the empty string
  From, Support,             \* the sender's string, and those of support
  MaxListed                  \* bound: strings in a list of a caller, and their repeats

MailsAssumption == /\ Reads \in [Parts -> Addresses \cup {NoAddress}] /\ NoAddress \notin Addresses
                   /\ {Blank, From} \cup Support \subseteq Parts /\ Blank \notin {From} \cup Support

VARIABLES
  job,       \* the mail asked for, or none
  msg,       \* its headers, once composed
  wire,      \* what the SMTP server took of it: the addresses the headers show, those in
             \* the envelope, and those there more than once
  default    \* the list that stands for a Bcc list nobody gave

vars == <<job, msg, wire, default>>

Once(S) == [a \in Parts |-> IF a \in S THEN 1 ELSE 0]
Empty == Once({})
On(list) == {a \in Parts : list[a] > 0}
Together(x, y) == [a \in Parts |-> x[a] + y[a]]
Lists(S) == {l \in [Parts -> 0..MaxListed] : On(l) \subseteq S /\ Cardinality(On(l)) <= MaxListed}

None == [to |-> Empty, bcc |-> Empty]
Nothing == [shown |-> {}, envelope |-> {}, twice |-> {}]
Job(kind, to, bcc, welcome) == [kind |-> kind, to |-> to, bcc |-> bcc, welcome |-> welcome]
NoJob == Job("none", Empty, Empty, FALSE)

Init == job = NoJob /\ msg = None /\ wire = Nothing /\ default = Empty

Written == {x \in Parts : Reads[x] # NoAddress}

\* A notice of the services goes to the string an account gave or to support; the subject
\* of the welcome is recognised, unless a prefix is configured for all subjects.
Notice == \E S \in {{x} : x \in Parts} \cup {Support}, w \in BOOLEAN :
            job' = Job("notice", Once(S), default, w)
\* sendSystemEmail: lists split at commas and no more, the recipients' never empty, any
\* subject.
System == \E to \in Lists(Parts) \ {Empty}, bcc \in Lists(Parts), w \in BOOLEAN :
            job' = Job("system", to, bcc, w)
\* sendEmail of the studio: parts are stripped, blank ones dropped, and somebody is to get it.
Studio == \E to \in Lists(Written), bcc \in Lists(Written) :
            /\ to # Empty \/ bcc # Empty
            /\ job' = Job("studio", to, bcc, FALSE)

Ask == job = NoJob /\ (Notice \/ System \/ Studio) /\ UNCHANGED <<msg, wire, default>>

\* A list without the strings of a set.
Without(list, S) == [a \in Parts |-> IF a \in S THEN 0 ELSE list[a]]

\* Mutant: support that a caller lists as well is not taken out.
ButSender(list, shown) == Without(list, {From} \cup shown)

Cleaned(list) == Without(list, {Blank})
ButSupport(list, shown) == Without(list, {From} \cup Support \cup shown)

\* Mutant: addresses are added in place to the list that was given, or to the default.
DefaultInPlace(list) == IF job.kind = "notice" THEN list ELSE default

\* What composing leaves of the default list: lists are concatenated to new ones.
DefaultAfter(list) == default

\* The recipients join the Bcc list, once each.
Moved(to, bcc) == Together(bcc, Once(On(to) \ ({From} \cup On(bcc))))

\* The studio's own split of To and Bcc is kept; the welcome goes to its reader;
\* of any other mail all real recipients are in Bcc.
Split(to, bcc) ==
  CASE job.kind = "studio" -> [to |-> to, bcc |-> Together(Once(Support), ButSupport(bcc, On(to)))]
    [] job.kind # "studio" /\ job.welcome -> [to |-> to, bcc |-> Empty]
    [] OTHER -> [to |-> Empty, bcc |-> Together(Once(Support), ButSupport(Moved(to, bcc), {}))]

\* The sender is always one of those the mail is to.
WithSender(m) == [m EXCEPT !.to = IF From \in On(@) THEN @ ELSE Together(Once({From}), @)]
Composed == WithSender(Split(Cleaned(job.to), Cleaned(job.bcc)))

Compose ==
  /\ job # NoJob /\ msg = None
  /\ msg' = Composed
  /\ default' = DefaultAfter(Moved(Cleaned(job.to), Cleaned(job.bcc)))
  /\ UNCHANGED <<job, wire>>

Read(strings) == {Reads[x] : x \in strings} \ {NoAddress}
Twice(list) ==
  {a \in Addresses : \E x, y \in On(list) : Reads[x] = a /\ Reads[y] = a /\ (x = y => list[x] > 1)}

\* The envelope has the addresses of all headers; the Bcc header is removed from what is sent.
Taken == Together(msg.to, msg.bcc)
Sent == [shown |-> Read(On(msg.to)), envelope |-> Read(On(Taken)), twice |-> Twice(Taken)]

Send ==
  /\ msg # None /\ wire = Nothing
  /\ wire' = Sent
  /\ UNCHANGED <<job, msg, default>>

\* The mail is sent, or its headers could not be read or the server refused it at any
\* point: it is not tried again.
End == /\ msg # None
       /\ job' = NoJob /\ msg' = None /\ wire' = Nothing /\ UNCHANGED default

Next == Ask \/ Compose \/ Send \/ End
-------------------------------------------------------------------------------
Listed == On(Cleaned(job.to)) \cup IF job.kind = "notice" THEN {} ELSE On(Cleaned(job.bcc))

Own == Listed \cup {From} \cup Support
Quiet == job.kind # "studio" /\ ~job.welcome
MayShow == {From} \cup IF Quiet THEN {} ELSE On(job.to)

\* A mail that is sent goes to all who are listed for it and to support, and to nobody
\* who was listed for an earlier one; its headers show nobody but the sender, the
\* reader of a welcome, and those the studio lists as To. But for those mails nobody gets it
\* twice, unless as support and the sender, or because the Bcc list has the address twice, or
\* those listed, support and the sender are written in two ways that are the same address.
MailsReachTheirOwn ==
  wire # Nothing =>
    /\ ~job.welcome => Read(Own) \subseteq wire.envelope
    /\ wire.envelope \subseteq Read(Own)
    /\ wire.shown \subseteq Read(MayShow)
    /\ Quiet => \A a \in wire.twice :
         \E x, y \in Own : /\ Reads[x] = a /\ Reads[y] = a
                           /\ x = y => job.bcc[x] > 1 \/ (x = From /\ x \in Support)
===============================================================================
