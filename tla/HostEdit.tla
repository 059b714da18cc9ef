----------------------------- MODULE HostEdit -----------------------------
(***************************************************************************)
(* The hosts page in several tabs (HostsPage.tsx, EditHostModal.tsx,       *)
(* api/hosts.ts) and the two handlers of routes/hosts.ts that it edits a   *)
(* row through: PUT /:id and POST /:id/toggle.                             *)
(*                                                                         *)
(* A tab shows a list it read up to ten seconds ago.  The form of a host   *)
(* is filled once, when it opens, and sends the tunnel and the zone only   *)
(* if they differ from what it was filled with.  A switch shows its new    *)
(* position at once, and the server flips whatever it finds.  What a       *)
(* deploy then does is HostDeploy.                                         *)
(*                                                                         *)
(* `tunnel` stands for the tunnel and the zone.  The forwarding fields are *)
(* left out: every form sends all of them, and the last one saved wins.    *)
(***************************************************************************)
EXTENDS Naturals

CONSTANTS Tabs, Hosts, Clicks, \* browser tabs, rows, and the clicks on a switch
          Tunnels,
          MaxPuts              \* bounds the forms sent

VARIABLES
  row,    \* proxy_hosts
  list,   \* the tab's ['hosts'] query; no list yet: NoList
  fetch,  \* the answer to its request under way; none: NoList
  form,   \* the modal: its host, the row it was filled with, its fields
  put,    \* the form's PUT: its step, what it carries, what was picked in the form
  click,  \* POST /toggle: its step, the list it puts back, the position it shows
  puts

edit_vars == <<row, list, fetch, form, put, click, puts>>

NoTunnel == "none"
NoPut == [at |-> "none"]
NoClick == [at |-> "new"]
Closed == [open |-> FALSE]
NoList == [read |-> FALSE]

Row == [tunnel : Tunnels \union {NoTunnel}, enabled : BOOLEAN]
Lists == {NoList} \union [read : {TRUE}, rows : [Hosts -> Row]]
Listed(rows) == [read |-> TRUE, rows |-> rows]
Field(sent, kept) == IF sent = NoTunnel THEN kept ELSE sent

EditTypeOK ==
  /\ row \in [Hosts -> Row] /\ list \in [Tabs -> Lists]
  /\ fetch \in [Tabs -> Lists]
  /\ \A t \in Tabs : form[t].open =>
        /\ form[t].host \in Hosts /\ form[t].seen \in Row
        /\ form[t].tunnel \in Tunnels \union {NoTunnel}
  /\ \A t \in Tabs : put[t].at \in {"none", "sent", "write"}
  /\ \A c \in Clicks : click[c].at \in {"new", "sent", "write", "done"}
  /\ puts \in 0..MaxPuts

-----------------------------------------------------------------------------
(* The list *)

\* A request of the tab that begins now may move the switch that was clicked before.
Disturbed(t) ==
  [c \in Clicks |-> IF click[c].at \notin {"new", "done"} /\ click[c].tab = t
                    THEN [click[c] EXCEPT !.alone = FALSE] ELSE click[c]]

\* useHosts: every ten seconds, on an event of the server, or when a page mounts; the rows are
\* read then, and shown when the answer arrives.  A request that fails changes nothing.
Poll(t) ==
  /\ fetch[t] = NoList /\ fetch' = [fetch EXCEPT ![t] = Listed(row)]
  /\ click' = Disturbed(t)
  /\ UNCHANGED <<row, list, form, put, puts>>

Receive(t) ==
  /\ fetch[t].read
  /\ list' = [list EXCEPT ![t] = fetch[t]] /\ fetch' = [fetch EXCEPT ![t] = NoList]
  /\ UNCHANGED <<row, form, put, click, puts>>

-----------------------------------------------------------------------------
(* The form *)

\* setEditingHost(h): the row the list shows, kept while the form is open.
Open(t, h) ==
  /\ list[t].read /\ ~form[t].open /\ put[t] = NoPut
  /\ form' = [form EXCEPT ![t] = [open |-> TRUE, host |-> h, seen |-> list[t].rows[h],
                                  tunnel |-> list[t].rows[h].tunnel,
                                  picked |-> FALSE]]
  /\ UNCHANGED <<row, list, fetch, put, click, puts>>

Pick(t) ==
  /\ form[t].open /\ put[t] = NoPut
  /\ \E n \in Tunnels : form' = [form EXCEPT ![t].tunnel = n, ![t].picked = TRUE]
  /\ UNCHANGED <<row, list, fetch, put, click, puts>>

Close(t) ==
  /\ form[t].open /\ form' = [form EXCEPT ![t] = Closed]
  /\ UNCHANGED <<row, list, fetch, put, click, puts>>

\* Mutant of Payload: the tunnel is sent whether it was changed or not
PayloadWithTunnel(f) == f.tunnel

\* onSubmit: tunnel_id goes along only if it differs from the row the form was filled with.
Payload(f) == IF f.tunnel # f.seen.tunnel THEN f.tunnel ELSE NoTunnel

Send(t) ==
  /\ form[t].open /\ put[t] = NoPut /\ puts < MaxPuts /\ puts' = puts + 1
  /\ put' = [put EXCEPT ![t] = [at |-> "sent", host |-> form[t].host, tunnel |-> Payload(form[t]),
                                picked |-> form[t].picked]]
  /\ UNCHANGED <<row, list, fetch, form, click>>

\* PUT /:id reads the row and, for another tunnel, takes the host down at the old one.  It may
\* be refused (the tunnel is gone, or does not carry the protocol): the modal stays open.
Handle(t) ==
  /\ put[t].at = "sent"
  /\ put' \in {[put EXCEPT ![t].at = "write"], [put EXCEPT ![t] = NoPut]}
  /\ UNCHANGED <<row, list, fetch, form, click, puts>>

\* The write carries the columns that were sent, not the row.  useUpdateHost: the form closes,
\* and the list is asked again; a request of it that is under way is given up.
Write(t) ==
  /\ put[t].at = "write" /\ put' = [put EXCEPT ![t] = NoPut]
  /\ row' = [row EXCEPT ![put[t].host].tunnel = Field(put[t].tunnel, @)]
  /\ form' = [form EXCEPT ![t] = Closed]
  /\ fetch' = [fetch EXCEPT ![t] = Listed(row')] /\ click' = Disturbed(t)
  /\ UNCHANGED <<list, puts>>

-----------------------------------------------------------------------------
(* The switch *)

Flip(l, h) == Listed([l.rows EXCEPT ![h].enabled = ~@])

\* onMutate: the request of the list that is under way is cancelled, the list kept for a
\* refusal, and the switch moved.
Click(c, t, h) ==
  /\ click[c].at = "new" /\ list[t].read
  /\ list' = [list EXCEPT ![t] = Flip(list[t], h)]
  /\ click' = [Disturbed(t) EXCEPT
        ![c] = [at |-> "sent", tab |-> t, host |-> h, previous |-> list[t],
                shown |-> ~list[t].rows[h].enabled, value |-> FALSE, alone |-> TRUE]]
  /\ fetch' = [fetch EXCEPT ![t] = NoList]
  /\ UNCHANGED <<row, form, put, puts>>

\* POST /:id/toggle writes the opposite of what it read.
Toggle(c) ==
  /\ click[c].at = "sent"
  /\ click' = [click EXCEPT ![c].at = "write", ![c].value = ~row[click[c].host].enabled]
  /\ UNCHANGED <<row, list, fetch, form, put, puts>>

\* onSettled asks for the list anew.
Settled(c) ==
  /\ fetch' = [fetch EXCEPT ![click[c].tab] = Listed(row')]
  /\ click' = [Disturbed(click[c].tab) EXCEPT ![c] = [at |-> "done"]]
  /\ UNCHANGED <<form, put, puts>>

Toggled(c) ==
  /\ click[c].at = "write"
  /\ row' = [row EXCEPT ![click[c].host].enabled = click[c].value]
  /\ UNCHANGED list /\ Settled(c)

\* onError: the server refuses or is not reached, and the list of that moment is put back.
Refused(c) ==
  /\ click[c].at = "sent" /\ UNCHANGED row
  /\ list' = [list EXCEPT ![click[c].tab] = click[c].previous] /\ Settled(c)

-----------------------------------------------------------------------------

EditInit ==
  /\ row \in [Hosts -> Row] /\ list = [t \in Tabs |-> NoList] /\ fetch = [t \in Tabs |-> NoList]
  /\ form = [t \in Tabs |-> Closed] /\ put = [t \in Tabs |-> NoPut]
  /\ click = [c \in Clicks |-> NoClick] /\ puts = 0

EditNext ==
  \/ \E t \in Tabs :
       \/ Poll(t)
       \/ Receive(t)
       \/ \E h \in Hosts : Open(t, h)
       \/ Pick(t)
       \/ Close(t)
       \/ Send(t)
       \/ Handle(t)
       \/ Write(t)
  \/ \E c \in Clicks :
       \/ \E t \in Tabs, h \in Hosts : Click(c, t, h)
       \/ Toggle(c)
       \/ Toggled(c)
       \/ Refused(c)

EditSpec == EditInit /\ [][EditNext]_edit_vars

-----------------------------------------------------------------------------
\* A host moves only to a tunnel that somebody picked in the form that moves it: a form opened
\* before another tab moved the host, and saved after, changes the origin and leaves the host
\* where it is now (EditHostModal.tsx:133 and 167).
EditKeepsTunnel ==
  [][\A h \in Hosts : row'[h].tunnel # row[h].tunnel =>
       \E t \in Tabs : /\ put[t].at = "write" /\ put[t].host = h /\ put[t].picked
                       /\ put[t].tunnel = row'[h].tunnel]_edit_vars

\* The switch stays where the click put it while the server is asked, as far as no request of
\* the list begins after it: one that was under way carries the row from before the click
\* (api/hosts.ts:69-71).
ClickStands ==
  \A c \in Clicks : click[c].at \in {"sent", "write"} =>
    (click[c].alone => list[click[c].tab].rows[click[c].host].enabled = click[c].shown)

=============================================================================
