------------------------------- MODULE Syncrepl -------------------------------
(***************************************************************************)
(* The consumer of LDAP content synchronisation (servers/slapd/syncrepl.c): *)
(* what it keeps and what each message of the provider does to it.          *)
(*                                                                          *)
(* A consumer is a record: the version it holds of every entry (the         *)
(* entryCSN, or NoCsn), its cookie (the contextCSN it has saved), the list   *)
(* of entries the refresh has named, and the flags si_refreshDone and        *)
(* si_refreshPresent.  There is one server ID, so a cookie is one CSN, and   *)
(* a CSN is a number.                                                       *)
(***************************************************************************)
EXTENDS Integers

CONSTANT Entries

NoCsn == -1

\* What a provider sends: entries of a refresh or changes ("ADD", "MODIFY",
\* "DELETE"), sets of entries that are there or are gone ("PRESENT",
\* "DELETES"), the end of a refresh that goes on as a persistent search
\* ("REFRESH_PRESENT", "REFRESH_DELETE") or that ends the search
\* ("DONE_PRESENT", "DONE_DELETES"), a new cookie, or a refusal.
Tags == {"ADD", "MODIFY", "DELETE", "PRESENT", "DELETES", "REFRESH_PRESENT",
         "REFRESH_DELETE", "DONE_PRESENT", "DONE_DELETES", "NEW_COOKIE", "REFUSED"}

Message(tag, entries, csn, cookie) ==
  [tag |-> tag, entries |-> entries, csn |-> csn, cookie |-> cookie]

Consumer(content, cookie) ==
  [content |-> content, cookie |-> cookie, present |-> {},
   refreshDone |-> FALSE, refreshPresent |-> FALSE]

\* A new session.
Reset(c) == Consumer(c.content, c.cookie)

\* An empty cookie is older than any.
Newer(c, csn) == csn > c.cookie

SaveCookie(c, csn) == IF Newer(c, csn) THEN [c EXCEPT !.cookie = csn] ELSE c

\* A change whose cookie is not newer is skipped.  si_too_old is set then, but
\* do_syncrep2 is left at once and do_syncrepl clears it, so that nothing else is.
TooOld(c, m) == m.cookie # NoCsn /\ ~Newer(c, m.cookie)

Present(c, entries) == [c EXCEPT !.present = @ \cup entries]

\* Mutant: entries of the refresh do not count as present.
MentionedNot(c, m) == c

Mentioned(c, m) ==
  IF m.tag = "ADD" /\ ~c.refreshPresent /\ ~c.refreshDone
    THEN Present(c, m.entries) ELSE c

\* An entry is stored when the CSN it came under is newer than the cookie, and
\* it is newer than the version held.
Store(c, m) ==
  LET csn == IF m.cookie = NoCsn THEN m.csn ELSE m.cookie
  IN  IF Newer(c, csn)
        THEN [c EXCEPT !.content = [e \in Entries |->
               IF e \in m.entries /\ @[e] < m.csn THEN m.csn ELSE @[e]]]
        ELSE c

RemoveEntries(c, entries) ==
  [c EXCEPT !.content = [e \in Entries |-> IF e \in entries THEN NoCsn ELSE @[e]]]

\* Only versions the provider's cookie accounts for are taken to be gone.
Covered(c, e, cookie) == c.content[e] <= cookie

DelNonpresent(c, candidates, cookie) ==
  [RemoveEntries(c, {e \in candidates : Covered(c, e, cookie)}) EXCEPT !.present = {}]

Absent(c) == Entries \ c.present

Change(c, m) ==
  LET d == IF m.tag = "DELETE" THEN RemoveEntries(c, m.entries) ELSE Store(Mentioned(c, m), m)
  IN  IF TooOld(c, m) THEN c ELSE SaveCookie(d, m.cookie)

\* The end of a refresh in a persistent search; a newer cookie ends the list of
\* entries present.
EndRefresh(c, m) ==
  LET d == [c EXCEPT !.refreshDone = TRUE,
                     !.refreshPresent = (m.tag = "REFRESH_PRESENT")]
      e == IF d.refreshPresent THEN DelNonpresent(d, Absent(d), m.cookie) ELSE d
  IN  IF Newer(c, m.cookie)
        THEN [SaveCookie(e, m.cookie) EXCEPT !.present = {}] ELSE d

\* The end of a search that only refreshes.
EndSearch(c, m) ==
  LET d == IF m.tag = "DONE_PRESENT" /\ Newer(c, m.cookie)
             THEN DelNonpresent(c, Absent(c), m.cookie) ELSE [c EXCEPT !.present = {}]
  IN  SaveCookie(d, m.cookie)

NewCookie(c, m) ==
  IF Newer(c, m.cookie)
    THEN [SaveCookie(c, m.cookie) EXCEPT !.present = {}] ELSE c

Receive(c, m) ==
  CASE m.tag \in {"ADD", "MODIFY", "DELETE"}            -> Change(c, m)
    [] m.tag = "PRESENT"                                -> Present(c, m.entries)
    [] m.tag = "DELETES"                                -> DelNonpresent(c, m.entries, m.cookie)
    [] m.tag \in {"REFRESH_PRESENT", "REFRESH_DELETE"}  -> EndRefresh(c, m)
    [] m.tag \in {"DONE_PRESENT", "DONE_DELETES"}       -> EndSearch(c, m)
    [] m.tag = "NEW_COOKIE"                             -> NewCookie(c, m)
    [] m.tag = "REFUSED"                                -> [c EXCEPT !.present = {}]
===============================================================================
