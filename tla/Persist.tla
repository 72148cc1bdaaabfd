-------------------------------- MODULE Persist --------------------------------
(* Saving a session to a file and restoring it, core/persist.c, by a process that  *)
(* may crash at any step.  The client's caches and the jar are those of the other  *)
(* modules; their clocks differ: the loop's starts anew with each process.         *)
EXTENDS ClientCaches, CookieJar

CONSTANTS MaxCrashes,  \* the bound on crashes
          MaxChanges   \* the bound on changes of the caches and the jar

VARIABLES file,     \* the session file
          tmp,      \* the file with the .tmp suffix
          save,     \* where session_save is: "no", "opened", "closed"
          snap,     \* the document being written
          crashes, changes
persistVars == <<file, tmp, save, snap, crashes, changes>>
vars == <<cacheVars, jarVars, persistVars>>

NoFile == [whole |-> FALSE]
Partial == [whole |-> FALSE, started |-> TRUE]

-----------------------------------------------------------------------------
(* Documents                                                                 *)

\* persist_build_client: expiries become remaining times, and what has none is left out
Remaining(entries, now) ==
  LET live == SelectSeq(entries, LAMBDA e : e.expiry > now)
  IN [i \in DOMAIN live |-> [live[i] EXCEPT !.expiry = @ - now]]

\* session_marshal; a cookie's expiry is wall-clock time and stays
Marshal ==
  [whole |-> TRUE, resume |-> SelectSeq(resume, LAMBDA e : e.session.id # 0),
   alt |-> Remaining(alt, mono), ech |-> Remaining(ech, mono), cookies |-> jar]

\* persist_put_alt_svc and persist_put_ech: a full array takes no new origin
Merge(entries, e) ==
  CASE At(entries, e.origin) # 0 -> [entries EXCEPT ![At(entries, e.origin)] = e]
    [] At(entries, e.origin) = 0 /\ Len(entries) >= CacheCap -> entries
    [] OTHER -> Append(entries, e)

\* persist_restore_client: the remaining time starts at the load
Restore(entries, saved, now) ==
  FoldLeft(Merge, entries, [i \in DOMAIN saved |-> [saved[i] EXCEPT !.expiry = @ + now]])

\* A restored ticket is a new session object with the bytes of the saved one.
RestoreTicket(acc, e) ==
  LET put == PutTicket(acc.rc, e.origin, [e.session EXCEPT !.id = acc.issued + 1], mono)
  IN [rc |-> IF e.tp = 0 THEN put.rc ELSE PutTp(put.rc, e.origin, e.tp, mono),
      issued |-> acc.issued + 1, freed |-> acc.freed \cup put.free]

-----------------------------------------------------------------------------
(* Actions.  The process is one thread: nothing else runs during a save.     *)

Idle == save = "no"
Quiet == event' = [kind |-> "none"]

\* session_save: the document is built and the temporary file truncated
SaveOpen ==
  /\ Idle /\ save' = "opened"
  /\ snap' = Marshal /\ tmp' = Partial
  /\ UNCHANGED <<cacheVars, jarVars, file, crashes, changes>>

\* Mutant: the document is written over the session file.
SaveWriteInPlace ==
  /\ save = "opened" /\ save' = "closed"
  /\ file' = tmp /\ tmp' = snap /\ snap' = NoFile
  /\ UNCHANGED <<cacheVars, jarVars, crashes, changes>>

\* It is written and closed; when either fails the temporary file is removed.
SaveWrite ==
  /\ save = "opened"
  /\ \/ tmp' = snap /\ save' = "closed"
     \/ tmp' = NoFile /\ save' = "no"
  /\ snap' = NoFile
  /\ UNCHANGED <<cacheVars, jarVars, file, crashes, changes>>

\* It is renamed, or removed when that fails.
SaveRename ==
  /\ save = "closed" /\ save' = "no"
  /\ tmp' = NoFile /\ file' \in {tmp, file}
  /\ UNCHANGED <<cacheVars, jarVars, snap, crashes, changes>>

\* session_load, which refuses what does not parse
Load ==
  /\ Idle /\ file.whole
  /\ issued + Len(file.resume) <= MaxTickets
  /\ LET tickets == FoldLeft(RestoreTicket, [rc |-> resume, issued |-> issued, freed |-> freed], file.resume)
     IN resume' = tickets.rc /\ issued' = tickets.issued /\ freed' = tickets.freed
  /\ alt' = Restore(alt, file.alt, mono) /\ ech' = Restore(ech, file.ech, mono)
  /\ jar' = FoldLeft(Put, jar, file.cookies)
  /\ Quiet
  /\ UNCHANGED <<mono, clock, persistVars>>

\* The process dies at any step, and another one starts with a new clock.
Crash ==
  /\ crashes < MaxCrashes /\ crashes' = crashes + 1
  /\ resume' = <<>> /\ alt' = <<>> /\ ech' = <<>> /\ jar' = <<>>
  /\ mono' = 0 /\ issued' = 0 /\ freed' = {}
  /\ save' = "no" /\ snap' = NoFile /\ Quiet
  /\ UNCHANGED <<clock, file, tmp, changes>>

Changing ==
  /\ Idle /\ changes < MaxChanges /\ changes' = changes + 1
  /\ UNCHANGED <<file, tmp, save, snap, crashes>>

TimePasses ==
  /\ Idle /\ mono < MaxMono /\ mono' = mono + 1
  /\ clock' = clock + 1 /\ Quiet
  /\ UNCHANGED <<resume, alt, ech, issued, freed, jar, persistVars>>

Init ==
  /\ CachesInit /\ JarInit
  /\ file = NoFile /\ tmp = NoFile /\ save = "no" /\ snap = NoFile /\ crashes = 0 /\ changes = 0
Next ==
  \/ Changing /\ CachesNext /\ UNCHANGED jarVars
  \/ Changing /\ (\E req \in Urls, sc \in SetCookies : Respond(req, sc)) /\ UNCHANGED cacheVars
  \/ SaveOpen \/ SaveWrite \/ SaveRename
  \/ Load \/ Crash \/ TimePasses
Spec == Init /\ [][Next]_vars

-----------------------------------------------------------------------------
(* Properties                                                                *)

\* The session file is absent or one whole document, whatever fails and wherever the
\* process dies ("a crash mid-write never corrupts an existing file"), and no entry
\* outlives, by the clock of the process that restored it, what a server can ask for.
FileWhole ==
  /\ file = NoFile \/ file.whole
  /\ \A entries \in {alt, ech} : \A i \in DOMAIN entries : entries[i].expiry - mono <= Max(Lifetimes)

\* Apart from the identity of session objects
SameDocument(d, e) ==
  LET bytes(rc) == [i \in DOMAIN rc |-> [rc[i] EXCEPT !.session.id = 0, !.used = 0]]
  IN /\ d.alt = e.alt /\ d.ech = e.ech /\ d.cookies = e.cookies
     /\ bytes(d.resume) = bytes(e.resume)

\* A fresh process that loads the file holds what the file says: saving at once would
\* write the same document.  In a process with entries of its own no origin is lost from
\* the Alt-Svc and ECH caches ("it never clears entries already present").
LoadRestores ==
  [][Load =>
       /\ (<<resume, alt, ech, jar>> = <<<<>>, <<>>, <<>>, <<>>>> => SameDocument(Marshal', file))
       /\ \A o \in Origins : (At(alt, o) # 0 => At(alt', o) # 0) /\ (At(ech, o) # 0 => At(ech', o) # 0)]_vars
===============================================================================
