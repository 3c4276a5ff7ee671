------------------------------ MODULE LockSystem ------------------------------
(***************************************************************************)
(* The three programs that share the Datastore, running side by side: the  *)
(* lock server, the administrative website and the capacity cron job.      *)
(* None of them knows of the others; they meet only in the entities.       *)
(***************************************************************************)
EXTENDS LockServer, AdminSite, CapacityReset

CONSTANT Editing  (* when the website is used:                             *)
                  (*   "any"    at any time, by several people             *)
                  (*   "quiet"  one request at a time, and none while the  *)
                  (*            server or the cron job is at work          *)

ASSUME EditingAssumption == Editing \in {"any", "quiet"}

systemVars ==
  <<rooms, users, log, now, pc, job, accepted, failures, web, edits, cron, resets>>

-----------------------------------------------------------------------------
NobodyEdits == \A h \in Handlers : web[h].op = "idle"

ServerRests == \A c \in Conns : ~Active(c)

ServerStep ==
  /\ \E c \in Conns :
       \/ (Editing = "quiet" => NobodyEdits) /\ Receive(c)
       \/ Run(c)
       \/ CallFails(c)
  /\ UNCHANGED <<web, edits, cron, resets>>

SiteStep ==
  /\ \E h \in Handlers :
       \/ /\ Editing = "quiet" => NobodyEdits /\ ServerRests /\ cron = CronIdle
          /\ Begin(h)
       \/ Finish(h)
  /\ UNCHANGED <<pc, job, accepted, failures, cron, resets>>

CronStep ==
  /\ Editing = "quiet" => NobodyEdits
  /\ ResetStep
  /\ UNCHANGED <<pc, job, accepted, failures, web, edits>>

Tick ==
  /\ now' \in Minutes \ {now}
  /\ UNCHANGED <<rooms, users, log, pc, job, accepted, failures, web, edits, cron, resets>>

SystemInit == ServerInit /\ SiteInit /\ ResetInit

SystemNext == ServerStep \/ SiteStep \/ CronStep \/ Tick

SystemSpec == SystemInit /\ [][SystemNext]_systemVars

-----------------------------------------------------------------------------
(* Server, website and cron job keep their types while they write the same  *)
(* room entities.                                                          *)
SystemTypeOK == ServerTypeOK /\ SiteTypeOK /\ ResetTypeOK

(* Resets and uploads set a Capacity to zero with people inside, so that it *)
(* falls behind; but it never shows more people than have a visit open, not *)
(* even when the cron job's put lands between a get and a put of a thread.  *)
NeverOverCounts ==
  \A r \in DOMAIN rooms :
    (\A c \in Conns : Active(c) => job[c].room # r)
      => rooms[r].Capacity <= Cardinality(Inside(r))

(* Who may enter a room, and that it exists at all, is changed only by the  *)
(* website, and by a request about exactly that: no put of an entity that   *)
(* was read earlier brings back an access, or a room, that was taken away,  *)
(* or drops one that was given, whoever does the put.                       *)
Access(store) == [r \in DOMAIN store |-> <<store[r].Users, store[r].Group>>]

AsRequested ==
  \E h \in Handlers :
    \/ /\ web[h].op \in ListEdits
       /\ web'[h] = Idle
       /\ web[h].room \in DOMAIN rooms
       /\ Access(rooms') =
            Access(Put(rooms, web[h].room,
                       Edited(web[h].op, rooms[web[h].room], web[h].what)))
    \/ web[h].op = "uploadRooms" /\ web'[h] # web[h]
    \/ web'[h] = web[h] /\ edits' = edits + 1

AccessAsRequested == [][Access(rooms') = Access(rooms) \/ AsRequested]_systemVars
=============================================================================
