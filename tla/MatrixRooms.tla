---------------------------- MODULE MatrixRooms ----------------------------
(***************************************************************************)
(* The rooms of the matrix messenger (internal/matrix/messenger/rooms.go   *)
(* and the room calls of internal/matrix/client): which room a message to  *)
(* a bot is sent to.  Several bots run this code, each started in its own  *)
(* time.  Bots of older versions have left encrypted rooms behind, with    *)
(* members and with invites; a started bot leaves those it is in.          *)
(*                                                                         *)
(* The Matrix server is external.  Every call to it may fail.  A client's  *)
(* state store knows the encryption of a room the bot is in or invited to. *)
(***************************************************************************)
EXTENDS Naturals

CONSTANTS
  Messengers,    \* the bots
  Rooms,         \* rooms that exist or can be created
  Encrypted,     \* the rooms older versions have made
  Sends,         \* calls of SendMessage
  MaxStarts,     \* bound on the starts of all bots
  NoRoom

ASSUME RoomsAssumption == Encrypted \subseteq Rooms /\ NoRoom \notin Rooms

VARIABLES
  joined,      \* members of each room
  invites,     \* invites that their bot has not handled: <<bot, room>>
  unjoined,    \* history: invites a bot has handled without joining
  running,     \* bots whose messenger is started
  starts,      \* number of starts
  roomsCache,  \* m.rooms of each bot: the room of a recipient or NoRoom
  sending,     \* [stage, by, to, room] of each send
  created,     \* rooms that exist
  posted       \* <<room, recipient>> of the events that were sent

roomsVars == <<joined, invites, unjoined, running, starts, roomsCache, sending,
               created, posted>>

NewCache == [to \in Messengers |-> NoRoom]

\* The encrypted rooms have members and invites of any kind.
RoomsInit ==
  /\ joined \in [Rooms -> SUBSET Messengers]
  /\ \A r \in Rooms \ Encrypted : joined[r] = {}
  /\ invites \in SUBSET (Messengers \X Encrypted)
  /\ \A i \in invites : i[1] \notin joined[i[2]]
  /\ unjoined = {}
  /\ running = {}
  /\ starts = 0
  /\ roomsCache = [b \in Messengers |-> NewCache]
  /\ sending = [s \in Sends |-> [stage |-> "idle"]]
  /\ created = Encrypted
  /\ posted = {}

-----------------------------------------------------------------------------
(* The client's calls.                                                     *)

IsRoomEncrypted(r) == r \in Encrypted
JoinedRooms(b) == {r \in created : b \in joined[r]}
IsUserJoinedRoom(r, b) == b \in joined[r]

CreateRoomForUser(r, b, to) ==
  /\ r \in Rooms \ created
  /\ created' = created \cup {r}
  /\ joined' = [joined EXCEPT ![r] = {b}]
  /\ invites' = invites \cup {<<to, r>>}

CacheRoom(b, to, r) == roomsCache' = [roomsCache EXCEPT ![b][to] = r]

-----------------------------------------------------------------------------
(* Start and stop.                                                         *)

\* removeEncryptedRooms: the rooms are left in parallel; one that cannot be
\* checked, left or forgotten fails them all, once each has been tried.
removeEncryptedRooms(b, left) ==
  {r \in JoinedRooms(b) : IsRoomEncrypted(r)} = left

StartRooms(b) ==
  /\ b \notin running /\ starts < MaxStarts
  /\ starts' = starts + 1
  /\ roomsCache' = [roomsCache EXCEPT ![b] = NewCache]
  /\ \E left \in SUBSET {r \in JoinedRooms(b) : IsRoomEncrypted(r)} :
       /\ joined' = [r \in Rooms |-> IF r \in left THEN joined[r] \ {b} ELSE joined[r]]
       /\ \/ removeEncryptedRooms(b, left) /\ running' = running \cup {b}
          \/ UNCHANGED running
  /\ UNCHANGED <<invites, unjoined, sending, created, posted>>

\* The process ends; its sends are cut off.
StopRooms(b) ==
  /\ b \in running
  /\ running' = running \ {b}
  /\ sending' = [s \in Sends |->
       IF sending[s].stage \notin {"idle", "done"} /\ sending[s].by = b
         THEN [stage |-> "done"] ELSE sending[s]]
  /\ UNCHANGED <<joined, invites, unjoined, starts, roomsCache, created, posted>>

-----------------------------------------------------------------------------
(* Invites.                                                                *)

\* Mutant: the bot joins whatever it is invited to.
AcceptAnyInvite(b, r) ==
  \/ joined' = [joined EXCEPT ![r] = @ \cup {b}] /\ UNCHANGED unjoined
  \/ unjoined' = unjoined \cup {<<b, r>>} /\ UNCHANGED joined

\* The handler joins an unencrypted room; an error is logged and the invite is
\* not looked at again.
AcceptInvite(b, r) ==
  \/ /\ ~IsRoomEncrypted(r)
     /\ joined' = [joined EXCEPT ![r] = @ \cup {b}]
     /\ UNCHANGED unjoined
  \/ unjoined' = unjoined \cup {<<b, r>>} /\ UNCHANGED joined

stateMemberEventHandler(b, r) ==
  /\ b \in running /\ <<b, r>> \in invites
  /\ invites' = invites \ {<<b, r>>}
  /\ AcceptInvite(b, r)
  /\ UNCHANGED <<running, starts, roomsCache, sending, created, posted>>

-----------------------------------------------------------------------------
(* SendMessage.                                                            *)

SendGoes(s, stage, room) ==
  sending' = [sending EXCEPT ![s].stage = stage, ![s].room = room]

\* A cached room is used as it is; else the joined rooms are asked for.
SendMessage(s, b, to) ==
  /\ sending[s].stage = "idle" /\ b \in running /\ b # to
  /\ sending' = [sending EXCEPT ![s] =
       [stage |-> IF roomsCache[b][to] = NoRoom THEN "finding" ELSE "sending",
        by |-> b, to |-> to, room |-> roomsCache[b][to]]]
  /\ UNCHANGED <<joined, invites, unjoined, running, starts, roomsCache, created, posted>>

\* The first joined room that the recipient is in too; an error on the way
\* counts as none.
findExistingRoomForRecipient(s) ==
  /\ sending[s].stage = "finding"
  /\ LET b == sending[s].by
         to == sending[s].to
     IN \/ \E r \in JoinedRooms(b) :
             /\ IsUserJoinedRoom(r, to)
             /\ CacheRoom(b, to, r) /\ SendGoes(s, "sending", r)
        \/ SendGoes(s, "creating", NoRoom) /\ UNCHANGED roomsCache
  /\ UNCHANGED <<joined, invites, unjoined, running, starts, created, posted>>

getRoomForRecipient(s) ==
  /\ sending[s].stage = "creating"
  /\ \/ \E r \in Rooms :
          /\ CreateRoomForUser(r, sending[s].by, sending[s].to)
          /\ CacheRoom(sending[s].by, sending[s].to, r)
          /\ SendGoes(s, "sending", r)
     \/ SendGoes(s, "done", NoRoom) /\ UNCHANGED <<joined, invites, created, roomsCache>>
  /\ UNCHANGED <<unjoined, running, starts, posted>>

\* The signed event and the chunk events go to the room, one after another; an
\* error ends the call.
PostEvents(s) ==
  /\ sending[s].stage = "sending"
  /\ \/ posted' = posted \cup {<<sending[s].room, sending[s].to>>} /\ UNCHANGED sending
     \/ SendGoes(s, "done", NoRoom) /\ UNCHANGED posted
  /\ UNCHANGED <<joined, invites, unjoined, running, starts, roomsCache, created>>

\* Other recipients push an entry out of the cache.
EvictRoom(b, to) ==
  /\ roomsCache[b][to] # NoRoom
  /\ CacheRoom(b, to, NoRoom)
  /\ UNCHANGED <<joined, invites, unjoined, running, starts, sending, created, posted>>

-----------------------------------------------------------------------------
RoomsNext ==
  \/ \E b \in Messengers : StartRooms(b) \/ StopRooms(b)
  \/ \E b \in Messengers, r \in Rooms : stateMemberEventHandler(b, r)
  \/ \E s \in Sends, b, to \in Messengers : SendMessage(s, b, to)
  \/ \E s \in Sends :
       findExistingRoomForRecipient(s) \/ getRoomForRecipient(s) \/ PostEvents(s)
  \/ \E b, to \in Messengers : EvictRoom(b, to)

RoomsSpec == RoomsInit /\ [][RoomsNext]_roomsVars

-----------------------------------------------------------------------------
\* What is sent stays in a room that its recipient reads: an unencrypted one
\* that the recipient is in, or will be in when it handles its invite; unless
\* its one attempt to join has failed.  It holds although a cached room is not
\* looked at again, because a bot only ever leaves, and never joins, the rooms
\* that no sender has cached.
PostedIsReadable ==
  \A p \in posted :
    LET i == <<p[2], p[1]>> IN
    /\ p[1] \notin Encrypted
    /\ p[2] \in joined[p[1]] \/ i \in invites \/ i \in unjoined
=============================================================================
