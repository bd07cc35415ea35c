---------------------------- MODULE Conversations ----------------------------
(***************************************************************************)
(* Chat about a ticket or an agency's onboarding (chat.service.ts, its     *)
(* controller) and the sockets it is broadcast to (websocket.gateway.ts),  *)
(* in one process with the uploads of module MediaFiles. The address of a  *)
(* file in a message is free text, so messages do not depend on files.     *)
(*                                                                         *)
(* A room is looked for and then made. A message is stored, its room is    *)
(* touched, and then the controller emits it to the sockets that joined    *)
(* the room's channel. Receipts are written one message after another.     *)
(* Any statement may fail, which ends its request where it is.             *)
(*                                                                         *)
(* One ticket and any agencies are modelled. Call signalling relays events *)
(* between users' sockets and keeps no state; see the README for the call  *)
(* log.                                                                    *)
(***************************************************************************)
EXTENDS MediaFiles

CONSTANTS
  Users,
  Creator,              (* of the ticket                                    *)
  Coordinator,          (* of each agency, or NoUser                        *)
  NoUser,
  Requests,             (* chat requests handled at once                    *)
  Sockets,              (* connections                                      *)
  Agencies, NoAgency,
  Clients,              (* the tokens that connecting sockets present       *)
  MaxRooms, MaxMessages, MaxCalls, (* bounds: rooms, messages, requests     *)
  Wanted,               (* bound: channels that clients ask for or leave    *)
  Scenes                (* sets of parts of the system that run together    *)

ASSUME ConversationsAssumption ==
  /\ Creator \in Users /\ NoUser \notin Users
  /\ Coordinator \in [Agencies -> Users \cup {NoUser}]
  /\ NoAgency \notin Agencies
  /\ Clients \subseteq [user : Users, agency : Agencies \cup {NoAgency}, admin : BOOLEAN]
  /\ {MaxRooms, MaxMessages, MaxCalls} \subseteq Nat
  /\ Scenes \subseteq
       SUBSET {"rooms", "people", "assignment", "messages", "receipts", "sockets", "media"}

VARIABLES
  scene,    (* the parts that run in this behaviour                         *)
  assignee, (* currentAssigneeId of the ticket                              *)
  rooms,    (* the rows of chat_rooms with their participants               *)
  messages, (* the rows of chat_messages                                    *)
  receipts, (* the rows of chat_read_receipts: pairs (message, user)        *)
  requests, (* per request: where its handler is                            *)
  sockets,  (* per connection: its token and the rooms it has joined        *)
  calls     (* requests made                                                *)

chatVars == <<assignee, rooms, messages, receipts, requests, sockets, calls>>
vars == <<scene, chatVars, mediaVars>>

(* What rooms are about: the ticket, or the onboarding of an agency.       *)
Topics == {"TICKET"} \cup Agencies

Room == [topic : Topics, participants : SUBSET Users]
Message == [room : Nat, sender : Users]

Channels == {<<"public", "national_live_feed">>} \cup ({"chat"} \X (1..MaxRooms))
              \cup ({"agency"} \X Agencies) \cup ({"user"} \X Users)

(* client: what the token says; joined: the socket.io rooms; subscribed:   *)
(* the set kept in client.data; got: the messages it was sent; entered: a  *)
(* history of the chat rooms whose channel it has joined.                  *)
Connected == [client : Clients, joined : SUBSET Channels, subscribed : SUBSET Channels,
              got : SUBSET Nat, entered : SUBSET Nat]
Closed == [got |-> {}]

Answered == [stage |-> "answered"]
Failed == [stage |-> "failed"]
Opening == [stage : {"find", "create"}, topic : Topics, people : SUBSET Users]
Sending == [stage : {"announce"}, message : Nat]
Reading == [stage : {"receipts"}, user : Users, found : SUBSET Nat, left : SUBSET Nat]

TypeOK ==
  /\ MediaTypeOK
  /\ scene \in Scenes
  /\ assignee \in Users \cup {NoUser}
  /\ rooms \in Seq(Room)
  /\ messages \in Seq(Message)
  /\ receipts \subseteq (DOMAIN messages) \X Users
  /\ requests \in [Requests -> {Answered, Failed} \cup Opening \cup Sending \cup Reading]
  /\ sockets \in [Sockets -> Connected \cup {Closed}]
  /\ calls \in Nat

Init ==
  /\ MediaInit
  /\ scene \in Scenes
  /\ assignee = NoUser
  /\ rooms = <<>> /\ messages = <<>> /\ receipts = {}
  /\ requests = [r \in Requests |-> Answered]
  /\ sockets = [s \in Sockets |-> Closed]
  /\ calls = 0

At(r, stage) == requests[r].stage = stage
Goes(r, to) == requests' = [requests EXCEPT ![r] = to]

(* A request arrives where one is over.                                    *)
Arrives(r) == requests[r] \in {Answered, Failed} /\ calls < MaxCalls /\ calls' = calls + 1

RoomsOf(topic) == {k \in DOMAIN rooms : rooms[k].topic = topic}

(***************************************************************************)
(* Rooms.                                                                  *)
(***************************************************************************)

(* getOrCreateTicketRoom and getOrCreateOnboardingRoom look for the room.  *)
OpenRoom(r) ==
  /\ Arrives(r)
  /\ \E topic \in Topics :
       Goes(r, IF RoomsOf(topic) # {} THEN Answered
               ELSE [stage |-> "find", topic |-> topic, people |-> {}])
  /\ UNCHANGED <<assignee, rooms, messages, receipts, sockets>>

(* Not finding it, they read who belongs in it ...                         *)
People(topic) ==
  (IF topic = "TICKET" THEN {Creator, assignee} ELSE {Coordinator[topic]}) \ {NoUser}

FindPeople(r) ==
  /\ At(r, "find")
  /\ Goes(r, [requests[r] EXCEPT !.stage = "create", !.people = People(requests[r].topic)])
  /\ UNCHANGED <<assignee, rooms, messages, receipts, sockets, calls>>

(* ... and make it. ticketId is unique, agencyId is not.                   *)
RoomRefused(topic) == topic = "TICKET" /\ RoomsOf(topic) # {}

CreateRoom(r) ==
  LET q == requests[r] IN
  /\ At(r, "create") /\ Len(rooms) < MaxRooms
  /\ \/ /\ RoomRefused(q.topic)
        /\ Goes(r, Failed) /\ UNCHANGED rooms
     \/ /\ ~RoomRefused(q.topic)
        /\ rooms' = Append(rooms, [topic |-> q.topic, participants |-> q.people])
        /\ Goes(r, Answered)
  /\ UNCHANGED <<assignee, messages, receipts, sockets, calls>>

(* A participant twice in a room is refused by the index.                  *)
AddParticipant(r) ==
  /\ Arrives(r)
  /\ \E k \in DOMAIN rooms, u \in Users :
       \/ u \in rooms[k].participants /\ Goes(r, Failed) /\ UNCHANGED rooms
       \/ /\ u \notin rooms[k].participants
          /\ rooms' = [rooms EXCEPT ![k].participants = @ \cup {u}]
          /\ Goes(r, Answered)
  /\ UNCHANGED <<assignee, messages, receipts, sockets>>

(* The ticket is assigned to someone else (module TicketLifecycle); its    *)
(* room is not told.                                                       *)
Reassign ==
  /\ assignee' \in Users \ {assignee}
  /\ UNCHANGED <<rooms, messages, receipts, requests, sockets, calls>>

(***************************************************************************)
(* Messages. Anyone may write to any room there is.                        *)
(***************************************************************************)

SendMessage(r) ==
  /\ Arrives(r) /\ Len(messages) < MaxMessages
  /\ \E k \in DOMAIN rooms, u \in Users :
       messages' = Append(messages, [room |-> k, sender |-> u])
  /\ Goes(r, [stage |-> "announce", message |-> Len(messages) + 1])
  /\ UNCHANGED <<assignee, rooms, receipts, sockets>>

(* The room is touched and the message emitted to its channel.             *)
Audience_All(k) == {s \in Sockets : sockets[s] # Closed}

Audience(k) == {s \in Sockets : sockets[s] # Closed /\ <<"chat", k>> \in sockets[s].joined}

Announce(r) ==
  LET m == requests[r].message IN
  /\ At(r, "announce")
  /\ sockets' = [s \in Sockets |->
       IF s \in Audience(messages[m].room)
         THEN [sockets[s] EXCEPT !.got = @ \cup {m}] ELSE sockets[s]]
  /\ Goes(r, Answered)
  /\ UNCHANGED <<assignee, rooms, messages, receipts, calls>>

(* markRead reads the messages of others in the room ...                   *)
Others(k, u) == {m \in DOMAIN messages : messages[m].room = k /\ messages[m].sender # u}

MarkRead(r) ==
  /\ Arrives(r)
  /\ \E k \in DOMAIN rooms, u \in Users :
       Goes(r, [stage |-> "receipts", user |-> u, found |-> Others(k, u), left |-> Others(k, u)])
  /\ UNCHANGED <<assignee, rooms, messages, receipts, sockets>>

(* ... and writes a receipt for each unless there is one.                  *)
Left_OnlyFirst(q, m) == {}

Left(q, m) == q.left \ {m}

WriteReceipt(r) ==
  LET q == requests[r] IN
  /\ At(r, "receipts")
  /\ \/ \E m \in q.left :
          /\ receipts' = receipts \cup {<<m, q.user>>}
          /\ Goes(r, [q EXCEPT !.left = Left(q, m)])
     \/ q.left = {} /\ Goes(r, Answered) /\ UNCHANGED receipts
  /\ UNCHANGED <<assignee, rooms, messages, sockets, calls>>

(* A statement of a chat request fails: what it did stays done.            *)
StatementFails(r) ==
  /\ requests[r] \notin {Answered, Failed}
  /\ Goes(r, Failed)
  /\ UNCHANGED <<assignee, rooms, messages, receipts, sockets, calls>>

(***************************************************************************)
(* Sockets.                                                                *)
(***************************************************************************)

(* handleConnection with a good token; another is disconnected at once.    *)
HandleConnection(s) ==
  /\ sockets[s] = Closed
  /\ \E c \in Clients :
       LET feed == {<<"agency", a>> : a \in {c.agency} \ {NoAgency}} IN
       sockets' = [sockets EXCEPT ![s] =
         [client |-> c, joined |-> {<<"user", c.user>>} \cup feed, subscribed |-> feed,
          got |-> {}, entered |-> {}]]
  /\ UNCHANGED <<assignee, rooms, messages, receipts, requests, calls>>

(* isValidChannel: any chat channel is valid, though its comment says that *)
(* membership of the room is enforced elsewhere.                           *)
IsValidChannel(channel, client) ==
  \/ channel[1] \in {"public", "chat"}
  \/ channel[1] = "agency" /\ (client.admin \/ client.agency = channel[2])

RoomsOn(channel) == {k \in 1..MaxRooms : channel = <<"chat", k>>}

HandleSubscribe(s) ==
  /\ sockets[s] # Closed
  /\ \E channel \in Channels \cap Wanted :
       /\ IsValidChannel(channel, sockets[s].client)
       /\ sockets' = [sockets EXCEPT ![s].joined = @ \cup {channel},
                                     ![s].subscribed = @ \cup {channel},
                                     ![s].entered = @ \cup RoomsOn(channel)]
  /\ UNCHANGED <<assignee, rooms, messages, receipts, requests, calls>>

(* A client may leave any room, its own user room too.                     *)
HandleUnsubscribe(s) ==
  /\ sockets[s] # Closed
  /\ \E channel \in Channels \cap Wanted :
       sockets' = [sockets EXCEPT ![s].joined = @ \ {channel},
                                  ![s].subscribed = @ \ {channel}]
  /\ UNCHANGED <<assignee, rooms, messages, receipts, requests, calls>>

HandleDisconnect(s) ==
  /\ sockets[s] # Closed
  /\ sockets' = [sockets EXCEPT ![s] = Closed]
  /\ UNCHANGED <<assignee, rooms, messages, receipts, requests, calls>>

(* The process stops (onModuleDestroy) or crashes: connections, requests   *)
(* and tokens are gone, rows and files stay.                               *)
Restart ==
  /\ requests' = [r \in Requests |-> IF requests[r] = Answered THEN Answered ELSE Failed]
  /\ sockets' = [s \in Sockets |-> Closed]
  /\ MediaLost
  /\ UNCHANGED <<scene, assignee, rooms, messages, receipts, calls, store, media, issued, now>>

RoomsStep ==
  \E r \in Requests :
    OpenRoom(r) \/ FindPeople(r) \/ CreateRoom(r) \/ StatementFails(r)

PeopleStep == \E r \in Requests : AddParticipant(r)

MessagesStep == \E r \in Requests : SendMessage(r) \/ Announce(r)

ReceiptsStep == \E r \in Requests : MarkRead(r) \/ WriteReceipt(r)

SocketsStep ==
  \E s \in Sockets :
    HandleConnection(s) \/ HandleSubscribe(s) \/ HandleUnsubscribe(s) \/ HandleDisconnect(s)

Next ==
  \/ "rooms" \in scene /\ RoomsStep /\ UNCHANGED <<scene, mediaVars>>
  \/ "people" \in scene /\ PeopleStep /\ UNCHANGED <<scene, mediaVars>>
  \/ "assignment" \in scene /\ Reassign /\ UNCHANGED <<scene, mediaVars>>
  \/ "messages" \in scene /\ MessagesStep /\ UNCHANGED <<scene, mediaVars>>
  \/ "receipts" \in scene /\ ReceiptsStep /\ UNCHANGED <<scene, mediaVars>>
  \/ "sockets" \in scene /\ SocketsStep /\ UNCHANGED <<scene, mediaVars>>
  \/ "media" \in scene /\ MediaNext /\ UNCHANGED <<scene, chatVars>>
  \/ Restart

Spec == Init /\ [][Next]_vars

(***************************************************************************)
(* Properties.                                                             *)
(***************************************************************************)

(* However many people open a chat at once, there is one room for a        *)
(* ticket (the index on chat_rooms.ticketId), and for an agency, which has *)
(* no such index, never more rooms than requests were under way at once,   *)
(* however many follow or die (chat.service.ts:9-139).                     *)
FewRoomsPerTopic ==
  /\ Cardinality(RoomsOf("TICKET")) <= 1
  /\ \A a \in Agencies : Cardinality(RoomsOf(a)) <= Cardinality(Requests)

(* A mark-read that is answered has left a receipt for every message of    *)
(* someone else that the room held when it began, whatever failed, was     *)
(* sent or was read meanwhile; and nobody has a receipt for their own      *)
(* message (chat.service.ts:205-220).                                      *)
ReadCoversTheRoom ==
  [][\A r \in Requests :
       At(r, "receipts") /\ requests'[r] = Answered =>
         \A m \in requests[r].found :
           <<m, requests[r].user>> \in receipts' /\ messages[m].sender # requests[r].user]_vars

(* A socket listens to no agency but its own, unless it is an admin's, and *)
(* what its client was told it subscribed to is what it listens to, its    *)
(* own user room aside (websocket.gateway.ts:157-163, 219-250, 396-434).   *)
SocketsListenToTheirOwn ==
  \A s \in Sockets : sockets[s] # Closed =>
    LET c == sockets[s].client IN
    /\ \A a \in Agencies : <<"agency", a>> \in sockets[s].joined => c.admin \/ c.agency = a
    /\ sockets[s].subscribed = sockets[s].joined \ {<<"user", c.user>>}

(* What a socket is sent is a message that is stored, of a room whose      *)
(* channel that connection has joined, whatever else it joined or left and *)
(* whatever became of the request that sent it (chat.controller.ts:46-68,  *)
(* websocket.gateway.ts:272-281). That its user belongs to the room is not *)
(* said: nothing sees to it.                                               *)
MessagesStayInTheirRooms ==
  \A s \in Sockets : sockets[s] # Closed =>
    \A m \in sockets[s].got :
      m \in DOMAIN messages /\ messages[m].room \in sockets[s].entered

(* Rooms and sockets at every moment, whatever overlapped or died.         *)
RoomsAreSound ==
  TypeOK /\ FewRoomsPerTopic /\ SocketsListenToTheirOwn /\ MessagesStayInTheirRooms
=============================================================================
