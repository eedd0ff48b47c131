------------------------------ MODULE Presence ------------------------------
(***************************************************************************)
(* Who is on the map.  The handlers of a map instance find each other's    *)
(* characters by walking the list of live entities (getEntity,             *)
(* getEntityByDBID in src/Servers/MapServer/DataHelpers.cpp): to all of    *)
(* them a character is there from the time its entity is inserted until    *)
(* it is taken off the list.  MapSessions is what a map instance does for  *)
(* that; here it is one step each.                                         *)
(***************************************************************************)
CONSTANT Characters  \* database ids of characters

VARIABLE here        \* those with an entity on the list of live entities

PresenceInit == here = {}

(* on_entity_response: the entity is filled from the database and shown    *)
Enters(c) ==
    /\ c \notin here
    /\ here' = here \union {c}

(* on_disconnect, on_link_lost: removeEntityFromActiveList                 *)
Leaves(c) ==
    /\ c \in here
    /\ here' = here \ {c}

PresenceNext == \E c \in Characters : Enters(c) \/ Leaves(c)

PresenceSpec == PresenceInit /\ [][PresenceNext]_here

-----------------------------------------------------------------------------
PresenceTypeOK == here \subseteq Characters
=============================================================================
