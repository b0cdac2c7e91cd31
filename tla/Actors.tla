------------------------------- MODULE Actors -------------------------------
(***************************************************************************)
(* The principal of a service call (packages/permissions) and what it may  *)
(* do.  Every content service asks assertCapability before its first       *)
(* statement, and actorUserId where it writes a user's name; a refusal     *)
(* throws AUTH_FORBIDDEN and changes nothing, so both are guards of the    *)
(* actions.                                                                *)
(***************************************************************************)
CONSTANT Actors   \* the actors that call the services

(* UserActor and SystemActor; a system actor has a name instead of a user. *)
UserActor(a)   == a.kind = "user"
SystemActor(a) == a.kind = "system"

Capabilities ==
  {"workspace:update", "workspace:archive", "workspace:transfer-ownership",
   "member:list", "member:update", "member:invite", "member:remove",
   "invitation:list", "invitation:create", "invitation:revoke",
   "page:read", "page:create", "page:update", "page:delete", "page:move", "page:archive",
   "task:create", "task:update", "task:delete",
   "note:create", "note:update", "note:delete", "note:read-version-history",
   "habit:create", "habit:update", "habit:delete", "habit:checkin",
   "expense:create", "expense:update", "expense:delete", "budget:set",
   "calendar:create", "calendar:update", "calendar:delete",
   "vault:create-meta", "vault:read-meta", "ai:use", "xp:award",
   "share:create", "share:revoke", "review:write", "import:start", "import:read"}

RoleCapabilities ==
  [owner  |-> Capabilities,
   admin  |-> Capabilities \ {"workspace:archive", "workspace:transfer-ownership"},
   member |-> Capabilities \ {"workspace:update", "workspace:archive", "workspace:transfer-ownership",
                              "member:update", "member:invite", "member:remove",
                              "invitation:create", "invitation:revoke", "page:delete",
                              "budget:set", "xp:award", "import:start"},
   viewer |-> {"member:list", "page:read", "note:read-version-history", "vault:read-meta", "import:read"}]

HasCapability(role, cap) == cap \in RoleCapabilities[role]

(* System actors have every capability.                                    *)
AssertCapability(a, cap) == SystemActor(a) \/ HasCapability(a.role, cap)

(* assertCapability, and actorUserId, which refuses system actors.         *)
MayAct(a, cap) == AssertCapability(a, cap) /\ UserActor(a)
=============================================================================
