-------------------------------- MODULE Roles --------------------------------
(***************************************************************************)
(* What a person may do where.  An assignment gives somebody a role at a   *)
(* branch; the matrix says what a role may do; an owner may delegate the   *)
(* editing of prices to a store manager at one branch.  The delegation is  *)
(* checked first and inserted later.  A change of role is made branch by   *)
(* branch, each in a transaction that also drops what the new role may not *)
(* hold.                                                                   *)
(*                                                                         *)
(* Of the permissions, one that is delegated, one that never is, one that  *)
(* holds for the whole company and one that everybody has stand for all.   *)
(***************************************************************************)
EXTENDS Access

CONSTANTS Places, NoPlace,
          MaxTenures     \* bound: changes of role at one branch

VARIABLES matrix,    \* role_permissions
          post,      \* user_branches: role, and how often it became another
          grants,    \* user_branch_permissions: the tenure it was decided in, 0 if none
          granting,  \* delegations that have passed their checks
          changing,  \* changes of role under way
          crossed,   \* posts whose delegation was inserted after a change of role
          entrusted, \* posts that ever were an owner's or got the delegation
          used       \* permissions requests were admitted with

roleVars == <<matrix, post, grants, granting, changing, crossed, entrusted, used>>

RoleKeys == {"owner", "store_manager", "store_employee"}
CompanyPermissions == {"supplier.manage"}
Delegatable == {"price.edit"}
ROLE_PERMISSIONS ==
    [r \in RoleKeys |-> {"sale.create"}
        \cup (IF r # "store_employee" THEN {"supplier.manage"} ELSE {})
        \cup (IF r = "owner" THEN {"price.edit", "discount.override"} ELSE {})]
PermissionKeys == UNION {ROLE_PERMISSIONS[r] : r \in RoleKeys}

Posts == Users \X Places
NoChange == [role |-> "none", todo |-> {}]

RolesTypeOK ==
    /\ matrix \in [RoleKeys -> SUBSET PermissionKeys]
    /\ post \in [Posts -> [role: RoleKeys \cup {"none"}, tenure: 0..MaxTenures]]
    /\ grants \in [Posts -> 0..MaxTenures]

(* A company with its matrix, with one of its own, or registered at a time  *)
(* when roles were created without permissions.                             *)
RolesInit(people) ==
    /\ matrix \in {ROLE_PERMISSIONS, [r \in RoleKeys |-> {}],
                   [ROLE_PERMISSIONS EXCEPT !["store_employee"] = {}]}
    /\ post = [p \in Posts |-> IF p[1] \in people THEN [role |-> "store_manager", tenure |-> 1]
                               ELSE [role |-> "none", tenure |-> 0]]
    /\ grants = [p \in Posts |-> 0]
    /\ granting = {} /\ crossed = {} /\ entrusted = {} /\ used = {}
    /\ changing = [u \in Users |-> NoChange]

-----------------------------------------------------------------------------
(* AccessService.getEffectivePermissions *)
Assignments(u, b) == {p \in Posts : /\ p[1] = u /\ post[p].role # "none"
                                    /\ b # NoPlace => p[2] = b}
OfRoles(ps) == UNION {matrix[post[p].role] : p \in ps}

EffectivePermissions(u, b) ==
    LET ps == Assignments(u, b) IN
    IF b = NoPlace THEN OfRoles(ps) \cap CompanyPermissions
    ELSE OfRoles(ps) \cup
         IF \E p \in ps : post[p].role = "store_manager" /\ grants[p] # 0 THEN Delegatable ELSE {}

(* JwtStrategy and PermissionsGuard let a request in. *)
Admit(u, b, key) ==
    /\ account[u].state = "active"
    /\ key \in EffectivePermissions(u, b)
    /\ used' = used \cup {<<u, b, key>>}
    /\ used' # used
    /\ UNCHANGED <<accessVars, matrix, post, grants, granting, changing, crossed, entrusted>>

-----------------------------------------------------------------------------
(* eligibleAssignment *)
Eligible(p) == account[p[1]].state = "active" /\ post[p].role = "store_manager"

BeginGrant(p) ==
    /\ Eligible(p)
    /\ \A g \in granting : g[1] # p
    /\ granting' = granting \cup {<<p, post[p].tenure>>}
    /\ UNCHANGED <<accessVars, matrix, post, grants, changing, crossed, entrusted, used>>

(* grantPriceEdit inserts; a delegation that is there already is a success. *)
GrantPriceEdit(g) ==
    LET p == g[1] IN
    /\ g \in granting
    /\ granting' = granting \ {g}
    /\ grants' = IF grants[p] = 0 THEN [grants EXCEPT ![p] = g[2]] ELSE grants
    /\ crossed' = IF grants[p] = 0 /\ g[2] # post[p].tenure THEN crossed \cup {p} ELSE crossed
    /\ entrusted' = entrusted \cup {p}
    /\ UNCHANGED <<accessVars, matrix, post, changing, used>>

RevokePriceEdit(p) ==
    /\ grants[p] # 0
    /\ grants' = [grants EXCEPT ![p] = 0]
    /\ crossed' = crossed \ {p}
    /\ UNCHANGED <<accessVars, matrix, post, granting, changing, entrusted, used>>

-----------------------------------------------------------------------------
(* create-user gives somebody a role at every branch, and an account if     *)
(* they have none; it leaves an account that is switched off so.  It also   *)
(* sets the password, and clears a mark of deletion that nothing sets:      *)
(* neither is state here.                                                   *)
BeginChange(u, role) ==
    /\ changing[u] = NoChange
    /\ IF account[u].state # "none" THEN UNCHANGED <<account, accountSeen>>
       ELSE WriteAccount(u, [NoAccount EXCEPT !.state = "active"])
    /\ changing' = [changing EXCEPT ![u] = [role |-> role, todo |-> Places]]
    /\ UNCHANGED <<session, secretSeen, held, device, signing>>
    /\ UNCHANGED <<matrix, post, grants, granting, crossed, entrusted, used>>

KeepsEveryGrant(role) == TRUE
RoleKeepsDelegatedGrants(role) == role = "store_manager"

PruneGrantsForRole(p, role) ==
    /\ grants' = IF RoleKeepsDelegatedGrants(role) THEN grants ELSE [grants EXCEPT ![p] = 0]
    /\ crossed' = IF RoleKeepsDelegatedGrants(role) THEN crossed ELSE crossed \ {p}

ChangeRole(u, b) ==
    LET p == <<u, b>>
        role == changing[u].role
        left == changing[u].todo \ {b} IN
    /\ b \in changing[u].todo
    /\ post[p].tenure < MaxTenures
    /\ post' = IF post[p].role = role THEN post
               ELSE [post EXCEPT ![p] = [role |-> role, tenure |-> @.tenure + 1]]
    /\ PruneGrantsForRole(p, role)
    /\ changing' = [changing EXCEPT ![u] = IF left = {} THEN NoChange ELSE [@ EXCEPT !.todo = left]]
    /\ entrusted' = IF role = "owner" THEN entrusted \cup {p} ELSE entrusted
    /\ UNCHANGED <<accessVars, matrix, granting, used>>

(* provisionDefaultRoles adds what is missing ... *)
ProvisionDefaultRoles == [r \in RoleKeys |-> matrix[r] \cup ROLE_PERMISSIONS[r]]

(* ... and the repair of a company asks for it only if all roles are empty. *)
JudgeCompany == \A r \in RoleKeys : matrix[r] = {}

RepairRoles ==
    /\ JudgeCompany
    /\ matrix' = ProvisionDefaultRoles
    /\ UNCHANGED <<accessVars, post, grants, granting, changing, crossed, entrusted, used>>

RoleStep ==
    \/ \E u \in Users, b \in Places \cup {NoPlace}, key \in PermissionKeys : Admit(u, b, key)
    \/ \E p \in Posts : BeginGrant(p) \/ RevokePriceEdit(p)
    \/ \E g \in granting : GrantPriceEdit(g)
    \/ \E u \in Users : \/ \E role \in RoleKeys : BeginChange(u, role)
                        \/ \E b \in Places : ChangeRole(u, b)
    \/ RepairRoles
=============================================================================
