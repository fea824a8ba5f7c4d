----------------------------- MODULE Navigation ------------------------------
(***************************************************************************)
(* Where an account may go: the menu (frontend/src/shared/components/      *)
(* AppLayout.tsx), the routes (app/router.tsx with ProtectedRoute and      *)
(* SuperAdminRoute), and what each page asks the server for as it opens,   *)
(* with what the endpoint requires.  Three tables, kept apart as the code  *)
(* keeps them.                                                             *)
(***************************************************************************)

(* An item with superAdmin is listed for super administrators only. *)
SuperOnly == {"companies", "roles", "software_settings", "system_maintenance"}

MenuPermission ==
    [app |-> "dashboard:show",
     vehicle_entry |-> "parking_entry:show", vehicle_entry_log |-> "parking_entry:show",
     vehicle_exit |-> "parking_exit:show", vehicle_exit_log |-> "parking_exit:show",
     advanced_parking |-> "advanced:show", monthly_passes |-> "advanced:show",
     employees |-> "employee:show", parking_rates |-> "rate:show",
     reports |-> "report:show", audit_logs |-> "audit:show"]

Screen == DOMAIN MenuPermission \cup SuperOnly

(* Mutant: an item without a permission of its own is for everybody. *)
CanViewUnmarked(super, permissions, s) ==
    super \/ s \in SuperOnly \/ MenuPermission[s] \in permissions

CanView(super, permissions, s) ==
    super \/ (s \notin SuperOnly /\ MenuPermission[s] \in permissions)

(* ProtectedRoute asks for every permission of its list. *)
RoutePermissions ==
    [app |-> {"dashboard:show"},
     employees |-> {"employee:show"},
     parking_rates |-> {"rate:show"},
     vehicle_entry |-> {"parking_entry:show"}, vehicle_entry_log |-> {"parking_entry:show"},
     vehicle_exit |-> {"parking_exit:show"}, vehicle_exit_log |-> {"parking_exit:show"},
     reports |-> {"report:show"},
     audit_logs |-> {"audit:show"},
     advanced_parking |-> {"advanced:show"}, monthly_passes |-> {"advanced:show"}]

SuperAdminRoute == {"companies", "roles", "system_maintenance", "software_settings"}

Admits(super, permissions, s) ==
    super \/ (s \notin SuperAdminRoute /\ RoutePermissions[s] \subseteq permissions)

(* The calls a page makes as it opens, each by the permissions any one of  *)
(* which it requires; "super" is require_super_admin.  Calls whose refusal *)
(* the page passes over in silence are left out.                           *)
Loads ==
    [app |-> {{"dashboard:show"}},
     employees |-> {{"employee:show"}},
     parking_rates |-> {{"rate:show"}},
     vehicle_entry |-> {}, vehicle_entry_log |-> {{"parking_entry:show"}},
     vehicle_exit |-> {{"parking_exit:show"}}, vehicle_exit_log |-> {{"parking_exit:show"}},
     reports |-> {{"report:show"}},
     audit_logs |-> {{"audit:show"}},
     advanced_parking |-> {{"advanced:show"}}, monthly_passes |-> {{"advanced:show"}},
     companies |-> {{"super"}}, roles |-> {{"super"}},
     system_maintenance |-> {}, software_settings |-> {{"super"}}]

Serves(super, permissions, s) ==
    super \/ \A keys \in Loads[s] : keys \cap permissions # {}

(* PermissionGate shows a button to who has its permission. *)
Gate(super, permissions, key) == super \/ key \in permissions
=============================================================================
