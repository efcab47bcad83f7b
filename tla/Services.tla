------------------------------- MODULE Services -------------------------------
(***************************************************************************)
(* The parts of the services that keep state of their own and share none   *)
(* with each other: catalog and search index, paged lists, users, errors   *)
(* between services, recovery workers, the life of one process, one call   *)
(* of a handler.  A step of one never changes what another one does, so a  *)
(* behaviour moves only one of them and every interleaving of them is a    *)
(* mixture of such behaviours.                                             *)
(***************************************************************************)
EXTENDS Catalog, Listing, Users, ErrorClasses, Recovery, Lifecycle, Handlers

VARIABLE active  \* the part that moves

Parts == {"catalog", "listing", "users", "errors", "recovery", "life", "handlers"}

servicesVars ==
    <<active, catalogVars, listingVars, userVars, errorVars, recoveryVars, lifeVars, handlerVars>>

\* The parts at rest are all in one state.
ServicesInit ==
    /\ active \in Parts
    /\ CatalogInit /\ ListingInit /\ UsersInit /\ ErrorsInit /\ RecoveryInit
    /\ LifeInit /\ HandlersInit
    /\ active # "listing" => list = "products"
    /\ active # "users" => crowd.until = 0
    /\ active # "errors" => err = <<Layer("app", "internal")>>
    /\ active # "life" => service = "order" /\ graph = "as written"
    /\ active # "handlers" => orderStatus = "pending" /\ refundRows = {}

CatalogMoves ==
    /\ active = "catalog" /\ CatalogNext
    /\ UNCHANGED <<active, listingVars, userVars, errorVars, recoveryVars, lifeVars, handlerVars>>

ListingMoves ==
    /\ active = "listing" /\ ListingNext
    /\ UNCHANGED <<active, catalogVars, userVars, errorVars, recoveryVars, lifeVars, handlerVars>>

UsersMove ==
    /\ active = "users" /\ UsersNext
    /\ UNCHANGED <<active, catalogVars, listingVars, errorVars, recoveryVars, lifeVars, handlerVars>>

ErrorMoves ==
    /\ active = "errors" /\ ErrorsNext
    /\ UNCHANGED <<active, catalogVars, listingVars, userVars, recoveryVars, lifeVars, handlerVars>>

RecoveryMoves ==
    /\ active = "recovery" /\ RecoveryNext
    /\ UNCHANGED <<active, catalogVars, listingVars, userVars, errorVars, lifeVars, handlerVars>>

LifeMoves ==
    /\ active = "life" /\ LifeNext
    /\ UNCHANGED <<active, catalogVars, listingVars, userVars, errorVars, recoveryVars, handlerVars>>

HandlersMove ==
    /\ active = "handlers" /\ HandlersNext
    /\ UNCHANGED <<active, catalogVars, listingVars, userVars, errorVars, recoveryVars, lifeVars>>

ServicesNext ==
    \/ CatalogMoves \/ ListingMoves \/ UsersMove \/ ErrorMoves
    \/ RecoveryMoves \/ LifeMoves \/ HandlersMove

ServicesSpec == ServicesInit /\ [][ServicesNext]_servicesVars

=============================================================================
