----------------------------- MODULE Deletions ------------------------------
(***************************************************************************)
(* The deletions of the admin application that look first at what hangs    *)
(* on the row: of a donor or counterpart (Assignments) and of an           *)
(* organization (PublicSite).                                              *)
(***************************************************************************)
EXTENDS Assignments, PublicSite

\* A deletion that counted what hangs on the row first, of a donor or
\* counterpart and of an organization, takes with it only what came after the
\* count (delete-donor-, delete-counterpart- and
\* delete-political-organization-usecase).
DeletionsTakeOnlyNew == DeletionTakesOnlyNewLinks /\ OrganizationDeletionTakesOnlyNewRows
=============================================================================
