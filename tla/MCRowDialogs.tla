---------------------------- MODULE MCRowDialogs ----------------------------
(* Small instances of RowDialogs for TLC: every dialog of the web.        *)
EXTENDS RowDialogs, AdminPages, CatalogPages, MemberPages, FrontPages

CONSTANTS a, b   \* rows

AllDialogs == AdminDialogs \cup CatalogDialogs \cup MemberDialogs \cup FrontDialogs
=============================================================================
