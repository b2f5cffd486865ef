---------------------------- MODULE MCListPages -----------------------------
(* Small instances of ListPages for TLC: every list page of the web.      *)
EXTENDS ListPages, AdminPages, CatalogPages, MemberPages, FrontPages

AllLists == AdminLists \cup CatalogLists \cup MemberLists \cup FrontLists
=============================================================================
