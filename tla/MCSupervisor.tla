---------------------------- MODULE MCSupervisor ----------------------------
(***************************************************************************)
(* A small world for the supervised program: a root in which others may   *)
(* create a project, its build directory and the marker of that, when they *)
(* do not move the root away and back or replace it by a new one.          *)
(***************************************************************************)
EXTENDS MCWatcher, Supervisor

InService(path) ==
    {path, Append(path, "a")} \cup {path \o <<"a", name>> : name \in {"target", "Cargo.toml"}}

ServicePaths == InService(r) \cup InService(away) \cup {o}
ServiceTrees ==
    {TreeOf(ServicePaths, r :> "root" @@ o :> "outside"),
     TreeOf(ServicePaths, r :> "root" @@ a :> "a" @@ o :> "outside")}
ServicePath == ServicePaths
ServiceCreatable ==
    {<<r, "dir">>, <<a, "dir">>, <<target, "dir">>, <<Append(a, "Cargo.toml"), "file">>}
ServiceDeletable == {r}
ServiceRenamable == {<<r, away>>, <<away, r>>}
=============================================================================
