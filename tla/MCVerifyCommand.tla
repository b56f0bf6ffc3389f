----------------------------- MODULE MCVerifyCommand -----------------------------
(* Worlds of an application, libraries and two spellings of the prelude. *)
EXTENDS VerifyCommand

MCPackages == {"app", "lib", "ext", "prelude", "prelude2"}
MCFoundations == {"prelude", "prelude2"}
None == <<>>
Deps(app, lib, ext, prelude) ==
    [p \in MCPackages |->
        CASE p = "app" -> app [] p = "lib" -> lib [] p = "ext" -> ext
          [] p = "prelude" -> prelude [] OTHER -> None]
World(local, sources, installed, declared, required) ==
    [local |-> local, sources |-> sources, installed |-> installed,
     declared |-> declared, required |-> required]
NoDeps == Deps(None, None, None, None)
Chained == Deps(<<"lib">>, <<"ext", "prelude">>, <<"prelude">>, None)

MCWorlds == {
    \* everything in the tree, in an order that is not that of the dependencies
    World(<<"app", "ext", "lib", "prelude">>, {}, {}, Chained, NoDeps),
    \* a diamond of local, path and installed packages
    World(<<"app">>, {"lib"}, {"ext", "prelude"},
          Deps(<<"ext", "lib", "prelude">>, <<"prelude">>, None, None), Deps(None, None, <<"prelude">>, None)),
    \* a path source that fails half way, installed as well
    World(<<"app">>, {"lib", "ext"}, {"lib", "prelude"},
          Deps(<<"lib">>, <<"ext">>, <<"prelude2">>, None), Deps(None, <<"prelude">>, None, None)),
    \* the same, not installed
    World(<<"app">>, {"lib"}, {"prelude"}, Deps(<<"lib">>, <<"prelude", "ext">>, None, None), NoDeps),
    \* cycles: of path sources, of installed packages under a path source
    World(<<"app">>, {"lib", "ext"}, {}, Deps(<<"lib">>, <<"ext">>, <<"lib">>, None), NoDeps),
    World(<<"app">>, {"lib"}, {"ext", "prelude"},
          Deps(<<"lib">>, <<"ext">>, None, None), Deps(None, None, <<"prelude", "ext">>, None)),
    World(<<"app">>, {}, {"lib", "ext"},
          Deps(<<"lib">>, None, None, None), Deps(None, <<"ext">>, <<"lib">>, None)),
    \* two foundations; a foundation with a dependency
    World(<<"app", "prelude2">>, {}, {"prelude"}, Deps(<<"prelude">>, None, None, None), NoDeps),
    World(<<"app", "ext", "prelude">>, {}, {},
          Deps(<<"prelude">>, None, None, <<"ext">>), NoDeps)}

MCVerifiers == {"mmverify", "metamath"}
MCConfigs == {<<"mmverify">>, <<"mmverify", "metamath">>}
=============================================================================
