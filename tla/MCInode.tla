------------------------------ MODULE MCInode ------------------------------
(***************************************************************************)
(* The calls with which Inode is model-checked.                            *)
(***************************************************************************)
EXTENDS Inode

Absolute(s) == [abs |-> TRUE, elems |-> s]
Relative(s) == [abs |-> FALSE, elems |-> s]
Request(op, path) == <<op, path, NoPath>>

\* Names in the root and in d; a relative one is in the process's directory.
SomeRequests ==
    {Request("open", Absolute(<<"d">>)), Request("openw", Relative(<<"f">>)),
     Request("create", Absolute(<<"d", "f">>)), Request("mkdir", Relative(<<"f">>)),
     Request("mknod", Relative(<<"d">>)), Request("unlink", Absolute(<<"f">>)),
     Request("unlink", Absolute(<<"d">>)), Request("unlink", Relative(<<"d", "f">>)),
     Request("chdir", Absolute(<<>>)), <<"link", Absolute(<<"f">>), Absolute(<<"d", "f">>)>>}

\* The processes are alike.
Interchangeable == Permutations(Procs)
=============================================================================
