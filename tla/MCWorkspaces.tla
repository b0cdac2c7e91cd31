---------------------------- MODULE MCWorkspaces ----------------------------
(* Small instances of Workspaces for TLC.                                  *)
EXTENDS Workspaces, TLC

(* Users, invitations and requests are interchangeable.                    *)
Interchangeable == Permutations(Users) \cup Permutations(Invites) \cup Permutations(Requests)
=============================================================================
