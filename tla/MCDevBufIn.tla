---------------------------- MODULE MCDevBufIn -----------------------------
(* Instances of DevBufIn for TLC.                                          *)
EXTENDS DevBufIn

(* All files up to a length that needs several blocks.                     *)
AllFiles(n) == UNION { [1 .. k -> Char] : k \in 0 .. n }
Files == AllFiles(4)

=============================================================================
