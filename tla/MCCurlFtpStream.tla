-------------------------- MODULE MCCurlFtpStream --------------------------
(* A small instance of CurlFtpStream: the ring fills, wraps and is partly free, *)
(* and one callback size (3) is larger than the whole ring.                   *)
EXTENDS CurlFtpStream

MCCurlSizes == {1, 3}
MCCallSizes == {2}
=============================================================================
