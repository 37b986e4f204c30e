--------------------------- MODULE MCWebdavStream ---------------------------
(* Small instances of WebdavStream: the ring fills and empties, and one chunk  *)
(* is larger than the ring.                                                  *)
EXTENDS WebdavStream

MCCallSizes == {1, 2}
MCCurlSizes == {1, 2, 3}
=============================================================================
