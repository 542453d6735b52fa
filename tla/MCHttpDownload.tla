-------------------------- MODULE MCHttpDownload --------------------------
(***************************************************************************)
(* Small instances of HttpDownload: bodies of up to five bytes for a       *)
(* buffer of four, with a right, a wrong and no Content-Length.            *)
(***************************************************************************)
EXTENDS HttpDownload

MCResponses ==
    [status: {200, 404}, clen: {NoLen, 2, 3, 5}, len: {0, 2, 3, 5}]
MCAligns == 0 .. 3
\* One complete file.  A pbuf of the pool is aligned to 4 and the Ethernet, IP
\* and TCP headers in front of the data take 14 + 20 + 20 bytes.
GoodResponses == {[status |-> 200, clen |-> 4, len |-> 4]}
FrameAligns == {2}
=============================================================================
