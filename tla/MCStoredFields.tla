--------------------------- MODULE MCStoredFields ---------------------------
EXTENDS StoredFields

MCKinds == {"bkey", "ptr", "cache", "bdev", "tcmu", "checkpoint", "segment",
            "chunkmap", "sockaddr", "ieee", "psr", "raw"}

\* The byte orders the architectures' byteorder.h allow.
MCMachines ==
    {[arch |-> a, big |-> FALSE] : a \in Archs \ {"m68k", "sparc64"}}
      \cup {[arch |-> a, big |-> TRUE] :
             a \in {"arm", "arc", "xtensa", "mips", "mips64", "sh", "m68k", "sparc64", "powerpc"}}

\* Every single bit, and words in which all bytes differ.
MCImages ==
    {{b} : b \in 0..63}
      \cup {{}, 0..63, {0, 9, 18, 27, 36, 45, 54, 63}, {1, 2, 11, 12, 13, 20, 31, 40, 61, 62}}

\* The highest bit of the field, and all ones of a number one bit too wide.
MCValues(n) == {{}, {n - 1}, 0..n}

MCChunkTypes == {0, 31, 32, 255}

MCControls == SUBSET {1, 4, 6, 12, 13, 17, 22}
=============================================================================
