\* A mount of dazukofs; the sb_info allocation may fail.
SPECIFICATION SSpec
INVARIANT MountNeverFaults
