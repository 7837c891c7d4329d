SPECIFICATION RebootSpec
INVARIANT RebootConfirmed
