SPECIFICATION Spec
CONSTANT Samples <- MCSamples
INVARIANT TypeOK
INVARIANT PublishedIsPrefixAndHost
INVARIANT ContainerKeepsItsAddress
INVARIANT PanicOnlyOnConfiguredFullAddress
CHECK_DEADLOCK FALSE
