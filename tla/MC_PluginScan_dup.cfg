\* Every BUILD declaration list of up to 3 entries and package metadata of up
\* to 2 entries over 2 names and 2 references, every blocklist, and a
\* working directory up to two levels below a BUILD_ROOT-marked tree.
CONSTANTS
    a = a
    c = c
    v1 = v1
    v2 = v2
    Name <- MCName
    Value <- MCValue
    MaxEntries = 3
    MaxDepth = 2
SPECIFICATION Spec
INVARIANT IdenticalDuplicateTolerated
