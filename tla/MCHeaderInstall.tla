-------------------------- MODULE MCHeaderInstall --------------------------
EXTENDS HeaderInstall

MCArch == {"x86", "arm64"}
MCAsmName == {"asm/types.h"}
MCGenName == {"linux/kvm.h"}
MCChoices == {"auto", "generic", "arm64"}
MCCpu == {"x86_64", "aarch64"}
MCRev == 1..2
=============================================================================
